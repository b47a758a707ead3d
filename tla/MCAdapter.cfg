SPECIFICATION Spec
CONSTANTS
  Calls = {c1}
  NumReactors = 5
  Disabled = {3}
  NoAuth = "none"
  AuthOf <- MC_AuthOf
  HandlerType <- MC_HandlerType
  ProviderOf <- MC_ProviderOf
  Registered = {"http", "custom"}
  CtxAware = {"http"}
  MayPanic = {"custom"}
  MayHang = {"custom"}
INVARIANTS NoOrphans NoLostResult OwnToken
PROPERTIES ImplementsFanOut EveryCallReturns
CHECK_DEADLOCK FALSE
