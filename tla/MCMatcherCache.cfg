SPECIFICATION Spec
CONSTANTS
  Callers = {p1, p2, p3}
  Exprs = {good, other, bad}
  Invalid = {bad}
  None = None
INVARIANTS NoConcurrentMapAccess OwnProgram
PROPERTIES ImplementsMemo EveryCallReturns
