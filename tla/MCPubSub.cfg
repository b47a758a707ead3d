SPECIFICATION Spec
CONSTANTS
  m1 = m1
  m2 = m2
  bad = bad
  Messages = {m1, m2, bad}
  Bad = {bad}
  Reactors = {1, 2}
  DueOf <- MC_DueOf
  Slots = {1, 2}
  None = None
  Faults = {"kill", "panic", "handlerPanic", "lease", "shutdown"}
  MaxFaults = 2
INVARIANTS AckedIsReported UnconvertibleIsKept NoMessageForgotten
PROPERTIES EventuallyAcked
