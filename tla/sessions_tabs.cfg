\* Two tabs, the Worker, no fault.
CONSTANTS
  t1 = t1
  t2 = t2
  Tab = {t1, t2}
  Call = {1, 2, 3}
  Runtime = {"worker"}
  MaxToken = 3
  MaxFaults = 0
SPECIFICATION Spec
INVARIANT RejectedMeansOver
CHECK_DEADLOCK FALSE
