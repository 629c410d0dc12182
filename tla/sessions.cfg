\* Two tabs, either runtime, one fault.
CONSTANTS
  t1 = t1
  t2 = t2
  Tab = {t1, t2}
  Call = {1, 2, 3}
  Runtime = {"worker", "backend"}
  MaxToken = 3
  MaxFaults = 1
SPECIFICATION FairSpec
INVARIANTS
  OneLivePerSession
  SignOutEndsSession
  StoredIsLive
PROPERTIES
  NoReplay
  RefreshSettles
CHECK_DEADLOCK FALSE
