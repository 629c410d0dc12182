\* One execution of two actions, two worker slots, two faults, one retry.
CONSTANTS
  e1 = e1
  p1 = p1
  p2 = p2
  nobody = nobody
  Exec <- MCExec
  Proc <- MCProc
  Nobody <- nobody
  Types <- MCTypes
  MaxAttempts = 2
  MaxStalls = 1
  MaxRetries = 1
  MaxFaults = 2
SPECIFICATION FairSpec
INVARIANTS
  RowFollowsJob
PROPERTIES
  LivesAsQueued
  ResumesWhereItStopped
  JobEnds
CHECK_DEADLOCK FALSE
