SPECIFICATION Spec
CONSTANTS
  h1 = h1
  h2 = h2
  p1 = p1
  p2 = p2
  i1 = i1
  i2 = i2
  e1 = e1
  e2 = e2
  Handler <- TwoHandlers
  Process <- TwoProcesses
  Item <- TwoItems
  Config <- Configs
  Feed <- Feeds
  Deployment <- Deployments
INVARIANTS
  ScheduleFollowsTrigger
  FiresOnceUnlessRetold
  NothingMissed
SYMMETRY Swaps
CHECK_DEADLOCK FALSE
