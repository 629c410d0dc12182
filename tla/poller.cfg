\* Two edits of the trigger, one fault, one item.
CONSTANTS
  r1 = r1
  r2 = r2
  x1 = x1
  Req = {r1, r2}
  Item = {x1}
  Config <- MCConfig
  ModeEdits = FALSE
  MaxFaults = 1
SPECIFICATION FairSpec
INVARIANTS
  FiresOnce
PROPERTIES
  NothingOldFires
  FollowsTrigger
  NewsFires
CHECK_DEADLOCK FALSE
