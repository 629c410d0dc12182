\* The owner cancels while the instance starts; nothing else goes wrong.
CONSTANTS
  e1 = e1
  i0 = i0
  i1 = i1
  i2 = i2
  Exec = {e1}
  Instance = {i0}
  ExecOf <- MCExecOf
  First <- MCFirst
  NumActions = 1
  MaxAttempts = 1
  DefaultAttempts = 1
  Cancellable = {e1}
  RetryAnyStatus = FALSE
  MaxCrashes = 0
  MaxTimeouts = 0
SPECIFICATION Spec
INVARIANT CancelStops
CHECK_DEADLOCK FALSE
