\* Cancellation, retries of live runs, a late step attempt.
CONSTANTS
  e1 = e1
  i0 = i0
  i1 = i1
  i2 = i2
  Exec = {e1}
  Instance = {i0, i1}
  ExecOf <- MCExecOf
  First <- MCFirst
  NumActions = 2
  MaxAttempts = 2
  DefaultAttempts = 2
  Cancellable = {e1}
  RetryAnyStatus = TRUE
  MaxCrashes = 0
  MaxTimeouts = 1
SPECIFICATION Spec
INVARIANTS
  SucceededRanEverything
  StepsInOrder
CHECK_DEADLOCK FALSE
