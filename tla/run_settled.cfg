\* Retries of settled FAILED runs only, no cancellation, two crashes.
CONSTANTS
  e1 = e1
  i0 = i0
  i1 = i1
  i2 = i2
  Exec = {e1}
  Instance = {i0, i1, i2}
  ExecOf <- MCExecOf
  First <- MCFirst
  NumActions = 3
  MaxAttempts = 2
  DefaultAttempts = 3
  Cancellable = {}
  RetryAnyStatus = FALSE
  MaxCrashes = 2
  MaxTimeouts = 0
SPECIFICATION FairSpec
INVARIANTS
  CheckpointMatchesRows
  StepSeesEarlierOutput
PROPERTIES
  ImplementsRun
  RunsEnd
CHECK_DEADLOCK FALSE
