SPECIFICATION Spec
CONSTANTS
  r1 = r1
  r2 = r2
  r3 = r3
  Runtimes <- BothRuntimes
  User <- Users
  Flow <- Flows
  Step <- Steps
  Request <- Requests
  Menus <- EditMenus
  InitialOwner <- Owners
  InitialStep <- Rows
INVARIANTS
  OrderIsTotal
  SecretsAreOwn
PROPERTIES
  SecretKept
  DeletedStaysDeleted
  CloneIsFaithful
SYMMETRY Swaps
CHECK_DEADLOCK FALSE
