SPECIFICATION Spec
CONSTANTS
  t1 = t1
  t2 = t2
  f1 = f1
  f2 = f2
  c1 = c1
  c2 = c2
  c3 = c3
  Tab <- TwoTabs
  SignIn <- TwoSignIns
  Call <- Calls
  Identity <- Identities
  Known <- KnownUsers
  MaxFaults = 1
INVARIANTS
  SignedInAsChosen
  OnceOnly
  RetryIsEnough
  ConflictIsReal
SYMMETRY Swaps
CHECK_DEADLOCK FALSE
