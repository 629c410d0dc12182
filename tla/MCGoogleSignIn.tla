---------------------------- MODULE MCGoogleSignIn ----------------------------
(* Instances of GoogleSignIn for TLC: an account, one with the same email,   *)
(* the first after a change of its email, and an unverified one.             *)
EXTENDS GoogleSignIn, TLC

CONSTANTS t1, t2, f1, f2, c1, c2, c3

TwoTabs    == {t1, t2}
TwoSignIns == {f1, f2}
Calls      == {c1, c2, c3}

Identities ==
  {[sub |-> "a", email |-> "x", verified |-> TRUE],
   [sub |-> "b", email |-> "x", verified |-> TRUE],
   [sub |-> "a", email |-> "y", verified |-> TRUE],
   [sub |-> "c", email |-> "y", verified |-> FALSE]}

KnownUsers == {"y"}

Swaps == Permutations(TwoTabs) \cup Permutations(TwoSignIns) \cup Permutations(Calls)
=============================================================================
