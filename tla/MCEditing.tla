------------------------------ MODULE MCEditing ------------------------------
(* Instances of Editing for TLC: ann's workflow of two steps, bob's of one,  *)
(* an id for a copy, and requests that draw from one menu at a time.         *)
EXTENDS Editing, TLC

CONSTANTS r1, r2, r3

Users    == {"ann", "bob"}
Flows    == {"w1", "w2", "w3"}
Steps    == {"s1", "s2", "s3", "s4", "s5", "s6"}
Requests == {r1, r2, r3}
BothRuntimes == {"worker", "backend"}

EditMenus ==
  {{"addStep", "deleteStep", "reorder"}, {"addStep", "updateStep", "clone"},
   {"addStep", "reorder", "clone"},
   {"saveTrigger", "deleteTrigger", "clone"}, {"setStatus", "clone", "create"}}

Owners == [f \in Flows |-> CASE f = "w1" -> "ann" [] f = "w2" -> "bob" [] OTHER -> None]
Rows   == [s \in Steps |-> CASE s = "s1" -> [flow |-> "w1", pos |-> 0]
                             [] s = "s2" -> [flow |-> "w1", pos |-> 1]
                             [] s = "s3" -> [flow |-> "w2", pos |-> 0]
                             [] OTHER    -> Unborn]

Swaps == Permutations(Requests)
=============================================================================
