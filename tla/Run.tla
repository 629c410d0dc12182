-------------------------------- MODULE Run --------------------------------
(***************************************************************************)
(* What FlowState promises of one workflow execution, whoever runs it: it  *)
(* waits (PENDING), runs the workflow's actions one by one in position     *)
(* order, and ends SUCCEEDED when all of them have, or FAILED.  A FAILED   *)
(* run can be retried and goes on after the actions that succeeded, with   *)
(* their output.  SUCCEEDED is for good.                                   *)
(***************************************************************************)
EXTENDS Naturals

CONSTANTS Exec, NumActions

VARIABLES
  state,   \* the status the API shows
  done,    \* the actions that succeeded
  result   \* the actions whose output the saved payload holds

vars == <<state, done, result>>

Action == 1..NumActions

Init ==
  /\ state  = [e \in Exec |-> "NONE"]
  /\ done   = [e \in Exec |-> {}]
  /\ result = [e \in Exec |-> {}]

Move(e, from, to) ==
  /\ state[e] \in from
  /\ state' = [state EXCEPT ![e] = to]
  /\ UNCHANGED <<done, result>>

Submit(e) == Move(e, {"NONE"}, "PENDING")
Begin(e)  == Move(e, {"PENDING"}, "RUNNING")
Fail(e)   == Move(e, {"PENDING", "RUNNING"}, "FAILED")
Requeue(e) == Move(e, {"FAILED"}, "PENDING")
Succeed(e) == done[e] = Action /\ Move(e, {"RUNNING"}, "SUCCEEDED")

\* The next action succeeds; its output joins the saved payload with it.
Complete(e) ==
  /\ state[e] = "RUNNING"
  /\ \E a \in Action \ done[e] :
       /\ \A b \in Action : b < a => b \in done[e]
       /\ done' = [done EXCEPT ![e] = @ \cup {a}]
       /\ result' = [result EXCEPT ![e] = done[e] \cup {a}]
  /\ UNCHANGED state

Next == \E e \in Exec :
  Submit(e) \/ Begin(e) \/ Complete(e) \/ Succeed(e) \/ Fail(e) \/ Requeue(e)

Spec == Init /\ [][Next]_vars
=============================================================================
