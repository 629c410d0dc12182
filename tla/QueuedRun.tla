----------------------------- MODULE QueuedRun -----------------------------
(***************************************************************************)
(* What the backend promises of one workflow execution that is a job in a  *)
(* queue.  It is the life of a run (module Run) under a queue that runs a  *)
(* job at least once: a new attempt may begin whatever the last one left   *)
(* behind, SUCCEEDED included, when its process died before the queue      *)
(* heard of it.  All the same the actions succeed one by one in order,     *)
(* each once and only in a run that says RUNNING, the saved payload is the *)
(* last answer among them, and SUCCEEDED comes after the last of them.     *)
(* Of a run that was disturbed only this is left: an action that succeeded *)
(* has, and SUCCEEDED means all of them.                                   *)
(***************************************************************************)
EXTENDS Naturals

CONSTANTS Exec, NumActions,
          Answers   \* the actions whose answer is saved as the payload

VARIABLES
  state,    \* the status the API shows
  done,     \* the actions that succeeded
  result,   \* the action whose answer is saved, 0 for the trigger's input
  disturbed \* the runs that were cancelled, written too late or run twice at a time

vars == <<state, done, result, disturbed>>

Action == 1..NumActions
Status == {"NONE", "PENDING", "RUNNING", "SUCCEEDED", "FAILED", "CANCELLED"}
Submitted == {"PENDING", "RUNNING", "SUCCEEDED", "FAILED"}

Init ==
  /\ state     = [e \in Exec |-> "NONE"]
  /\ done      = [e \in Exec |-> {}]
  /\ result    = [e \in Exec |-> 0]
  /\ disturbed = {}

Move(e, from, to) ==
  /\ e \notin disturbed /\ state[e] \in from
  /\ state' = [state EXCEPT ![e] = to]
  /\ UNCHANGED <<done, result, disturbed>>

Submit(e)  == Move(e, {"NONE"}, "PENDING")
Begin(e)   == Move(e, Submitted, "RUNNING")
Fail(e)    == Move(e, Submitted, "FAILED")
Requeue(e) == Move(e, Submitted, "PENDING")
Succeed(e) == done[e] = Action /\ Move(e, {"RUNNING"}, "SUCCEEDED")

\* The next action succeeds; its answer, if it has one, is saved with it.
Complete(e) ==
  /\ e \notin disturbed /\ state[e] = "RUNNING"
  /\ \E a \in Action :
       /\ done[e] = 1..(a - 1)
       /\ done' = [done EXCEPT ![e] = 1..a]
       /\ result' = [result EXCEPT ![e] = IF a \in Answers THEN a ELSE @]
  /\ UNCHANGED <<state, disturbed>>

Disturb(e) ==
  /\ disturbed' = disturbed \cup {e}
  /\ \E to \in Status, all \in SUBSET Action, saved \in 0..NumActions :
       /\ done[e] \subseteq all
       /\ to = "SUCCEEDED" => all = Action
       /\ state'  = [state EXCEPT ![e] = to]
       /\ done'   = [done EXCEPT ![e] = all]
       /\ result' = [result EXCEPT ![e] = saved]

Next == \E e \in Exec :
  Submit(e) \/ Begin(e) \/ Complete(e) \/ Succeed(e) \/ Fail(e) \/ Requeue(e) \/ Disturb(e)

Spec == Init /\ [][Next]_vars
=============================================================================
