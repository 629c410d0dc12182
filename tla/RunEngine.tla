----------------------------- MODULE RunEngine -----------------------------
(***************************************************************************)
(* The Cloudflare run engine of FlowState: what happens to a workflow      *)
(* execution between the INSERT of its row and its final status.           *)
(*                                                                         *)
(* Three kinds of process share the D1 rows of an execution:               *)
(*   - the request handlers that create it (the tail of admit), cancel it  *)
(*     (POST /executions/:id/cancel) and retry it (POST /admin/            *)
(*     failed-jobs/:id/retry);                                             *)
(*   - the durable RunWorkflow instances started for it, the first under   *)
(*     the execution's own id and one more for every retry;                *)
(*   - the attempts of one step: a callback the platform calls, may give   *)
(*     up on after STEP_TIMEOUT and calls again.                           *)
(* Every await of the source that touches shared state is a step here.     *)
(*                                                                         *)
(* Payloads are abstracted to the set of actions whose output they hold:   *)
(* {} is the execution's input, and an `output` column that is NULL.       *)
(***************************************************************************)
EXTENDS Naturals, FiniteSets

CONSTANTS
  Exec,            \* the executions
  Instance,        \* durable workflow instances that may be created
  ExecOf,          \* the execution each instance runs (RunParams.executionId)
  First,           \* the instance whose id is the execution's id
  NumActions,      \* the workflow's actions, numbered by position
  MaxAttempts,     \* attempts of an action step: STEP_RETRIES.limit + 1
  DefaultAttempts, \* attempts of load, fail and finish: the platform's default
  Cancellable,     \* the executions their owner may try to cancel
  RetryAnyStatus,  \* FALSE: the operator retries only settled FAILED runs
  MaxCrashes,      \* bound: lost isolates and failed D1 calls
  MaxTimeouts      \* bound: calls abandoned while they were still running

Action == 1..NumActions

ASSUME ConstantsAssumption ==
  /\ NumActions \in Nat
  /\ MaxAttempts \in Nat \ {0}
  /\ DefaultAttempts \in Nat \ {0}
  /\ MaxCrashes \in Nat
  /\ MaxTimeouts \in Nat
  /\ ExecOf \in [Instance -> Exec]
  /\ First \in [Exec -> Instance]
  /\ \A e \in Exec : ExecOf[First[e]] = e
  /\ Cancellable \subseteq Exec
  /\ RetryAnyStatus \in BOOLEAN

VARIABLES
  \* columns of workflow_executions, and the SUCCEEDED rows of action_executions
  status, output, succeeded,
  \* the handlers: admit's tail, cancel, admin retry
  launch, cancel, retry,
  \* one durable instance: its position, the plan it loaded, its variables
  pc, plan, payload, step, tries,
  \* the attempts of its steps: their phase, and the payload they were called with
  att, seen,
  crashes, timeouts

db       == <<status, output, succeeded>>
handlers == <<launch, cancel, retry>>
instance == <<pc, plan, payload, step, tries>>
attempts == <<att, seen>>
faults   == <<crashes, timeouts>>
vars     == <<db, handlers, instance, attempts, faults>>

Status   == {"NONE", "PENDING", "RUNNING", "SUCCEEDED", "FAILED", "CANCELLED"}
Place    == {"absent", "load", "plan", "loading", "loaded", "loop", "attempt",
             "failing", "failed", "finishing", "finished",
             "done", "errored", "terminated"}
Phase    == {"idle", "call", "row", "ok", "bad", "committed", "thrown", "lost"}
Attempt  == 1..MaxAttempts

\* An instance the platform will not run any further, or never created.
Over     == {"absent", "done", "errored", "terminated"}
Live(i)  == pc[i] \notin Over
InstancesOf(e) == {i \in Instance : ExecOf[i] = e}

Init ==
  /\ status    = [e \in Exec |-> "NONE"]
  /\ output    = [e \in Exec |-> {}]
  /\ succeeded = [e \in Exec |-> {}]
  /\ launch    = [e \in Exec |-> "none"]
  /\ cancel    = [e \in Exec |-> "none"]
  /\ retry     = [i \in Instance |-> "none"]
  /\ pc        = [i \in Instance |-> "absent"]
  /\ plan      = [i \in Instance |-> {}]
  /\ payload   = [i \in Instance |-> {}]
  /\ step      = [i \in Instance |-> 1]
  /\ tries     = [i \in Instance |-> 0]
  /\ att       = [i \in Instance |-> [a \in Action |-> [n \in Attempt |-> "idle"]]]
  /\ seen      = [i \in Instance |-> [a \in Action |-> {}]]
  /\ crashes   = 0
  /\ timeouts  = 0

----------------------------------------------------------------------------
(* The handlers *)

\* admit, after its gates: the execution row, PENDING.
CreateExecution(e) ==
  /\ launch[e] = "none"
  /\ launch' = [launch EXCEPT ![e] = "row"]
  /\ status' = [status EXCEPT ![e] = "PENDING"]
  /\ UNCHANGED <<output, succeeded, cancel, retry, instance, attempts, faults>>

\* RUN_WORKFLOW.create({ id: executionId }) accepted.
Launch(e) ==
  /\ launch[e] = "row"
  /\ launch' = [launch EXCEPT ![e] = "done"]
  /\ pc' = [pc EXCEPT ![First[e]] = "load"]
  /\ UNCHANGED <<db, cancel, retry, plan, payload, step, tries, attempts, faults>>

\* RUN_WORKFLOW.create threw. A call that timed out may have been accepted.
LaunchThrows(e) ==
  /\ launch[e] = "row"
  /\ launch' = [launch EXCEPT ![e] = "thrown"]
  /\ \/ UNCHANGED <<pc, timeouts>>
     \/ /\ timeouts < MaxTimeouts
        /\ timeouts' = timeouts + 1
        /\ pc' = [pc EXCEPT ![First[e]] = "load"]
  /\ UNCHANGED <<db, cancel, retry, plan, payload, step, tries, attempts, crashes>>

\* admit's catch: "fail it visibly instead".
FailUnstarted(e) ==
  /\ launch[e] = "thrown"
  /\ launch' = [launch EXCEPT ![e] = "done"]
  /\ status' = [status EXCEPT ![e] = "FAILED"]
  /\ UNCHANGED <<output, succeeded, cancel, retry, instance, attempts, faults>>

\* The isolate that runs admit dies after the INSERT (waitUntil is best effort).
LaunchLost(e) ==
  /\ launch[e] \in {"row", "thrown"}
  /\ crashes < MaxCrashes
  /\ crashes' = crashes + 1
  /\ launch' = [launch EXCEPT ![e] = "done"]
  /\ UNCHANGED <<db, cancel, retry, instance, attempts, timeouts>>

\* The cancel handler reads the row; anything but PENDING is a 400.
CancelRead(e) ==
  /\ e \in Cancellable
  /\ cancel[e] = "none"
  /\ status[e] = "PENDING"
  /\ cancel' = [cancel EXCEPT ![e] = "read"]
  /\ UNCHANGED <<db, launch, retry, instance, attempts, faults>>

\* ... writes CANCELLED, unconditionally ...
CancelWrite(e) ==
  /\ cancel[e] = "read"
  /\ cancel' = [cancel EXCEPT ![e] = "written"]
  /\ status' = [status EXCEPT ![e] = "CANCELLED"]
  /\ UNCHANGED <<output, succeeded, launch, retry, instance, attempts, faults>>

\* ... and terminates the instance that has the execution's id, best effort:
\* without one, with one that is over, or when the call fails, nothing happens.
\* The attempt in progress may still get to write (nothing awaits its end).
CancelTerminate(e) ==
  /\ cancel[e] = "written"
  /\ cancel' = [cancel EXCEPT ![e] = "done"]
  /\ \/ UNCHANGED pc
     \/ Live(First[e]) /\ pc' = [pc EXCEPT ![First[e]] = "terminated"]
  /\ UNCHANGED <<db, launch, retry, plan, payload, step, tries, attempts, faults>>

\* Nothing of e is in flight: no handler, no instance.
Settled(e) ==
  /\ launch[e] = "done"
  /\ cancel[e] \in {"none", "done"}
  /\ \A i \in InstancesOf(e) : ~Live(i) /\ retry[i] # "set"

\* The admin retry: the row back to PENDING, whatever its status was ...
RetryWrite(i) ==
  LET e == ExecOf[i] IN
  /\ i # First[e]
  /\ retry[i] = "none"
  /\ status[e] # "NONE"
  /\ RetryAnyStatus \/ (status[e] = "FAILED" /\ Settled(e))
  /\ retry' = [retry EXCEPT ![i] = "set"]
  /\ status' = [status EXCEPT ![e] = "PENDING"]
  /\ UNCHANGED <<output, succeeded, launch, cancel, instance, attempts, faults>>

\* ... then a fresh instance, `${id}-retry-${Date.now()}`.
RetryCreate(i) ==
  /\ retry[i] = "set"
  /\ retry' = [retry EXCEPT ![i] = "done"]
  /\ pc' = [pc EXCEPT ![i] = "load"]
  /\ UNCHANGED <<db, launch, cancel, plan, payload, step, tries, attempts, faults>>

\* The create throws or its isolate dies: no catch, the row stays PENDING.
RetryLost(i) ==
  /\ retry[i] = "set"
  /\ crashes < MaxCrashes
  /\ crashes' = crashes + 1
  /\ retry' = [retry EXCEPT ![i] = "done"]
  /\ UNCHANGED <<db, launch, cancel, instance, attempts, timeouts>>

----------------------------------------------------------------------------
(* The instance: run() and the callbacks load, fail and finish *)

Goto(i, from, to) ==
  /\ pc[i] = from
  /\ pc' = [pc EXCEPT ![i] = to]

\* load: findExecution. CANCELLED ends the run (a null plan).
LoadFind(i) ==
  LET e == ExecOf[i] IN
  /\ \/ /\ status[e] = "CANCELLED"
        /\ Goto(i, "load", "done")
        /\ UNCHANGED payload
     \/ /\ status[e] # "CANCELLED"
        /\ Goto(i, "load", "plan")
        /\ payload' = [payload EXCEPT ![i] = output[e]]
  /\ UNCHANGED <<db, handlers, plan, step, tries, attempts, faults>>

\* Mutant: a retry resumes from the input instead of the saved output.
PlanFromInput(i) ==
  /\ Goto(i, "plan", "loading")
  /\ plan' = [plan EXCEPT ![i] = succeeded[ExecOf[i]]]
  /\ payload' = [payload EXCEPT ![i] = {}]
  /\ UNCHANGED <<db, handlers, step, tries, attempts, faults>>

\* load: listActions and succeededActionIds. The saved output counts only if
\* some action succeeded.
LoadPlan(i) ==
  LET done == succeeded[ExecOf[i]] IN
  /\ Goto(i, "plan", "loading")
  /\ plan' = [plan EXCEPT ![i] = done]
  /\ payload' = [payload EXCEPT ![i] = IF done = {} THEN {} ELSE @]
  /\ UNCHANGED <<db, handlers, step, tries, attempts, faults>>

\* load: the row to RUNNING, unconditionally.
LoadWrite(i) ==
  /\ Goto(i, "loading", "loaded")
  /\ status' = [status EXCEPT ![ExecOf[i]] = "RUNNING"]
  /\ UNCHANGED <<output, succeeded, handlers, plan, payload, step, tries,
                 attempts, faults>>

\* The platform persists the result of load; run() enters its loop.
LoadPersist(i) ==
  /\ Goto(i, "loaded", "loop")
  /\ step' = [step EXCEPT ![i] = 1]
  /\ tries' = [tries EXCEPT ![i] = 0]
  /\ UNCHANGED <<db, handlers, plan, payload, attempts, faults>>

\* "if (plan.succeeded.includes(action.id)) continue"
Skip(i) ==
  /\ pc[i] = "loop"
  /\ step[i] \in plan[i]
  /\ step' = [step EXCEPT ![i] = @ + 1]
  /\ UNCHANGED <<db, handlers, pc, plan, payload, tries, attempts, faults>>

\* step.do(`step-${action.id}`): the platform calls the callback (again).
StartAttempt(i) ==
  /\ step[i] \in Action \ plan[i]
  /\ tries[i] < MaxAttempts
  /\ Goto(i, "loop", "attempt")
  /\ tries' = [tries EXCEPT ![i] = @ + 1]
  /\ att' = [att EXCEPT ![i][step[i]][tries[i] + 1] = "call"]
  /\ seen' = [seen EXCEPT ![i][step[i]] = payload[i]]
  /\ UNCHANGED <<db, handlers, plan, payload, step, faults>>

\* The current attempt of i's current step is in phase p.
CurrentIs(i, p) == step[i] \in Action /\ tries[i] \in Attempt /\ att[i][step[i]][tries[i]] = p

\* The callback returned: its result is persisted and run() moves on.
StepDone(i) ==
  /\ CurrentIs(i, "committed")
  /\ Goto(i, "attempt", "loop")
  /\ payload' = [payload EXCEPT ![i] = seen[i][step[i]] \cup {step[i]}]
  /\ step' = [step EXCEPT ![i] = @ + 1]
  /\ tries' = [tries EXCEPT ![i] = 0]
  /\ UNCHANGED <<db, handlers, plan, attempts, faults>>

\* The callback threw: back to the platform, which retries or gives up.
StepThrew(i) ==
  /\ CurrentIs(i, "thrown")
  /\ Goto(i, "attempt", "loop")
  /\ UNCHANGED <<db, handlers, plan, payload, step, tries, attempts, faults>>

\* Mutant: the catch swallows the error and the loop goes on.
SwallowExhausted(i) ==
  /\ step[i] \in Action \ plan[i]
  /\ tries[i] = MaxAttempts
  /\ pc[i] = "loop"
  /\ step' = [step EXCEPT ![i] = @ + 1]
  /\ tries' = [tries EXCEPT ![i] = 0]
  /\ UNCHANGED <<db, handlers, pc, plan, payload, attempts, faults>>

\* The attempts are used up: step.do throws and run() goes to its catch.
StepExhausted(i) ==
  /\ step[i] \in Action \ plan[i]
  /\ tries[i] = MaxAttempts
  /\ Goto(i, "loop", "failing")
  /\ tries' = [tries EXCEPT ![i] = 0]
  /\ UNCHANGED <<db, handlers, plan, payload, step, attempts, faults>>

\* Mutant: fail records the error and forgets the status.
FailKeepsStatus(i) ==
  /\ Goto(i, "failing", "failed")
  /\ UNCHANGED <<db, handlers, plan, payload, step, tries, attempts, faults>>

\* fail: the row to FAILED, unconditionally.
FailWrite(i) ==
  /\ Goto(i, "failing", "failed")
  /\ status' = [status EXCEPT ![ExecOf[i]] = "FAILED"]
  /\ UNCHANGED <<output, succeeded, handlers, plan, payload, step, tries,
                 attempts, faults>>

\* The loop is over.
LoopEnds(i) ==
  /\ step[i] = NumActions + 1
  /\ Goto(i, "loop", "finishing")
  /\ UNCHANGED <<db, handlers, plan, payload, step, tries, attempts, faults>>

\* finish: SUCCEEDED with the payload run() holds, unconditionally.
FinishWrite(i) ==
  /\ Goto(i, "finishing", "finished")
  /\ status' = [status EXCEPT ![ExecOf[i]] = "SUCCEEDED"]
  /\ output' = [output EXCEPT ![ExecOf[i]] = payload[i]]
  /\ UNCHANGED <<succeeded, handlers, plan, payload, step, tries, attempts, faults>>

\* Mutant: no return after fail, run() goes on to finish.
ReturnFallsThrough(i) ==
  /\ Goto(i, "failed", "finishing") \/ Goto(i, "finished", "done")
  /\ UNCHANGED <<db, handlers, plan, payload, step, tries, attempts, faults>>

\* The platform persists the result of fail or finish; run() returns.
Return(i) ==
  /\ Goto(i, "failed", "done") \/ Goto(i, "finished", "done")
  /\ UNCHANGED <<db, handlers, plan, payload, step, tries, attempts, faults>>

----------------------------------------------------------------------------
(* One attempt: runStep *)

Advance(i, a, n, from, to) ==
  /\ att[i][a][n] = from
  /\ att' = [att EXCEPT ![i][a][n] = to]

\* startStep: a RUNNING row.
InsertRow(i, a, n) ==
  /\ Advance(i, a, n, "call", "row")
  /\ UNCHANGED <<db, handlers, instance, seen, faults>>

\* runAction: the side effect happens, and succeeds or fails.
RunAction(i, a, n) ==
  /\ Advance(i, a, n, "row", "ok") \/ Advance(i, a, n, "row", "bad")
  /\ UNCHANGED <<db, handlers, instance, seen, faults>>

\* Mutant: the step's row without the checkpoint.
CommitRowOnly(i, a, n) ==
  /\ Advance(i, a, n, "ok", "committed")
  /\ succeeded' = [succeeded EXCEPT ![ExecOf[i]] = @ \cup {a}]
  /\ UNCHANGED <<status, output, handlers, instance, seen, faults>>

\* Mutant: the enriched payload replaces what was there, instead of joining it.
CommitForgets(i, a, n) ==
  /\ Advance(i, a, n, "ok", "committed")
  /\ succeeded' = [succeeded EXCEPT ![ExecOf[i]] = @ \cup {a}]
  /\ output' = [output EXCEPT ![ExecOf[i]] = {a}]
  /\ UNCHANGED <<status, handlers, instance, seen, faults>>

\* The batch: the row SUCCEEDED and the checkpoint, together.
Commit(i, a, n) ==
  LET e == ExecOf[i] IN
  /\ Advance(i, a, n, "ok", "committed")
  /\ succeeded' = [succeeded EXCEPT ![e] = @ \cup {a}]
  /\ output' = [output EXCEPT ![e] = seen[i][a] \cup {a}]
  /\ UNCHANGED <<status, handlers, instance, seen, faults>>

\* finishStep FAILED, then throw.
Throw(i, a, n) ==
  /\ Advance(i, a, n, "bad", "thrown")
  /\ UNCHANGED <<db, handlers, instance, seen, faults>>

----------------------------------------------------------------------------
(* The platform's faults *)

\* Where a callback of the instance is in progress, the step.do it belongs to.
Doing(i) ==
  CASE pc[i] \in {"load", "plan", "loading", "loaded"} -> "load"
    [] pc[i] \in {"failing", "failed"}                 -> "failing"
    [] pc[i] \in {"finishing", "finished"}             -> "finishing"
    [] OTHER                                           -> "none"

\* A callback of load, fail or finish is lost or throws: it is called again
\* from its start until its attempts run out, then run() itself fails.
LoseCallback(i) ==
  /\ Doing(i) # "none"
  /\ crashes < MaxCrashes
  /\ crashes' = crashes + 1
  /\ tries' = [tries EXCEPT ![i] = @ + 1]
  /\ pc' = [pc EXCEPT ![i] = IF tries[i] + 1 < DefaultAttempts THEN Doing(i) ELSE "errored"]
  /\ UNCHANGED <<db, handlers, plan, payload, step, attempts, timeouts>>

Unfinished == {"call", "row", "ok", "bad", "committed"}

\* The isolate dies during an attempt (or a D1 call of it throws): the attempt
\* is spent, a row it inserted stays RUNNING, and what it committed stays.
LoseAttempt(i) ==
  /\ \E p \in Unfinished : CurrentIs(i, p)
  /\ crashes < MaxCrashes
  /\ crashes' = crashes + 1
  /\ Goto(i, "attempt", "loop")
  /\ att' = [att EXCEPT ![i][step[i]][tries[i]] = "lost"]
  /\ UNCHANGED <<db, handlers, plan, payload, step, tries, seen, timeouts>>

\* STEP_TIMEOUT passes: the platform stops waiting, the callback still runs.
TimeOut(i) ==
  /\ pc[i] = "attempt"
  /\ timeouts < MaxTimeouts
  /\ timeouts' = timeouts + 1
  /\ pc' = [pc EXCEPT ![i] = "loop"]
  /\ UNCHANGED <<db, handlers, plan, payload, step, tries, attempts, crashes>>

----------------------------------------------------------------------------

Handler(e) ==
  \/ CreateExecution(e) \/ Launch(e) \/ LaunchThrows(e) \/ FailUnstarted(e) \/ LaunchLost(e)
  \/ CancelRead(e) \/ CancelWrite(e) \/ CancelTerminate(e)

AdminRetry(i) == RetryWrite(i) \/ RetryCreate(i) \/ RetryLost(i)

RunStep(i) ==
  \/ LoadFind(i) \/ LoadPlan(i) \/ LoadWrite(i) \/ LoadPersist(i)
  \/ Skip(i) \/ StartAttempt(i) \/ StepDone(i) \/ StepThrew(i) \/ StepExhausted(i)
  \/ FailWrite(i) \/ LoopEnds(i) \/ FinishWrite(i) \/ Return(i)

AttemptStep(i, a, n) ==
  InsertRow(i, a, n) \/ RunAction(i, a, n) \/ Commit(i, a, n) \/ Throw(i, a, n)

Fault(i) == LoseCallback(i) \/ LoseAttempt(i) \/ TimeOut(i)

Next ==
  \/ \E e \in Exec : Handler(e)
  \/ \E i \in Instance : AdminRetry(i) \/ RunStep(i) \/ Fault(i)
  \/ \E i \in Instance, a \in Action, n \in Attempt : AttemptStep(i, a, n)

\* The platform is durable: an instance and the callbacks it called go on, and
\* a handler that is not lost finishes. Users and operators owe nothing.
Fairness ==
  /\ \A i \in Instance :
       /\ WF_vars(RunStep(i))
       /\ WF_vars(RetryCreate(i))
       /\ \A a \in Action, n \in Attempt : WF_vars(AttemptStep(i, a, n))
  /\ \A e \in Exec : WF_vars(Launch(e) \/ FailUnstarted(e) \/ CancelWrite(e) \/ CancelTerminate(e))

Spec     == Init /\ [][Next]_vars
FairSpec == Spec /\ Fairness

----------------------------------------------------------------------------
(* Properties *)

TypeOK ==
  /\ status \in [Exec -> Status]
  /\ output \in [Exec -> SUBSET Action]
  /\ succeeded \in [Exec -> SUBSET Action]
  /\ launch \in [Exec -> {"none", "row", "thrown", "done"}]
  /\ cancel \in [Exec -> {"none", "read", "written", "done"}]
  /\ retry \in [Instance -> {"none", "set", "done"}]
  /\ pc \in [Instance -> Place]
  /\ plan \in [Instance -> SUBSET Action]
  /\ payload \in [Instance -> SUBSET Action]
  /\ step \in [Instance -> 1..(NumActions + 1)]
  /\ tries \in [Instance -> Nat]
  /\ att \in [Instance -> [Action -> [Attempt -> Phase]]]
  /\ seen \in [Instance -> [Action -> SUBSET Action]]
  /\ crashes \in 0..MaxCrashes
  /\ timeouts \in 0..MaxTimeouts

\* A run that says SUCCEEDED has a SUCCEEDED row for every action, whatever was
\* lost, timed out, cancelled or retried on the way.
SucceededRanEverything ==
  \A e \in Exec : status[e] = "SUCCEEDED" => succeeded[e] = Action

\* No action is started before every action ahead of it has succeeded.
StepsInOrder ==
  \A i \in Instance, a \in Action, n \in Attempt :
    att[i][a][n] # "idle" => \A b \in Action : b < a => b \in succeeded[ExecOf[i]]

\* Why those two hold (the inductive invariant): what an instance skips, has
\* passed or has had committed is in the rows, and rows are never taken back.
SkipsSucceeded == \A i \in Instance : plan[i] \subseteq succeeded[ExecOf[i]]
PassedSucceeded ==
  \A i \in Instance, b \in Action : b < step[i] => b \in succeeded[ExecOf[i]]
CommittedSucceeded ==
  \A i \in Instance, a \in Action, n \in Attempt :
    att[i][a][n] = "committed" => a \in succeeded[ExecOf[i]]
FinishesAtEnd ==
  \A i \in Instance : pc[i] \in {"finishing", "finished"} => step[i] = NumActions + 1

OrderInv ==
  /\ TypeOK
  /\ SkipsSucceeded
  /\ PassedSucceeded
  /\ CommittedSucceeded
  /\ FinishesAtEnd
  /\ StepsInOrder
  /\ SucceededRanEverything

\* runStep's comment: "a SUCCEEDED row must always mean its output is in the
\* checkpoint" - and nothing else is in it.
CheckpointMatchesRows ==
  \A e \in Exec : output[e] = succeeded[e]

\* load's comment: a retry resumes with "exactly the payload the next
\* unfinished step should see" - the output of every action ahead of it.
StepSeesEarlierOutput ==
  \A i \in Instance, a \in Action :
    (\E n \in Attempt : att[i][a][n] \in {"call", "row"})
      => \A b \in Action : b < a => b \in seen[i][a]

\* The cancel handler's comment: "if the instance already started, its first
\* step sees CANCELLED and stops". Nothing starts a run cancelled for good.
CancelStops ==
  \A e \in Exec :
    /\ cancel[e] \in {"written", "done"}
    /\ \A i \in InstancesOf(e) : retry[i] = "none"
    => status[e] # "RUNNING"

\* The engine keeps the promise made of a run (module Run): its rows never
\* make a step that the life of a run does not have.
Promise == INSTANCE Run WITH state <- status, done <- succeeded, result <- output
ImplementsRun == Promise!Spec

\* A run that started ends.
RunsEnd ==
  \A e \in Exec : (status[e] = "RUNNING") ~> (status[e] \in {"SUCCEEDED", "FAILED", "CANCELLED"})
=============================================================================
