----------------------------- MODULE NestEngine -----------------------------
(***************************************************************************)
(* The run engine of the NestJS backend: a workflow execution from its row *)
(* and its BullMQ job to a final status.  The same row is written by       *)
(*   - the trigger listener that creates it and enqueues its job;          *)
(*   - the processors that hold the job, one at a time while its lock is   *)
(*     renewed; a processor that lost its lock goes on beside the next;    *)
(*   - onFailed, the hook of a job that has no attempt left;               *)
(*   - the owner's cancel and the operator's retry.                        *)
(* Every await of the source that touches shared state is a step here.     *)
(* The queue is BullMQ's, modelled from how the code uses it.  A payload   *)
(* is the trigger's input with the answer of the last HTTP_REQUEST merged  *)
(* into it: it stands as the number of that action, 0 for the input alone. *)
(***************************************************************************)
EXTENDS Naturals, Sequences, FiniteSets, FiniteSetsExt

CONSTANTS
  Exec,         \* executions; the id of each is the id of its job
  Proc,         \* slots of the workers (WORKER_CONCURRENCY of each process)
  Nobody,       \* the owner of a lock nobody renews
  Types,        \* the types of the workflow's actions, in order
  MaxAttempts,  \* attempts given to queue.add
  MaxStalls,    \* BullMQ's maxStalledCount
  MaxRetries,   \* bound: requests of the operator
  MaxFaults     \* bound: dead processes, failed calls, locks lost by the living

Action     == 1..Len(Types)
ActionType == {"SEND_EMAIL", "HTTP_REQUEST", "LOG_MESSAGE", "DELAY", "TELEGRAM_NOTIFY"}
Payload    == 0..Len(Types)

ASSUME NestAssumption ==
  /\ Nobody \notin Proc
  /\ Types \in Seq(ActionType) /\ MaxAttempts \in Nat \ {0}
  /\ MaxStalls \in Nat /\ MaxRetries \in Nat /\ MaxFaults \in Nat

VARIABLES
  status, output, succeeded, \* workflow_executions; SUCCEEDED action_executions
  enqueue, cancel, retry,    \* the handlers: listener, cancel, retryFailedJob
  job,                       \* the job in Redis
  proc,                      \* the process() call of a slot
  hook,                      \* the onFailed call of a job that is dead
  zombie,                    \* history: a living processor lost the lock
  late,                      \* history: onFailed or a retry wrote after the job had gone on
  retries, faults

rows     == <<status, output, succeeded>>
handlers == <<enqueue, cancel, retry, retries>>
history  == <<zombie, late>>
vars     == <<rows, handlers, job, proc, hook, history, faults>>

Status == {"NONE", "PENDING", "RUNNING", "SUCCEEDED", "FAILED", "CANCELLED"}
InQueue == {"waiting", "active", "delayed"}
Ended   == {"completed", "failed", "removed"}
Idle    == [pc |-> "idle", exec |-> Nobody, read |-> 0, todo |-> {}, payload |-> 0]

Init ==
  /\ status    = [e \in Exec |-> "NONE"]
  /\ output    = [e \in Exec |-> 0]
  /\ succeeded = [e \in Exec |-> {}]
  /\ enqueue   = [e \in Exec |-> "none"]
  /\ cancel    = [e \in Exec |-> "none"]
  /\ retry     = [e \in Exec |-> "idle"]
  /\ job       = [e \in Exec |-> [state |-> "absent", made |-> 0, stalls |-> 0, owner |-> Nobody]]
  /\ proc      = [p \in Proc |-> Idle]
  /\ hook      = [e \in Exec |-> "idle"]
  /\ zombie    = [e \in Exec |-> FALSE]
  /\ late      = [e \in Exec |-> FALSE]
  /\ retries = 0 /\ faults = 0

Fault == faults < MaxFaults /\ faults' = faults + 1

----------------------------------------------------------------------------
(* The listener's tail, after its gates (module Admission) *)

CreateRun(e) ==
  /\ enqueue[e] = "none"
  /\ enqueue' = [enqueue EXCEPT ![e] = "row"]
  /\ status' = [status EXCEPT ![e] = "PENDING"]
  /\ UNCHANGED <<output, succeeded, cancel, retry, retries, job, proc, hook, history, faults>>

\* queue.add under the execution's id.
Enqueue(e) ==
  /\ enqueue[e] = "row"
  /\ enqueue' = [enqueue EXCEPT ![e] = "done"]
  /\ job' = [job EXCEPT ![e].state = "waiting"]
  /\ UNCHANGED <<rows, cancel, retry, retries, proc, hook, history, faults>>

\* queue.add throws or its process dies first: nothing else writes the row.
EnqueueLost(e) ==
  /\ enqueue[e] = "row" /\ Fault
  /\ enqueue' = [enqueue EXCEPT ![e] = "lost"]
  /\ UNCHANGED <<rows, cancel, retry, retries, job, proc, hook, history>>

----------------------------------------------------------------------------
(* The queue *)

\* The backoff of a failed attempt has passed.
Promote(e) ==
  /\ job[e].state = "delayed"
  /\ job' = [job EXCEPT ![e].state = "waiting"]
  /\ UNCHANGED <<rows, handlers, proc, hook, history, faults>>

\* A worker takes the job and its lock.
Take(p, e) ==
  /\ proc[p].pc = "idle" /\ job[e].state = "waiting"
  /\ job' = [job EXCEPT ![e].state = "active", ![e].owner = p]
  /\ proc' = [proc EXCEPT ![p] = [Idle EXCEPT !.pc = "find", !.exec = e]]
  /\ UNCHANGED <<rows, handlers, hook, history, faults>>

\* A lock nobody renewed has expired: back into the queue, or failed when it
\* happened too often, counted as an attempt or not by the release of BullMQ.
\* The owner is dead, or it lives on and knows nothing of it.
Stall(e) ==
  /\ job[e].state = "active"
  /\ \/ job[e].owner = Nobody /\ UNCHANGED <<faults, zombie>>
     \/ job[e].owner # Nobody /\ Fault /\ zombie' = [zombie EXCEPT ![e] = TRUE]
  /\ \/ /\ job[e].stalls < MaxStalls
        /\ job' = [job EXCEPT ![e].state = "waiting", ![e].stalls = @ + 1, ![e].owner = Nobody]
        /\ UNCHANGED hook
     \/ /\ job[e].stalls >= MaxStalls
        /\ \E made \in {job[e].made, job[e].made + 1} :
             /\ job' = [job EXCEPT ![e].state = "failed", ![e].made = made, ![e].owner = Nobody]
             /\ hook' = [hook EXCEPT ![e] = IF made < MaxAttempts THEN "idle" ELSE "read"]
  /\ UNCHANGED <<rows, handlers, proc, late>>

----------------------------------------------------------------------------
(* WorkflowProcessor.process *)

Goto(p, pc) == proc' = [proc EXCEPT ![p].pc = pc]
Of(p)       == proc[p].exec
Current(p)  == CHOOSE a \in proc[p].todo : \A b \in proc[p].todo : a <= b

\* The execution's row, with its output as it is now; then its actions.
FindExecution(p) ==
  /\ proc[p].pc = "find"
  /\ proc' = [proc EXCEPT ![p].pc = "found", ![p].read = output[Of(p)]]
  /\ UNCHANGED <<rows, handlers, job, hook, history, faults>>

\* RUNNING, whatever the row says.
WriteRunning(p) ==
  /\ proc[p].pc = "found"
  /\ status' = [status EXCEPT ![Of(p)] = "RUNNING"]
  /\ Goto(p, "running")
  /\ UNCHANGED <<output, succeeded, handlers, job, hook, history, faults>>

\* Mutant: a retry resumes with the trigger's input.
ResumeWithInput(p) ==
  /\ proc[p].pc = "running"
  /\ proc' = [proc EXCEPT ![p].pc = "loop", ![p].todo = Action \ succeeded[Of(p)]]
  /\ UNCHANGED <<rows, handlers, job, hook, history, faults>>

\* findSucceededActionIds, and the payload to resume with.
FindSucceeded(p) ==
  /\ proc[p].pc = "running"
  /\ LET done == succeeded[Of(p)] IN
       proc' = [proc EXCEPT ![p].pc = "loop", ![p].todo = Action \ done, ![p].read = 0,
                            ![p].payload = IF done # {} THEN proc[p].read ELSE 0]
  /\ UNCHANGED <<rows, handlers, job, hook, history, faults>>

\* The step's row, RUNNING.
CreateStep(p) ==
  /\ proc[p].pc = "loop" /\ proc[p].todo # {}
  /\ Goto(p, "step")
  /\ UNCHANGED <<rows, handlers, job, hook, history, faults>>

\* The executors, by how they may end.  A request that is answered with an error,
\* not at all or not in ten seconds has failed, and so has one for which there is
\* no key; its effect may have happened all the same.
HttpRequest    == {"ok", "bad"}
SendEmail      == {"ok", "bad"}
TelegramNotify == {"ok", "bad"}
LogMessage     == {"ok"}
Delay          == {"ok"}

Results(type) == CASE type = "HTTP_REQUEST"    -> HttpRequest
                   [] type = "SEND_EMAIL"      -> SendEmail
                   [] type = "TELEGRAM_NOTIFY" -> TelegramNotify
                   [] type = "LOG_MESSAGE"     -> LogMessage
                   [] type = "DELAY"           -> Delay

\* actionExecutor.execute: it reports failures and never throws.
Execute(p) ==
  /\ proc[p].pc = "step"
  /\ \E result \in Results(Types[Current(p)]) : Goto(p, result)
  /\ UNCHANGED <<rows, handlers, job, hook, history, faults>>

\* What the next action sees.
Enriched(p, a) == IF Types[a] = "HTTP_REQUEST" THEN a ELSE proc[p].payload

\* One transaction: the row SUCCEEDED, the payload in the execution.
Commit(p) ==
  /\ proc[p].pc = "ok"
  /\ LET a == Current(p)
         payload == Enriched(p, a)
     IN /\ succeeded' = [succeeded EXCEPT ![Of(p)] = @ \cup {a}]
        /\ output' = [output EXCEPT ![Of(p)] = payload]
        /\ proc' = [proc EXCEPT ![p].pc = "loop", ![p].todo = @ \ {a}, ![p].payload = payload]
  /\ UNCHANGED <<status, handlers, job, hook, history, faults>>

\* Mutant: continue in the place of break.
FailsAndGoesOn(p) ==
  /\ proc[p].pc = "bad"
  /\ proc' = [proc EXCEPT ![p].pc = "loop", ![p].todo = @ \ {Current(p)}]
  /\ UNCHANGED <<rows, handlers, job, hook, history, faults>>

\* The step's row FAILED, and the loop is left.
StepFails(p) ==
  /\ proc[p].pc = "bad"
  /\ Goto(p, "failing")
  /\ UNCHANGED <<rows, handlers, job, hook, history, faults>>

WriteSucceeded(p) ==
  /\ proc[p].pc = "loop" /\ proc[p].todo = {}
  /\ status' = [status EXCEPT ![Of(p)] = "SUCCEEDED"]
  /\ output' = [output EXCEPT ![Of(p)] = proc[p].payload]
  /\ Goto(p, "returned")
  /\ UNCHANGED <<succeeded, handlers, job, hook, history, faults>>

WriteFailed(p) ==
  /\ proc[p].pc = "failing"
  /\ status' = [status EXCEPT ![Of(p)] = "FAILED"]
  /\ Goto(p, "threw")
  /\ UNCHANGED <<output, succeeded, handlers, job, hook, history, faults>>

\* A Prisma call rejects: process() throws, the row says what it said.
CallRejects(p) ==
  /\ proc[p].pc \in {"find", "found", "running", "loop", "ok", "bad", "failing"}
  /\ Fault
  /\ Goto(p, "threw")
  /\ UNCHANGED <<rows, handlers, job, hook, history>>

\* The process dies; nobody renews the locks it held.
Die(p) ==
  /\ proc[p].pc # "idle" /\ Fault
  /\ proc' = [proc EXCEPT ![p] = Idle]
  /\ job' = [e \in Exec |-> IF job[e].owner = p THEN [job[e] EXCEPT !.owner = Nobody] ELSE job[e]]
  /\ UNCHANGED <<rows, handlers, hook, history>>

\* process() returned: the job is completed, if the lock is still held.
Complete(p) ==
  /\ proc[p].pc = "returned"
  /\ job' = IF job[Of(p)].owner # p THEN job
            ELSE [job EXCEPT ![Of(p)].state = "completed", ![Of(p)].owner = Nobody]
  /\ proc' = [proc EXCEPT ![p] = Idle]
  /\ UNCHANGED <<rows, handlers, hook, history, faults>>

\* Mutant: the attempt is not counted.
RetryForever(p) ==
  /\ proc[p].pc = "threw"
  /\ proc' = [proc EXCEPT ![p] = Idle]
  /\ job' = IF job[Of(p)].owner # p THEN job
            ELSE [job EXCEPT ![Of(p)].state = "delayed", ![Of(p)].owner = Nobody]
  /\ UNCHANGED <<rows, handlers, hook, history, faults>>

\* process() threw: another attempt after a backoff, or the job is failed and
\* kept, and onFailed goes on past its early return.
FailAttempt(p) ==
  /\ proc[p].pc = "threw"
  /\ proc' = [proc EXCEPT ![p] = Idle]
  /\ LET e == Of(p)
         made == job[e].made + 1
         dead == made >= MaxAttempts
     IN IF job[e].owner # p THEN UNCHANGED <<job, hook>>
        ELSE /\ job' = [job EXCEPT ![e] = [@ EXCEPT !.state = IF dead THEN "failed" ELSE "delayed",
                                                    !.made = IF dead THEN MaxAttempts ELSE made,
                                                    !.owner = Nobody]]
             /\ hook' = IF dead THEN [hook EXCEPT ![e] = "read"] ELSE hook
  /\ UNCHANGED <<rows, handlers, history, faults>>

----------------------------------------------------------------------------
(* WorkflowProcessor.onFailed: reads the status, then writes FAILED *)

\* Mutant: the hook trusts process() to have written FAILED.
OnFailedTrusts(e) ==
  /\ hook[e] = "read"
  /\ hook' = [hook EXCEPT ![e] = "idle"]
  /\ UNCHANGED <<rows, handlers, job, proc, history, faults>>

OnFailedFinds(e) ==
  /\ hook[e] = "read"
  /\ hook' = [hook EXCEPT ![e] = IF status[e] = "FAILED" THEN "idle" ELSE "write"]
  /\ UNCHANGED <<rows, handlers, job, proc, history, faults>>

OnFailedWrites(e) ==
  /\ hook[e] = "write"
  /\ hook' = [hook EXCEPT ![e] = "idle"]
  /\ status' = [status EXCEPT ![e] = "FAILED"]
  /\ late' = [late EXCEPT ![e] = @ \/ job[e].state # "failed"]
  /\ UNCHANGED <<output, succeeded, handlers, job, proc, zombie, faults>>

\* The hook's process dies or its call rejects: nobody calls it again.
OnFailedLost(e) ==
  /\ hook[e] \in {"read", "write"} /\ Fault
  /\ hook' = [hook EXCEPT ![e] = "lost"]
  /\ UNCHANGED <<rows, handlers, job, proc, history>>

----------------------------------------------------------------------------
(* ExecutionsService.cancel: anything but PENDING is a 400 *)

CancelFinds(e) ==
  /\ cancel[e] = "none" /\ status[e] = "PENDING"
  /\ cancel' = [cancel EXCEPT ![e] = "found"]
  /\ UNCHANGED <<rows, enqueue, retry, retries, job, proc, hook, history, faults>>

CancelWrites(e) ==
  /\ cancel[e] = "found"
  /\ cancel' = [cancel EXCEPT ![e] = "written"]
  /\ status' = [status EXCEPT ![e] = "CANCELLED"]
  /\ UNCHANGED <<output, succeeded, enqueue, retry, retries, job, proc, hook, history, faults>>

\* job?.remove(), best effort: a locked job stays, a lock that expired is none.
CancelRemoves(e) ==
  /\ cancel[e] = "written"
  /\ cancel' = [cancel EXCEPT ![e] = "done"]
  /\ \/ /\ job[e].state # "absent" /\ job[e].owner = Nobody
        /\ job' = [job EXCEPT ![e].state = "removed"]
     \/ /\ job[e].state \in {"absent", "active"}
        /\ UNCHANGED job
  /\ UNCHANGED <<rows, enqueue, retry, retries, proc, hook, history, faults>>

----------------------------------------------------------------------------
(* AdminController.retryFailedJob: the job first, its row afterwards *)

RetryFinds(e) ==
  /\ retry[e] = "idle" /\ retries < MaxRetries
  /\ job[e].state \notin {"absent", "removed"}
  /\ retries' = retries + 1
  /\ retry' = [retry EXCEPT ![e] = "found"]
  /\ UNCHANGED <<rows, enqueue, cancel, job, proc, hook, history, faults>>

\* job.retry() moves a failed job, with the attempts it has made; else it throws.
RetryMoves(e) ==
  /\ retry[e] = "found"
  /\ IF job[e].state = "failed"
     THEN /\ job' = [job EXCEPT ![e].state = "waiting"]
          /\ retry' = [retry EXCEPT ![e] = "moved"]
     ELSE /\ retry' = [retry EXCEPT ![e] = "idle"]
          /\ UNCHANGED job
  /\ UNCHANGED <<rows, enqueue, cancel, retries, proc, hook, history, faults>>

\* PENDING, whatever the row says; a rejected update is swallowed.
RetryWrites(e) ==
  /\ retry[e] = "moved"
  /\ retry' = [retry EXCEPT ![e] = "idle"]
  /\ \/ /\ status' = [status EXCEPT ![e] = "PENDING"]
        /\ late' = [late EXCEPT ![e] = @ \/ job[e].state # "waiting"]
        /\ UNCHANGED faults
     \/ Fault /\ UNCHANGED <<status, late>>
  /\ UNCHANGED <<output, succeeded, enqueue, cancel, retries, job, proc, hook, zombie>>

----------------------------------------------------------------------------
Listener(e) == CreateRun(e) \/ Enqueue(e) \/ EnqueueLost(e)
OnFailed(e) == OnFailedFinds(e) \/ OnFailedWrites(e)
Cancelling(e) == CancelWrites(e) \/ CancelRemoves(e)
Retrying(e) == RetryMoves(e) \/ RetryWrites(e)
Processing(p) ==
  \/ FindExecution(p) \/ WriteRunning(p) \/ FindSucceeded(p) \/ CreateStep(p) \/ Execute(p)
  \/ Commit(p) \/ StepFails(p) \/ WriteSucceeded(p) \/ WriteFailed(p) \/ Complete(p) \/ FailAttempt(p)

Next ==
  \/ \E e \in Exec : \/ Listener(e) \/ Promote(e) \/ Stall(e)
                     \/ OnFailed(e) \/ OnFailedLost(e)
                     \/ CancelFinds(e) \/ Cancelling(e) \/ RetryFinds(e) \/ Retrying(e)
  \/ \E p \in Proc : \/ \E e \in Exec : Take(p, e)
                     \/ Processing(p) \/ CallRejects(p) \/ Die(p)

Spec == Init /\ [][Next]_vars

\* Workers poll the queue, its timers fire, the stalled check runs; a call that
\* began is run on.  Nobody has to cancel, to retry or to fail.
Fairness ==
  /\ \A p \in Proc : WF_vars(Processing(p)) /\ WF_vars(\E e \in Exec : Take(p, e))
  /\ \A e \in Exec : /\ WF_vars(Promote(e)) /\ WF_vars(job[e].owner = Nobody /\ Stall(e))
                     /\ WF_vars(OnFailed(e)) /\ WF_vars(Cancelling(e)) /\ WF_vars(Retrying(e))

FairSpec == Spec /\ Fairness

----------------------------------------------------------------------------
(* Properties *)

Place == {"idle", "find", "found", "running", "loop", "step", "ok", "bad", "failing",
          "threw", "returned"}

\* Every variable keeps its type.
TypeOK ==
  /\ status \in [Exec -> Status]
  /\ output \in [Exec -> Payload] /\ succeeded \in [Exec -> SUBSET Action]
  /\ enqueue \in [Exec -> {"none", "row", "done", "lost"}]
  /\ cancel \in [Exec -> {"none", "found", "written", "done"}]
  /\ retry \in [Exec -> {"idle", "found", "moved"}]
  /\ job \in [Exec -> [state : InQueue \cup Ended \cup {"absent"}, made : Nat,
                       stalls : Nat, owner : Proc \cup {Nobody}]]
  /\ proc \in [Proc -> [pc : Place, exec : Exec \cup {Nobody}, read : Payload,
                        todo : SUBSET Action, payload : Payload]]
  /\ hook \in [Exec -> {"idle", "read", "write", "lost"}]
  /\ zombie \in [Exec -> BOOLEAN] /\ late \in [Exec -> BOOLEAN]
  /\ retries \in 0..MaxRetries /\ faults \in 0..MaxFaults

\* A run that says SUCCEEDED has a SUCCEEDED row for every action, however many
\* processors ran it and whoever else wrote its row.
SucceededRanEverything ==
  \A e \in Exec : status[e] = "SUCCEEDED" => succeeded[e] = Action

\* "A retry resumes after the steps that already succeeded ... so their side effects
\* aren't repeated": while no lock was lost by a processor that lives, the action
\* that starts has not succeeded, all before it have, and the payload it is given
\* holds the answer of the last HTTP request among them.
ResumesWhereItStopped ==
  [][\A p \in Proc :
       (proc[p].pc = "loop" /\ proc'[p].pc = "step" /\ ~zombie[Of(p)])
         => /\ succeeded[Of(p)] = 1..(Current(p) - 1)
            /\ proc[p].payload = Max({0} \cup {a \in succeeded[Of(p)] : Types[a] = "HTTP_REQUEST"})]_vars

\* Nobody is in the middle of anything with this run.
Quiet(e) ==
  /\ \A p \in Proc : proc[p].exec # e
  /\ hook[e] \in {"idle", "lost"} /\ retry[e] = "idle"

\* What the queue and the row say of a run agree when nobody works on it: a
\* completed job has a SUCCEEDED row, a job dead of its attempts a FAILED one.
\* The exceptions, each in the code: an owner who cancelled, a zombie, a hook that
\* was lost, a job dead of stalling before its last attempt, where onFailed takes
\* its early return, and a PENDING of a retry or a FAILED of onFailed that came late.
RowFollowsJob ==
  \A e \in Exec :
    (Quiet(e) /\ cancel[e] = "none" /\ ~late[e] /\ ~zombie[e]) =>
      /\ job[e].state = "completed" => status[e] = "SUCCEEDED"
      /\ (job[e].state = "failed" /\ job[e].made >= MaxAttempts /\ hook[e] # "lost")
           => status[e] = "FAILED"

\* The rows of a run never make a step that the life of a queued run does not have
\* (module QueuedRun), until its owner cancels it, onFailed or a retry writes late, or
\* a living processor loses its lock; and then they still make no step back.
Disturbed == {e \in Exec : zombie[e] \/ late[e] \/ cancel[e] \in {"written", "done"}}
Life == INSTANCE QueuedRun
          WITH state <- status, done <- succeeded, result <- output, disturbed <- Disturbed,
               NumActions <- Len(Types), Answers <- {a \in Action : Types[a] = "HTTP_REQUEST"}
LivesAsQueued == Life!Spec

\* A job that is queued is completed, dead or removed in the end, whichever
\* processes die.
JobEnds ==
  \A e \in Exec : (job[e].state \in InQueue) ~> (job[e].state \in Ended)

=============================================================================
