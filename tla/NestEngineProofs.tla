--------------------------- MODULE NestEngineProofs ---------------------------
(***************************************************************************)
(* What holds of NestEngine for any executions, worker slots, actions,     *)
(* attempts, stalls, retries and faults.                                   *)
(***************************************************************************)
EXTENDS NestEngine, WellFoundedInduction, TLAPS

USE NestAssumption DEF NestAssumption
USE DEF vars, rows, handlers, history

----------------------------------------------------------------------------
(* The inductive invariant *)

JobState   == {"absent", "waiting", "active", "delayed", "completed", "failed", "removed"}
JobRecord  == [state : JobState, made : Nat, stalls : Nat, owner : Proc \cup {Nobody}]
ProcRecord == [pc : Place, exec : Exec \cup {Nobody}, read : Payload, todo : SUBSET Action,
               payload : Payload]

Typed ==
  /\ status \in [Exec -> Status] /\ output \in [Exec -> Payload]
  /\ succeeded \in [Exec -> SUBSET Action]
  /\ enqueue \in [Exec -> {"none", "row", "done", "lost"}]
  /\ job \in [Exec -> JobRecord] /\ proc \in [Proc -> ProcRecord]
  /\ zombie \in [Exec -> BOOLEAN]

AtAction(p) == proc[p].pc \in {"step", "ok", "bad"}
InLoop(p)   == proc[p].pc \in {"loop", "step", "ok", "bad"}

\* What a processor in its loop will not run has a SUCCEEDED row. This needs no
\* lock: rows of SUCCEEDED steps are never taken back.
NoneSkipped(p) ==
  /\ proc[p].pc # "idle" => Of(p) \in Exec
  /\ InLoop(p) => Action \ proc[p].todo \subseteq succeeded[Of(p)]
  /\ AtAction(p) => proc[p].todo # {}

\* A job comes into the queue once, and has no owner before.
EnqueuedOnce(e) ==
  /\ enqueue[e] # "done" => job[e].state = "absent"
  /\ job[e].state = "absent" => job[e].owner = Nobody

\* Until a processor that lives has lost its lock, who works on a run has its lock.
Locked(p) ==
  proc[p].pc # "idle" /\ ~zombie[Of(p)] => job[Of(p)].state = "active" /\ job[Of(p)].owner = p

\* The answer of the last HTTP request among these actions.
LastAnswer(S) == Max({0} \cup {a \in S : Types[a] = "HTTP_REQUEST"})

\* ... and then the rows of a run are those of its first actions, and its
\* output is what the next one is to be given.
Resumable(e) ==
  ~zombie[e] => /\ \E k \in 0..Len(Types) : succeeded[e] = 1..k
                /\ output[e] = LastAnswer(succeeded[e])

\* ... and the processor agrees with the rows.
Agrees(p) ==
  /\ proc[p].pc \in {"found", "running"} /\ ~zombie[Of(p)] => proc[p].read = output[Of(p)]
  /\ InLoop(p) /\ ~zombie[Of(p)] => /\ proc[p].todo = Action \ succeeded[Of(p)]
                                    /\ proc[p].payload = output[Of(p)]

NestInv ==
  /\ Typed /\ SucceededRanEverything
  /\ \A p \in Proc : NoneSkipped(p) /\ Locked(p) /\ Agrees(p)
  /\ \A e \in Exec : EnqueuedOnce(e) /\ Resumable(e)

----------------------------------------------------------------------------
(* Actions and payloads *)

LEMMA TypesLen == Len(Types) \in Nat /\ \A a \in Action : Types[a] \in ActionType
  BY DEF Action

\* What is left to do has a first action.
LEMMA CurrentIsFirst ==
  ASSUME NEW p \in Proc, proc[p].todo \in SUBSET Action, proc[p].todo # {}
  PROVE  Current(p) \in proc[p].todo /\ \A b \in proc[p].todo : Current(p) <= b
  <1>1. proc[p].todo \subseteq Nat
    BY TypesLen DEF Action
  <1> DEFINE less == OpToRel(<, Nat)
  <1>2. PICK a \in proc[p].todo : \A b \in proc[p].todo : <<b, a>> \notin less
    <2> HIDE DEF less
    <2>1. IsWellFoundedOn(less, Nat)
      BY NatLessThanWellFounded DEF less
    <2> QED
      BY <1>1, <2>1, WFMin
  <1>3. ASSUME NEW b \in proc[p].todo, ~(a <= b) PROVE FALSE
    <2>1. b < a /\ a \in Nat /\ b \in Nat
      BY <1>1, <1>3
    <2>2. <<b, a>> \in less
      BY <2>1 DEF OpToRel
    <2> QED
      BY <1>2, <2>2
  <1> QED
    BY <1>3 DEF Current

LEMMA MaxIs ==
  ASSUME NEW S \in SUBSET Nat, NEW x \in S, \A y \in S : x >= y
  PROVE  Max(S) = x
  <1>1. \A z \in S : (\A y \in S : z >= y) => z = x
    OBVIOUS
  <1> QED
    BY <1>1 DEF Max

LEMMA NoAnswer == LastAnswer({}) = 0
  <1>1. {0} \cup {a \in {} : Types[a] = "HTTP_REQUEST"} = {0}
    OBVIOUS
  <1>2. Max({0}) = 0
    BY MaxIs
  <1> QED
    BY <1>1, <1>2 DEF LastAnswer

\* One action more: its answer, or the last of those before it.
LEMMA NextAnswer ==
  ASSUME NEW k \in Nat
  PROVE  LastAnswer(1..(k + 1)) = IF Types[k + 1] = "HTTP_REQUEST" THEN k + 1 ELSE LastAnswer(1..k)
  <1> DEFINE S(n) == {0} \cup {a \in 1..n : Types[a] = "HTTP_REQUEST"}
  <1>1. CASE Types[k + 1] = "HTTP_REQUEST"
    <2>1. S(k + 1) \subseteq Nat /\ k + 1 \in S(k + 1) /\ \A y \in S(k + 1) : k + 1 >= y
      BY <1>1
    <2> HIDE DEF S
    <2>2. Max(S(k + 1)) = k + 1
      BY <2>1, MaxIs
    <2> QED
      BY <1>1, <2>2 DEF S, LastAnswer
  <1>2. CASE Types[k + 1] # "HTTP_REQUEST"
    <2>1. S(k + 1) = S(k)
      BY <1>2
    <2> QED
      BY <1>2, <2>1 DEF LastAnswer
  <1> QED
    BY <1>1, <1>2

----------------------------------------------------------------------------
(* Steps *)

LEMMA InitInv == Init => NestInv
  <1> SUFFICES ASSUME Init PROVE NestInv
    OBVIOUS
  <1>1. Idle \in ProcRecord
    BY TypesLen DEF Idle, ProcRecord, Place, Payload
  <1>2. [state |-> "absent", made |-> 0, stalls |-> 0, owner |-> Nobody] \in JobRecord
    BY DEF JobRecord, JobState
  <1>3. Typed
    BY <1>1, <1>2, TypesLen DEF Init, Typed, Status, Payload
  <1>4. \A p \in Proc : proc[p].pc = "idle"
    BY DEF Init, Idle
  <1>5. \A p \in Proc : NoneSkipped(p) /\ Locked(p) /\ Agrees(p)
    BY <1>4 DEF NoneSkipped, Locked, Agrees, InLoop, AtAction
  <1>6. \A e \in Exec : Resumable(e)
    BY NoAnswer, TypesLen DEF Init, Resumable
  <1>7. SucceededRanEverything /\ \A e \in Exec : EnqueuedOnce(e)
    BY DEF Init, SucceededRanEverything, EnqueuedOnce
  <1> QED
    BY <1>3, <1>5, <1>6, <1>7 DEF NestInv

\* Who is no processor leaves steps and payloads alone, and the jobs of locks that
\* are held.
LEMMA OthersKeepInv ==
  ASSUME NestInv, Typed', UNCHANGED <<proc, succeeded, output>>,
         \A e \in Exec : /\ zombie[e] => zombie'[e]
                         /\ status'[e] = "SUCCEEDED" => status[e] = "SUCCEEDED"
                         /\ EnqueuedOnce(e)'
                         /\ ~zombie'[e] /\ job[e].state = "active" /\ job[e].owner # Nobody
                              => job'[e].state = "active" /\ job'[e].owner = job[e].owner
  PROVE  NestInv'
  <1>1. SucceededRanEverything'
    BY DEF NestInv, SucceededRanEverything
  <1>2. \A e \in Exec : Resumable(e)'
    BY DEF NestInv, Resumable
  <1>3. ASSUME NEW p \in Proc PROVE NoneSkipped(p)' /\ Locked(p)' /\ Agrees(p)'
    <2>1. NoneSkipped(p) /\ Locked(p) /\ Agrees(p) /\ p # Nobody
      BY DEF NestInv
    <2>2. NoneSkipped(p)'
      BY <2>1 DEF NoneSkipped, InLoop, AtAction, Of
    <2>3. Locked(p)'
      BY <2>1 DEF Locked, NoneSkipped, Of
    <2>4. Agrees(p)'
      BY <2>1 DEF Agrees, NoneSkipped, InLoop, Of
    <2> QED
      BY <2>2, <2>3, <2>4
  <1> QED
    BY <1>1, <1>2, <1>3 DEF NestInv

\* A processor leaves alone the other processors and the jobs they hold.
LEMMA ProcessorKeepsInv ==
  ASSUME NestInv, Typed', NEW p \in Proc, UNCHANGED <<succeeded, output, zombie, enqueue>>,
         \A q \in Proc : q # p => proc'[q] = proc[q],
         \A e \in Exec : \/ job'[e] = job[e]
                         \/ /\ job[e].owner = p \/ job[e].state = "waiting"
                            /\ job'[e].state # "absent",
         \A e \in Exec : status'[e] = "SUCCEEDED" => status[e] = "SUCCEEDED",
         NoneSkipped(p)', Locked(p)', Agrees(p)'
  PROVE  NestInv'
  <1>1. SucceededRanEverything' /\ \A e \in Exec : EnqueuedOnce(e)'
    <2>1. p # Nobody /\ \A e \in Exec : EnqueuedOnce(e)
      BY DEF NestInv
    <2>2. \A e \in Exec : EnqueuedOnce(e)'
      BY <2>1 DEF EnqueuedOnce
    <2> QED
      BY <2>2 DEF NestInv, SucceededRanEverything
  <1>2. \A e \in Exec : Resumable(e)'
    BY DEF NestInv, Resumable
  <1>3. ASSUME NEW q \in Proc, q # p PROVE NoneSkipped(q)' /\ Locked(q)' /\ Agrees(q)'
    <2>1. NoneSkipped(q) /\ Locked(q) /\ Agrees(q) /\ proc'[q] = proc[q]
      BY <1>3 DEF NestInv
    <2>2. NoneSkipped(q)'
      BY <2>1 DEF NoneSkipped, InLoop, AtAction, Of
    <2>3. Locked(q)'
      BY <1>3, <2>1 DEF Locked, NoneSkipped, Of
    <2>4. Agrees(q)'
      BY <2>1 DEF Agrees, NoneSkipped, InLoop, Of
    <2> QED
      BY <2>2, <2>3, <2>4
  <1> QED
    BY <1>1, <1>2, <1>3 DEF NestInv

\* What a step makes of a job.
LEMMA StateChange ==
  ASSUME Typed, NEW e \in Exec, NEW to \in JobState, job' = [job EXCEPT ![e].state = to]
  PROVE  /\ job' \in [Exec -> JobRecord] /\ job'[e].state = to
         /\ \A f \in Exec : f # e => job'[f] = job[f]
  BY ZenonT(60) DEF Typed, JobRecord

LEMMA StallChange ==
  ASSUME Typed, NEW e \in Exec, Stall(e)
  PROVE  /\ job' \in [Exec -> JobRecord] /\ job'[e].state \in {"waiting", "failed"}
         /\ \A f \in Exec : f # e => job'[f] = job[f]
  <1>0. /\ job \in [Exec -> JobRecord] /\ job[e] \in JobRecord /\ Nobody \in Proc \cup {Nobody}
        /\ job[e].made \in Nat /\ job[e].stalls \in Nat
        /\ "waiting" \in JobState /\ "failed" \in JobState
    BY DEF Typed, JobRecord, JobState
  <1>1. CASE job' = [job EXCEPT ![e].state = "waiting", ![e].stalls = @ + 1, ![e].owner = Nobody]
    <2> DEFINE n == job[e].stalls + 1
               r == [job[e] EXCEPT !.state = "waiting", !.stalls = n, !.owner = Nobody]
    <2>0. n \in Nat
      BY <1>0
    <2>1. job' = [job EXCEPT ![e] = r]
      BY <1>1
    <2> HIDE DEF n
    <2>2. r \in JobRecord /\ r.state = "waiting"
      BY <1>0, <2>0 DEF JobRecord
    <2> HIDE DEF r
    <2> QED
      BY <1>0, <2>1, <2>2
  <1>2. ASSUME NEW n \in {job[e].made, job[e].made + 1},
               job' = [job EXCEPT ![e].state = "failed", ![e].made = n, ![e].owner = Nobody]
        PROVE  /\ job' \in [Exec -> JobRecord] /\ job'[e].state \in {"waiting", "failed"}
               /\ \A f \in Exec : f # e => job'[f] = job[f]
    <2> DEFINE r == [job[e] EXCEPT !.state = "failed", !.made = n, !.owner = Nobody]
    <2>0. n \in Nat
      BY <1>0
    <2>1. job' = [job EXCEPT ![e] = r]
      BY <1>2
    <2>2. r \in JobRecord /\ r.state = "failed"
      BY <1>0, <2>0 DEF JobRecord
    <2> HIDE DEF r
    <2> QED
      BY <1>0, <2>1, <2>2
  <1> QED
    BY <1>1, <1>2, Zenon DEF Stall

\* The listener, the queue, the hook, the owner and the operator.
LEMMA OthersInv ==
  ASSUME NestInv, NEW e \in Exec,
         \/ Listener(e) \/ Promote(e) \/ Stall(e) \/ OnFailed(e) \/ OnFailedLost(e)
         \/ CancelFinds(e) \/ Cancelling(e) \/ RetryFinds(e) \/ Retrying(e)
  PROVE  NestInv'
  <1> USE DEF Fault
  <1>0. Typed /\ EnqueuedOnce(e) /\ \A f \in Exec : EnqueuedOnce(f)
    BY DEF NestInv
  <1>1. CASE CreateRun(e) \/ EnqueueLost(e)
    <2>1. UNCHANGED <<proc, succeeded, output, job, zombie>>
      BY <1>1 DEF CreateRun, EnqueueLost
    <2>2. Typed' /\ \A f \in Exec : status'[f] = "SUCCEEDED" => status[f] = "SUCCEEDED"
      BY <1>0, <1>1 DEF Typed, CreateRun, EnqueueLost, Status
    <2>3. \A f \in Exec : EnqueuedOnce(f)'
      BY <1>0, <1>1 DEF Typed, CreateRun, EnqueueLost, EnqueuedOnce
    <2> QED
      BY <2>1, <2>2, <2>3, OthersKeepInv
  <1>2. CASE \/ OnFailed(e) \/ OnFailedLost(e) \/ CancelFinds(e) \/ CancelWrites(e)
             \/ RetryFinds(e) \/ RetryWrites(e)
    <2>1. UNCHANGED <<proc, succeeded, output, job, zombie, enqueue>>
      BY <1>2 DEF OnFailed, OnFailedFinds, OnFailedWrites, OnFailedLost, CancelFinds, CancelWrites, RetryFinds, RetryWrites
    <2>2. status' = status \/ \E to \in {"FAILED", "CANCELLED", "PENDING"} : status' = [status EXCEPT ![e] = to]
      BY <1>2 DEF OnFailed, OnFailedFinds, OnFailedWrites, OnFailedLost, CancelFinds, CancelWrites, RetryFinds, RetryWrites
    <2>3. Typed' /\ \A f \in Exec : status'[f] = "SUCCEEDED" => status[f] = "SUCCEEDED"
      BY <1>0, <2>1, <2>2 DEF Typed, Status
    <2> QED
      BY <1>0, <2>1, <2>3, OthersKeepInv DEF EnqueuedOnce
  <1>3. CASE Enqueue(e) \/ Promote(e) \/ RetryMoves(e) \/ CancelRemoves(e)
    <2>1. UNCHANGED <<proc, succeeded, output, status, zombie>>
      BY <1>3 DEF Enqueue, Promote, RetryMoves, CancelRemoves
    <2>2. \/ job' = job
          \/ /\ \E to \in {"waiting", "removed"} : job' = [job EXCEPT ![e].state = to]
             /\ job[e].state # "active" \/ job[e].owner = Nobody
             /\ job[e].state = "absent" => enqueue'[e] = "done"
      BY <1>0, <1>3 DEF Enqueue, Promote, RetryMoves, CancelRemoves, EnqueuedOnce, Typed
    <2>3. /\ enqueue' \in [Exec -> {"none", "row", "done", "lost"}]
          /\ \A f \in Exec : enqueue[f] = "done" => enqueue'[f] = "done"
      BY <1>0, <1>3 DEF Enqueue, Promote, RetryMoves, CancelRemoves, Typed
    <2>4. CASE job' = job
      <3>1. Typed'
        BY <1>0, <2>1, <2>3, <2>4 DEF Typed
      <3>2. \A f \in Exec : EnqueuedOnce(f)'
        BY <1>0, <2>3, <2>4 DEF EnqueuedOnce
      <3> QED
        BY <2>1, <2>4, <3>1, <3>2, OthersKeepInv
    <2>5. ASSUME NEW to \in {"waiting", "removed"}, job' = [job EXCEPT ![e].state = to],
                 job[e].state # "active" \/ job[e].owner = Nobody,
                 job[e].state = "absent" => enqueue'[e] = "done"
          PROVE  NestInv'
      <3>1. /\ job' \in [Exec -> JobRecord] /\ job'[e].state = to
            /\ \A f \in Exec : f # e => job'[f] = job[f]
        BY <1>0, <2>5, StateChange DEF JobState
      <3>2. Typed'
        BY <1>0, <2>1, <2>3, <3>1 DEF Typed
      <3>3. \A f \in Exec : EnqueuedOnce(f)'
        BY <1>0, <2>3, <2>5, <3>1 DEF EnqueuedOnce
      <3> QED
        BY <2>1, <2>5, <3>1, <3>2, <3>3, OthersKeepInv
    <2> QED
      BY <2>2, <2>4, <2>5
  <1>4. CASE Stall(e)
    <2>1. UNCHANGED <<proc, succeeded, output, status, enqueue>> /\ job[e].state = "active"
      BY <1>4 DEF Stall
    <2>2. (job[e].owner = Nobody /\ zombie' = zombie) \/ zombie' = [zombie EXCEPT ![e] = TRUE]
      BY <1>4 DEF Stall
    <2>4. /\ job' \in [Exec -> JobRecord] /\ job'[e].state # "absent"
          /\ \A f \in Exec : f # e => job'[f] = job[f]
      BY <1>0, <1>4, StallChange
    <2>5. Typed'
      BY <1>0, <2>1, <2>2, <2>4 DEF Typed
    <2>6. \A f \in Exec : EnqueuedOnce(f)'
      BY <1>0, <2>1, <2>4 DEF EnqueuedOnce
    <2>7. \A f \in Exec : (zombie[f] => zombie'[f]) /\ (f # e \/ job[e].owner = Nobody \/ zombie'[e])
      BY <1>0, <2>2 DEF Typed
    <2> QED
      BY <2>1, <2>4, <2>5, <2>6, <2>7, OthersKeepInv
  <1> QED
    BY <1>1, <1>2, <1>3, <1>4 DEF Listener, Cancelling, Retrying

LEMMA GotoEffect ==
  ASSUME Typed, NEW p \in Proc, NEW pc \in Place, Goto(p, pc)
  PROVE  /\ proc' \in [Proc -> ProcRecord] /\ \A q \in Proc : q # p => proc'[q] = proc[q]
         /\ proc'[p].pc = pc /\ proc'[p].exec = proc[p].exec /\ proc'[p].read = proc[p].read
         /\ proc'[p].todo = proc[p].todo /\ proc'[p].payload = proc[p].payload
  BY ZenonT(60) DEF Typed, ProcRecord, Goto

\* A processor that moves on, and writes no step and no payload.
LEMMA GotoInv ==
  ASSUME NestInv, NEW p \in Proc, NEW pc \in Place, Goto(p, pc), proc[p].pc # "idle",
         UNCHANGED <<succeeded, output, zombie, enqueue, job>>, status' \in [Exec -> Status],
         \A e \in Exec : status'[e] = "SUCCEEDED" => status[e] = "SUCCEEDED",
         pc \in {"found", "running"} => proc[p].pc \in {"found", "running"},
         pc \in {"loop", "step", "ok", "bad"} => InLoop(p),
         pc \in {"step", "ok", "bad"} => proc[p].todo # {}
  PROVE  NestInv'
  <1>1. Typed /\ NoneSkipped(p) /\ Locked(p) /\ Agrees(p)
    BY DEF NestInv
  <1>2. /\ proc' \in [Proc -> ProcRecord] /\ \A q \in Proc : q # p => proc'[q] = proc[q]
        /\ proc'[p].pc = pc /\ proc'[p].exec = proc[p].exec /\ proc'[p].read = proc[p].read
        /\ proc'[p].todo = proc[p].todo /\ proc'[p].payload = proc[p].payload
    BY <1>1, GotoEffect
  <1>3. Typed'
    BY <1>1, <1>2 DEF Typed
  <1>4. NoneSkipped(p)'
    BY <1>1, <1>2 DEF NoneSkipped, InLoop, AtAction, Of
  <1>5. Locked(p)'
    BY <1>1, <1>2 DEF Locked, Of
  <1>6. Agrees(p)'
    BY <1>1, <1>2 DEF Agrees, InLoop, Of
  <1> QED
    BY <1>2, <1>3, <1>4, <1>5, <1>6, ProcessorKeepsInv

\* A processor that is through, or dead.
LEMMA LeaveInv ==
  ASSUME NestInv, NEW p \in Proc, proc' = [proc EXCEPT ![p] = Idle],
         UNCHANGED <<succeeded, output, zombie, enqueue, status>>, job' \in [Exec -> JobRecord],
         \A e \in Exec : job'[e] = job[e] \/ (job[e].owner = p /\ job'[e].state # "absent")
  PROVE  NestInv'
  <1>1. Typed
    BY DEF NestInv
  <1>2. Idle \in ProcRecord
    BY TypesLen DEF Idle, ProcRecord, Place, Payload
  <1>3. proc' \in [Proc -> ProcRecord] /\ proc'[p] = Idle /\ \A q \in Proc : q # p => proc'[q] = proc[q]
    BY <1>1, <1>2 DEF Typed
  <1>4. Typed'
    BY <1>1, <1>3 DEF Typed
  <1>5. NoneSkipped(p)' /\ Locked(p)' /\ Agrees(p)'
    BY <1>3 DEF Idle, NoneSkipped, Locked, Agrees, InLoop, AtAction
  <1> QED
    BY <1>3, <1>4, <1>5, ProcessorKeepsInv

LEMMA MovesInv ==
  ASSUME NestInv, NEW p \in Proc,
         WriteRunning(p) \/ CreateStep(p) \/ Execute(p) \/ StepFails(p) \/ WriteFailed(p) \/ CallRejects(p)
  PROVE  NestInv'
  <1>1. Typed /\ NoneSkipped(p) /\ status \in [Exec -> Status]
    BY DEF NestInv, Typed
  <1>2. CASE WriteRunning(p)
    <2>1. status' \in [Exec -> Status] /\ \A e \in Exec : status'[e] = "SUCCEEDED" => status[e] = "SUCCEEDED"
      BY <1>1, <1>2 DEF WriteRunning, Status
    <2> QED
      BY <1>2, <2>1, GotoInv DEF WriteRunning, Place
  <1>3. CASE CreateStep(p)
    BY <1>1, <1>3, GotoInv DEF CreateStep, Place, InLoop
  <1>4. CASE Execute(p)
    <2>1. \E result \in {"ok", "bad"} : Goto(p, result)
      <3>1. Current(p) \in Action
        BY <1>1, <1>4, CurrentIsFirst DEF Execute, NoneSkipped, AtAction, Typed, ProcRecord
      <3>2. Results(Types[Current(p)]) \subseteq {"ok", "bad"}
        BY <3>1, TypesLen DEF Results, ActionType, HttpRequest, SendEmail, TelegramNotify, LogMessage, Delay
      <3> QED
        BY <1>4, <3>2 DEF Execute
    <2> QED
      BY <1>1, <1>4, <2>1, GotoInv DEF Execute, Place, InLoop, NoneSkipped, AtAction
  <1>5. CASE StepFails(p)
    BY <1>1, <1>5, GotoInv DEF StepFails, Place
  <1>6. CASE WriteFailed(p)
    <2>1. status' \in [Exec -> Status] /\ \A e \in Exec : status'[e] = "SUCCEEDED" => status[e] = "SUCCEEDED"
      BY <1>1, <1>6 DEF WriteFailed, Status
    <2> QED
      BY <1>6, <2>1, GotoInv DEF WriteFailed, Place
  <1>7. CASE CallRejects(p)
    BY <1>1, <1>7, GotoInv DEF CallRejects, Place
  <1> QED
    BY <1>2, <1>3, <1>4, <1>5, <1>6, <1>7

\* A job whose lock is given back.
LEMMA Unlocked ==
  ASSUME NEW r \in JobRecord, NEW to \in JobState
  PROVE  /\ [r EXCEPT !.owner = Nobody] \in JobRecord
         /\ [r EXCEPT !.owner = Nobody].state = r.state
         /\ [r EXCEPT !.state = to, !.owner = Nobody] \in JobRecord
         /\ [r EXCEPT !.state = to, !.owner = Nobody].state = to
  <1> DEFINE a == [r EXCEPT !.owner = Nobody]
             b == [r EXCEPT !.state = to, !.owner = Nobody]
  <1>1. a \in JobRecord /\ a.state = r.state
    BY DEF JobRecord
  <1>2. b \in JobRecord /\ b.state = to
    BY DEF JobRecord
  <1> QED
    BY <1>1, <1>2

LEMMA LeavesInv ==
  ASSUME NestInv, NEW p \in Proc, Complete(p) \/ FailAttempt(p) \/ Die(p)
  PROVE  NestInv'
  <1>1. Typed /\ NoneSkipped(p) /\ job \in [Exec -> JobRecord]
        /\ \A e \in Exec : EnqueuedOnce(e) /\ job[e].made \in Nat
    BY DEF NestInv, Typed, JobRecord
  <1>2. p # Nobody /\ "completed" \in JobState /\ "failed" \in JobState /\ "delayed" \in JobState
    BY DEF JobState
  <1>3. proc' = [proc EXCEPT ![p] = Idle] /\ UNCHANGED <<succeeded, output, zombie, enqueue, status>>
    BY DEF Complete, FailAttempt, Die
  <1>4. ASSUME NEW e \in Exec, NEW r \in JobRecord, job' = [job EXCEPT ![e] = r],
               job[e].owner = p, r.state # "absent"
        PROVE  NestInv'
    <2>1. job' \in [Exec -> JobRecord] /\ job'[e] = r /\ \A f \in Exec : f # e => job'[f] = job[f]
      BY <1>1, <1>4
    <2> QED
      BY <1>3, <1>4, <2>1, LeaveInv
  <1>5. CASE job' = job
    BY <1>1, <1>3, <1>5, LeaveInv
  <1>6. CASE Complete(p) /\ job' # job
    <2> DEFINE e == Of(p)
               r == [job[e] EXCEPT !.state = "completed", !.owner = Nobody]
    <2>1. e \in Exec /\ job[e].owner = p
      BY <1>1, <1>6 DEF Complete, NoneSkipped
    <2>2. job' = [job EXCEPT ![e] = r]
      BY <1>6 DEF Complete
    <2>3. r \in JobRecord /\ r.state = "completed"
      BY <1>1, <1>2, <2>1, Unlocked
    <2> HIDE DEF e, r
    <2> QED
      BY <1>4, <2>1, <2>2, <2>3
  <1>7. CASE FailAttempt(p) /\ job' # job
    <2> DEFINE e == Of(p)
               made == job[e].made + 1
               to == IF made >= MaxAttempts THEN "failed" ELSE "delayed"
               n == IF made >= MaxAttempts THEN MaxAttempts ELSE made
               r == [job[e] EXCEPT !.state = to, !.made = n, !.owner = Nobody]
    <2>1. e \in Exec /\ job[e].owner = p
      BY <1>1, <1>7 DEF FailAttempt, NoneSkipped
    <2>2. to \in JobState /\ n \in Nat /\ to # "absent"
      BY <1>1, <1>2, <2>1
    <2>3. job' = [job EXCEPT ![e] = r]
      BY <1>7, Zenon DEF FailAttempt
    <2> HIDE DEF to, n, e
    <2>4. r \in JobRecord /\ r.state = to
      <3>1. job[e] \in JobRecord
        BY <1>1, <2>1
      <3>2. r \in JobRecord
        BY <2>2, <3>1 DEF JobRecord
      <3>3. r.state = to
        BY <2>2, <3>1 DEF JobRecord
      <3> QED
        BY <3>2, <3>3
    <2> HIDE DEF r
    <2> QED
      BY <1>4, <2>1, <2>2, <2>3, <2>4
  <1>8. CASE Die(p)
    <2>1. \A e \in Exec : job'[e] = IF job[e].owner = p THEN [job[e] EXCEPT !.owner = Nobody] ELSE job[e]
      BY <1>8 DEF Die
    <2>2. \A e \in Exec : [job[e] EXCEPT !.owner = Nobody] \in JobRecord
                          /\ [job[e] EXCEPT !.owner = Nobody].state = job[e].state
      BY <1>1, <1>2, Unlocked
    <2>3. job' \in [Exec -> JobRecord]
      BY <1>1, <1>8, <2>1, <2>2 DEF Die
    <2>4. \A e \in Exec : job'[e] = job[e] \/ (job[e].owner = p /\ job'[e].state # "absent")
      BY <1>1, <1>2, <2>1, <2>2 DEF EnqueuedOnce
    <2> QED
      BY <1>3, <2>3, <2>4, LeaveInv
  <1> QED
    BY <1>5, <1>6, <1>7, <1>8

LEMMA ReadsInv ==
  ASSUME NestInv, NEW p \in Proc, (\E e \in Exec : Take(p, e)) \/ FindExecution(p) \/ FindSucceeded(p)
  PROVE  NestInv'
  <1>1. /\ Typed /\ NoneSkipped(p) /\ Locked(p) /\ Agrees(p) /\ p # Nobody
        /\ job \in [Exec -> JobRecord] /\ proc \in [Proc -> ProcRecord] /\ proc[p] \in ProcRecord
        /\ \A e \in Exec : EnqueuedOnce(e) /\ Resumable(e)
    BY DEF NestInv, Typed
  <1>2. ASSUME NEW e \in Exec, Take(p, e) PROVE NestInv'
    <2> DEFINE r == [job[e] EXCEPT !.state = "active", !.owner = p]
               c == [Idle EXCEPT !.pc = "find", !.exec = e]
    <2>1. UNCHANGED <<succeeded, output, zombie, enqueue, status>> /\ job[e].state = "waiting"
      BY <1>2 DEF Take
    <2>2. job' = [job EXCEPT ![e] = r] /\ proc' = [proc EXCEPT ![p] = c]
      BY <1>2 DEF Take
    <2>3. r \in JobRecord /\ r.state = "active" /\ r.owner = p
      <3>1. job[e] \in JobRecord /\ "active" \in JobState
        BY <1>1 DEF JobState
      <3> QED
        BY <3>1 DEF JobRecord
    <2>4. c \in ProcRecord /\ c.pc = "find" /\ c.exec = e
      <3>1. Idle \in ProcRecord
        BY TypesLen DEF Idle, ProcRecord, Place, Payload
      <3>2. "find" \in Place
        BY DEF Place
      <3> QED
        BY <3>1, <3>2 DEF ProcRecord
    <2> HIDE DEF r, c
    <2>5. /\ job' \in [Exec -> JobRecord] /\ job'[e] = r /\ \A f \in Exec : f # e => job'[f] = job[f]
          /\ proc' \in [Proc -> ProcRecord] /\ proc'[p] = c /\ \A q \in Proc : q # p => proc'[q] = proc[q]
      BY <1>1, <2>2, <2>3, <2>4
    <2>6. Typed'
      BY <1>1, <2>1, <2>5 DEF Typed
    <2>7. NoneSkipped(p)' /\ Locked(p)' /\ Agrees(p)'
      BY <2>3, <2>4, <2>5 DEF NoneSkipped, Locked, Agrees, InLoop, AtAction, Of
    <2>8. \A f \in Exec : job'[f] = job[f] \/ (job[f].state = "waiting" /\ job'[f].state # "absent")
      BY <2>1, <2>3, <2>5
    <2> QED
      BY <2>1, <2>5, <2>6, <2>7, <2>8, ProcessorKeepsInv
  <1>3. ASSUME NEW c \in ProcRecord, proc' = [proc EXCEPT ![p] = c], c.exec = Of(p),
               proc[p].pc # "idle", UNCHANGED <<succeeded, output, zombie, enqueue, status, job>>,
               c.pc \in {"found", "loop"},
               c.pc = "found" => c.read = output[Of(p)],
               c.pc = "loop" => /\ c.todo = Action \ succeeded[Of(p)]
                                /\ ~zombie[Of(p)] => c.payload = output[Of(p)]
        PROVE  NestInv'
    <2>1. proc' \in [Proc -> ProcRecord] /\ proc'[p] = c /\ \A q \in Proc : q # p => proc'[q] = proc[q]
      BY <1>1, <1>3
    <2>2. Typed'
      BY <1>1, <1>3, <2>1 DEF Typed
    <2>3. Of(p)' = Of(p) /\ Of(p) \in Exec
      BY <1>1, <1>3, <2>1 DEF Of, NoneSkipped
    <2>4. NoneSkipped(p)'
      BY <1>1, <1>3, <2>1, <2>3 DEF NoneSkipped, InLoop, AtAction, Typed
    <2>5. Locked(p)'
      BY <1>1, <1>3, <2>1, <2>3 DEF Locked
    <2>6. Agrees(p)'
      BY <1>1, <1>3, <2>1, <2>3 DEF Agrees, InLoop
    <2> QED
      BY <1>3, <2>1, <2>2, <2>4, <2>5, <2>6, ProcessorKeepsInv
  <1>4. CASE FindExecution(p)
    <2> DEFINE c == [proc[p] EXCEPT !.pc = "found", !.read = output[Of(p)]]
    <2>1. Of(p) \in Exec /\ output[Of(p)] \in Payload
      BY <1>1, <1>4 DEF FindExecution, NoneSkipped, Typed
    <2>2. c \in ProcRecord /\ c.pc = "found" /\ c.read = output[Of(p)] /\ c.exec = Of(p)
      BY <1>1, <2>1 DEF ProcRecord, Place, Of
    <2>3. proc' = [proc EXCEPT ![p] = c] /\ proc[p].pc # "idle"
      BY <1>4 DEF FindExecution
    <2>4. UNCHANGED <<succeeded, output, zombie, enqueue, status, job>>
      BY <1>4 DEF FindExecution
    <2> HIDE DEF c
    <2> QED
      BY <1>3, <2>2, <2>3, <2>4
  <1>5. CASE FindSucceeded(p)
    <2> DEFINE done == succeeded[Of(p)]
               payload == IF done # {} THEN proc[p].read ELSE 0
               todo == Action \ done
               c == [proc[p] EXCEPT !.pc = "loop", !.todo = todo, !.read = 0, !.payload = payload]
    <2>1. proc[p].pc = "running" /\ Of(p) \in Exec /\ UNCHANGED <<succeeded, output, zombie, enqueue, status, job>>
      BY <1>1, <1>5 DEF FindSucceeded, NoneSkipped
    <2>2. proc' = [proc EXCEPT ![p] = c]
      BY <1>5, Zenon DEF FindSucceeded
    <2>3. payload \in Payload /\ todo \in SUBSET Action /\ 0 \in Payload
      BY <1>1, TypesLen DEF Payload, ProcRecord
    <2>4. ~zombie[Of(p)] => payload = output[Of(p)]
      BY <1>1, <2>1, NoAnswer DEF Agrees, Resumable
    <2> HIDE DEF payload, todo
    <2>5. c \in ProcRecord
      BY <1>1, <2>3 DEF ProcRecord, Place
    <2>6. c.pc = "loop" /\ c.exec = Of(p) /\ c.todo = todo /\ c.payload = payload
      BY <1>1 DEF ProcRecord, Of
    <2> HIDE DEF c
    <2> QED
      BY <1>3, <2>1, <2>2, <2>4, <2>5, <2>6 DEF todo
  <1> QED
    BY <1>2, <1>4, <1>5

\* Who holds a run that no living processor has lost is alone with it.
LEMMA Alone ==
  ASSUME NestInv, NEW p \in Proc, NEW q \in Proc, proc[p].pc # "idle", proc[q].pc # "idle",
         Of(p) = Of(q), ~zombie[Of(p)]
  PROVE  p = q
  BY DEF NestInv, Locked

\* The action that p is at, or comes to next, is the first without a row.
LEMMA NextAction ==
  ASSUME NestInv, NEW p \in Proc, InLoop(p), proc[p].todo # {}, ~zombie[Of(p)]
  PROVE  \E k \in 0..Len(Types) : succeeded[Of(p)] = 1..k /\ Current(p) = k + 1
  <1>1. Of(p) \in Exec /\ proc[p].todo = Action \ succeeded[Of(p)] /\ proc[p].todo \in SUBSET Action
    BY DEF NestInv, NoneSkipped, Agrees, InLoop, Typed, ProcRecord
  <1>2. PICK k \in 0..Len(Types) : succeeded[Of(p)] = 1..k
    BY <1>1 DEF NestInv, Resumable
  <1> DEFINE a == Current(p)
  <1>3. proc[p].todo = {b \in 1..Len(Types) : b > k} /\ k \in Nat /\ Len(Types) \in Nat
    BY <1>1, <1>2, TypesLen DEF Action
  <1>4. a \in proc[p].todo /\ \A b \in proc[p].todo : a <= b
    BY <1>1, CurrentIsFirst
  <1> HIDE DEF a
  <1>5. k + 1 \in proc[p].todo /\ a \in Nat /\ a > k
    BY <1>3, <1>4
  <1>6. a <= k + 1
    BY <1>4, <1>5
  <1>7. a = k + 1
    BY <1>3, <1>5, <1>6
  <1> QED
    BY <1>2, <1>7 DEF a

\* The payload and the rows of p's run are written.
LEMMA WritesInv ==
  ASSUME NestInv, NEW p \in Proc, NEW c \in ProcRecord, NEW done \in SUBSET Action, NEW payload \in Payload,
         proc[p].pc # "idle", c.exec = Of(p), proc' = [proc EXCEPT ![p] = c],
         succeeded' = [succeeded EXCEPT ![Of(p)] = done], succeeded[Of(p)] \subseteq done,
         output' = [output EXCEPT ![Of(p)] = payload],
         UNCHANGED <<zombie, enqueue, job>>,
         status' \in [Exec -> Status],
         \A e \in Exec : status'[e] = "SUCCEEDED" => status[e] = "SUCCEEDED" \/ (e = Of(p) /\ done = Action),
         c.pc \in {"loop", "returned"},
         c.pc = "loop" => /\ Action \ c.todo \subseteq done
                          /\ ~zombie[Of(p)] => c.todo = Action \ done /\ c.payload = payload,
         ~zombie[Of(p)] => payload = LastAnswer(done) /\ \E k \in 0..Len(Types) : done = 1..k
  PROVE  NestInv'
  <1>1. Typed /\ \A q \in Proc : NoneSkipped(q) /\ Locked(q) /\ Agrees(q)
    BY DEF NestInv
  <1>2. Of(p) \in Exec
    BY <1>1 DEF NoneSkipped
  <1>3. /\ proc' \in [Proc -> ProcRecord] /\ proc'[p] = c /\ \A q \in Proc : q # p => proc'[q] = proc[q]
        /\ succeeded' \in [Exec -> SUBSET Action] /\ output' \in [Exec -> Payload]
        /\ succeeded'[Of(p)] = done /\ output'[Of(p)] = payload
        /\ \A e \in Exec : e # Of(p) => succeeded'[e] = succeeded[e] /\ output'[e] = output[e]
    BY <1>1, <1>2 DEF Typed
  <1>4. Typed'
    BY <1>1, <1>3 DEF Typed
  <1>5. \A e \in Exec : succeeded[e] \subseteq succeeded'[e]
    BY <1>3
  <1>6. SucceededRanEverything'
    <2> SUFFICES ASSUME NEW e \in Exec, status'[e] = "SUCCEEDED" PROVE succeeded'[e] = Action
      BY DEF SucceededRanEverything
    <2>1. CASE status[e] = "SUCCEEDED"
      <3>1. succeeded[e] = Action
        BY <2>1 DEF NestInv, SucceededRanEverything
      <3>2. succeeded'[e] \subseteq Action /\ succeeded[e] \subseteq succeeded'[e]
        BY <1>3, <1>5
      <3> QED
        BY <3>1, <3>2
    <2> QED
      BY <1>3, <2>1
  <1>7. \A e \in Exec : EnqueuedOnce(e)' /\ Resumable(e)'
    <2>1. \A e \in Exec : EnqueuedOnce(e) /\ Resumable(e)
      BY DEF NestInv
    <2>2. \A e \in Exec : EnqueuedOnce(e)'
      BY <2>1 DEF EnqueuedOnce
    <2>3. \A e \in Exec : Resumable(e)'
      BY <1>3, <2>1 DEF Resumable
    <2> QED
      BY <2>2, <2>3
  <1>8. Of(p)' = Of(p) /\ \A q \in Proc : q # p => Of(q)' = Of(q)
    BY <1>3 DEF Of
  <1>9. NoneSkipped(p)' /\ Locked(p)' /\ Agrees(p)'
    <2>1. NoneSkipped(p)'
      BY <1>2, <1>3, <1>8 DEF NoneSkipped, InLoop, AtAction
    <2>2. Locked(p)'
      BY <1>1, <1>2, <1>3, <1>8 DEF Locked
    <2>3. Agrees(p)'
      BY <1>2, <1>3, <1>8 DEF Agrees, InLoop
    <2> QED
      BY <2>1, <2>2, <2>3
  <1>10. ASSUME NEW q \in Proc, q # p PROVE NoneSkipped(q)' /\ Locked(q)' /\ Agrees(q)'
    <2>1. NoneSkipped(q) /\ Locked(q) /\ Agrees(q) /\ proc'[q] = proc[q] /\ Of(q)' = Of(q)
      BY <1>1, <1>3, <1>8, <1>10
    <2>2. proc[q].pc # "idle" => Of(q) \in Exec
      BY <2>1 DEF NoneSkipped
    <2>3. NoneSkipped(q)'
      BY <1>5, <2>1, <2>2 DEF NoneSkipped, InLoop, AtAction
    <2>4. Locked(q)'
      BY <2>1 DEF Locked
    <2>5. Agrees(q)'
      <3>1. proc[q].pc # "idle" /\ ~zombie[Of(q)] => Of(q) # Of(p)
        BY <1>10, Alone
      <3> QED
        BY <1>3, <2>1, <2>2, <3>1 DEF Agrees, InLoop
    <2> QED
      BY <2>3, <2>4, <2>5
  <1> QED
    BY <1>4, <1>6, <1>7, <1>9, <1>10 DEF NestInv

LEMMA CommitInv ==
  ASSUME NestInv, NEW p \in Proc, Commit(p) PROVE NestInv'
  <1> DEFINE e == Of(p)
             a == Current(p)
             payload == Enriched(p, a)
             done == succeeded[e] \cup {a}
             todo == proc[p].todo \ {a}
             c == [proc[p] EXCEPT !.pc = "loop", !.todo = todo, !.payload = payload]
  <1>1. Typed /\ NoneSkipped(p) /\ Agrees(p) /\ proc[p] \in ProcRecord
    BY DEF NestInv, Typed
  <1>2. /\ proc[p].pc = "ok" /\ UNCHANGED <<zombie, enqueue, job, status>>
        /\ succeeded' = [succeeded EXCEPT ![e] = @ \cup {a}] /\ output' = [output EXCEPT ![e] = payload]
    BY DEF Commit
  <1>2a. proc' = [proc EXCEPT ![p] = c] /\ succeeded' = [succeeded EXCEPT ![e] = done]
    BY Zenon DEF Commit
  <1>3. e \in Exec /\ proc[p].todo \in SUBSET Action /\ proc[p].todo # {} /\ status \in [Exec -> Status]
    BY <1>1, <1>2 DEF NoneSkipped, AtAction, Typed, ProcRecord
  <1>4. a \in proc[p].todo /\ a \in Action /\ \A b \in proc[p].todo : a <= b
    BY <1>3, CurrentIsFirst
  <1>5. Resumable(e)
    BY <1>3 DEF NestInv
  <1>6. payload \in Payload /\ done \in SUBSET Action /\ todo \in SUBSET Action
    BY <1>1, <1>3, <1>4, TypesLen DEF Enriched, Payload, Action, ProcRecord, Typed
  <1>7. Action \ proc[p].todo \subseteq succeeded[e]
    BY <1>1, <1>2 DEF NoneSkipped, InLoop
  <1>8. ASSUME ~zombie[e]
        PROVE  /\ todo = Action \ done /\ payload = LastAnswer(done)
               /\ \E k \in 0..Len(Types) : done = 1..k
    <2>1. proc[p].todo = Action \ succeeded[e] /\ proc[p].payload = output[e]
      BY <1>1, <1>2, <1>8 DEF Agrees, InLoop
    <2>2. PICK k \in 0..Len(Types) : succeeded[e] = 1..k
      BY <1>5, <1>8 DEF Resumable
    <2>3. output[e] = LastAnswer(1..k)
      BY <1>5, <1>8, <2>2 DEF Resumable
    <2> HIDE DEF a
    <2>4. a = k + 1 /\ k \in Nat /\ k + 1 \in 0..Len(Types)
      <3>1. proc[p].todo = {b \in 1..Len(Types) : b > k} /\ k \in Nat /\ Len(Types) \in Nat
        BY <2>1, <2>2, TypesLen DEF Action
      <3>2. a \in 1..Len(Types) /\ a > k
        BY <1>4, <3>1
      <3>3. k + 1 \in proc[p].todo
        BY <3>1, <3>2
      <3>4. a <= k + 1
        BY <1>4, <3>3
      <3> QED
        BY <3>1, <3>2, <3>4
    <2>5. done = 1..(k + 1)
      BY <2>2, <2>4
    <2>6. payload = LastAnswer(done)
      BY <2>1, <2>3, <2>4, <2>5, NextAnswer DEF Enriched
    <2> QED
      BY <2>1, <2>4, <2>5, <2>6
  <1> HIDE DEF payload, done, todo
  <1>9. c \in ProcRecord
    BY <1>1, <1>6 DEF ProcRecord, Place
  <1>10. c.pc = "loop" /\ c.exec = e /\ c.todo = todo /\ c.payload = payload
    BY <1>1 DEF ProcRecord, Of
  <1>11. Action \ todo \subseteq done /\ succeeded[e] \subseteq done
    BY <1>4, <1>7 DEF todo, done
  <1> HIDE DEF c
  <1> QED
    BY <1>2, <1>2a, <1>3, <1>6, <1>8, <1>9, <1>10, <1>11, WritesInv

LEMMA WriteSucceededInv ==
  ASSUME NestInv, NEW p \in Proc, WriteSucceeded(p) PROVE NestInv'
  <1> DEFINE e == Of(p)
             c == [proc[p] EXCEPT !.pc = "returned"]
             payload == proc[p].payload
             done == succeeded[e]
  <1>1. Typed /\ NoneSkipped(p) /\ Agrees(p) /\ proc[p] \in ProcRecord
    BY DEF NestInv, Typed
  <1>2. /\ proc[p].pc = "loop" /\ proc[p].todo = {} /\ UNCHANGED <<zombie, enqueue, job, succeeded>>
        /\ status' = [status EXCEPT ![e] = "SUCCEEDED"] /\ output' = [output EXCEPT ![e] = payload]
        /\ proc' = [proc EXCEPT ![p] = c]
    BY DEF WriteSucceeded, Goto
  <1>3. e \in Exec /\ done \in SUBSET Action /\ payload \in Payload /\ status \in [Exec -> Status]
    BY <1>1, <1>2 DEF NoneSkipped, Typed, ProcRecord
  <1>4. done = Action
    BY <1>1, <1>2, <1>3 DEF NoneSkipped, InLoop
  <1>5. status' \in [Exec -> Status] /\ \A f \in Exec : status'[f] = "SUCCEEDED" => status[f] = "SUCCEEDED" \/ f = e
    BY <1>2, <1>3 DEF Status
  <1>6. Resumable(e)
    BY <1>3 DEF NestInv
  <1>7. ~zombie[e] => payload = LastAnswer(done) /\ \E k \in 0..Len(Types) : done = 1..k
    BY <1>1, <1>2, <1>6 DEF Agrees, InLoop, Resumable
  <1>8. c \in ProcRecord /\ c.pc = "returned" /\ c.exec = e
    BY <1>1 DEF ProcRecord, Place, Of
  <1>9. succeeded' = [succeeded EXCEPT ![e] = done]
    BY <1>1, <1>2, <1>3 DEF Typed
  <1> HIDE DEF c, done, payload
  <1> QED
    BY <1>2, <1>3, <1>4, <1>5, <1>7, <1>8, <1>9, WritesInv DEF done

LEMMA StepInv == NestInv /\ [Next]_vars => NestInv'
  <1> SUFFICES ASSUME NestInv, [Next]_vars PROVE NestInv'
    OBVIOUS
  <1>1. ASSUME NEW e \in Exec,
               \/ Listener(e) \/ Promote(e) \/ Stall(e) \/ OnFailed(e) \/ OnFailedLost(e)
               \/ CancelFinds(e) \/ Cancelling(e) \/ RetryFinds(e) \/ Retrying(e)
        PROVE  NestInv'
    BY <1>1, OthersInv
  <1>2. ASSUME NEW p \in Proc, (\E e \in Exec : Take(p, e)) \/ Processing(p) \/ CallRejects(p) \/ Die(p)
        PROVE  NestInv'
    BY <1>2, MovesInv, LeavesInv, ReadsInv, CommitInv, WriteSucceededInv DEF Processing
  <1>3. CASE UNCHANGED vars
    <2>1. Typed' /\ \A e \in Exec : EnqueuedOnce(e)'
      BY <1>3 DEF NestInv, Typed, EnqueuedOnce
    <2> QED
      BY <1>3, <2>1, OthersKeepInv
  <1> QED
    BY <1>1, <1>2, <1>3 DEF Next

----------------------------------------------------------------------------
(* The row and the job *)

\* Until an owner cancels, a living processor loses its lock or a write comes late:
\* the row of a completed job says SUCCEEDED from before it is, and that of a dead
\* one FAILED once onFailed is done with it.
FollowsJob(e) ==
  cancel[e] = "none" /\ ~late[e] /\ ~zombie[e] =>
    /\ job[e].state = "completed" => status[e] = "SUCCEEDED"
    /\ job[e].state = "failed" /\ job[e].made >= MaxAttempts /\ hook[e] = "idle" => status[e] = "FAILED"
    /\ \A p \in Proc : Of(p) = e /\ proc[p].pc = "returned" => status[e] = "SUCCEEDED"

HandlersTyped ==
  /\ cancel \in [Exec -> {"none", "found", "written", "done"}]
  /\ hook \in [Exec -> {"idle", "read", "write", "lost"}] /\ late \in [Exec -> BOOLEAN]

JobInv == HandlersTyped /\ \A e \in Exec : FollowsJob(e)

\* A run that a step has nothing to do with.
LEMMA JobFrame ==
  ASSUME NEW e, FollowsJob(e), status'[e] = status[e], job'[e] = job[e], hook'[e] = hook[e],
         cancel'[e] = cancel[e], late'[e] = late[e], zombie'[e] = zombie[e],
         \A p \in Proc : Of(p)' = e /\ proc'[p].pc = "returned" => Of(p) = e /\ proc[p].pc = "returned"
  PROVE  FollowsJob(e)'
  BY DEF FollowsJob

\* The listener, the queue, the hook, the owner and the operator.
LEMMA OthersFollow ==
  ASSUME NestInv, NestInv', JobInv, NEW e \in Exec,
         \/ Listener(e) \/ Promote(e) \/ Stall(e) \/ OnFailed(e) \/ OnFailedLost(e)
         \/ CancelFinds(e) \/ Cancelling(e) \/ RetryFinds(e) \/ Retrying(e)
  PROVE  JobInv'
  <1> USE DEF Fault
  <1>0. Typed /\ HandlersTyped /\ EnqueuedOnce(e) /\ \A f \in Exec : FollowsJob(f)
    BY DEF NestInv, JobInv
  <1>1. proc' = proc /\ \A p \in Proc : Of(p)' = Of(p)
    BY DEF Listener, CreateRun, Enqueue, EnqueueLost, Promote, Stall, OnFailed, OnFailedFinds, OnFailedWrites,
           OnFailedLost, CancelFinds, Cancelling, CancelWrites, CancelRemoves, RetryFinds, Retrying, RetryMoves,
           RetryWrites, Of
  <1>2. HandlersTyped' /\ \A f \in Exec : f # e => hook'[f] = hook[f] /\ cancel'[f] = cancel[f] /\ late'[f] = late[f]
    <2>1. \/ hook' = hook \/ \E to \in {"idle", "read", "write", "lost"} : hook' = [hook EXCEPT ![e] = to]
      BY DEF Listener, CreateRun, Enqueue, EnqueueLost, Promote, Stall, OnFailed, OnFailedFinds, OnFailedWrites,
             OnFailedLost, CancelFinds, Cancelling, CancelWrites, CancelRemoves, RetryFinds, Retrying, RetryMoves,
             RetryWrites
    <2>2. \/ cancel' = cancel \/ \E to \in {"found", "written", "done"} : cancel' = [cancel EXCEPT ![e] = to]
      BY DEF Listener, CreateRun, Enqueue, EnqueueLost, Promote, Stall, OnFailed, OnFailedFinds, OnFailedWrites,
             OnFailedLost, CancelFinds, Cancelling, CancelWrites, CancelRemoves, RetryFinds, Retrying, RetryMoves,
             RetryWrites
    <2>3. \/ late' = late \/ \E to \in BOOLEAN : late' = [late EXCEPT ![e] = to]
      BY <1>0 DEF Listener, CreateRun, Enqueue, EnqueueLost, Promote, Stall, OnFailed, OnFailedFinds, OnFailedWrites,
             OnFailedLost, CancelFinds, Cancelling, CancelWrites, CancelRemoves, RetryFinds, Retrying, RetryMoves,
             RetryWrites, HandlersTyped
    <2> QED
      BY <1>0, <2>1, <2>2, <2>3 DEF HandlersTyped
  <1>3. \A f \in Exec : f # e => status'[f] = status[f] /\ job'[f] = job[f] /\ zombie'[f] = zombie[f]
    BY <1>0 DEF Typed, Listener, CreateRun, Enqueue, EnqueueLost, Promote, Stall, OnFailed, OnFailedFinds, OnFailedWrites,
           OnFailedLost, CancelFinds, Cancelling, CancelWrites, CancelRemoves, RetryFinds, Retrying, RetryMoves,
           RetryWrites
  <1>4. \A f \in Exec : f # e => FollowsJob(f)'
    BY <1>0, <1>1, <1>2, <1>3, JobFrame
  <1>5. FollowsJob(e)'
    <2>1. CASE CreateRun(e) \/ EnqueueLost(e)
      <3>1. job'[e] = job[e] /\ job[e].state = "absent"
        BY <1>0, <2>1 DEF CreateRun, EnqueueLost, EnqueuedOnce
      <3>2. ASSUME NEW p \in Proc, Of(p) = e, proc[p].pc = "returned", ~zombie[e] PROVE FALSE
        BY <3>1, <3>2 DEF NestInv, Locked
      <3>3. zombie' = zombie
        BY <2>1 DEF CreateRun, EnqueueLost
      <3> QED
        BY <1>1, <3>1, <3>2, <3>3 DEF FollowsJob
    <2>2. CASE Enqueue(e) \/ Promote(e) \/ RetryMoves(e)
      <3>1. /\ UNCHANGED <<status, cancel, late, zombie, hook>>
            /\ job' = job \/ job'[e].state = "waiting"
        BY <1>0, <2>2, StateChange DEF Enqueue, Promote, RetryMoves, JobState
      <3> QED
        BY <1>0, <1>1, <3>1 DEF FollowsJob
    <2>3. CASE Stall(e)
      <3>1. UNCHANGED <<status, cancel, late>> /\ (zombie[e] => zombie'[e]) /\ hook'[e] \in {hook[e], "idle", "read"}
        BY <1>0, <2>3 DEF Stall, Typed, HandlersTyped
      <3>2. job'[e].state \in {"waiting", "failed"} /\ job'[e].made \in Nat
        BY <1>0, <2>3, StallChange DEF JobRecord
      <3>3. job'[e].state = "failed" /\ job'[e].made >= MaxAttempts => hook'[e] = "read"
        <4>1. CASE job' = [job EXCEPT ![e].state = "waiting", ![e].stalls = @ + 1, ![e].owner = Nobody]
          BY <1>0, <4>1 DEF Typed, JobRecord
        <4>2. ASSUME NEW made \in {job[e].made, job[e].made + 1},
                     job' = [job EXCEPT ![e].state = "failed", ![e].made = made, ![e].owner = Nobody],
                     hook' = [hook EXCEPT ![e] = IF made < MaxAttempts THEN "idle" ELSE "read"]
              PROVE  job'[e].made >= MaxAttempts => hook'[e] = "read"
          BY <1>0, <4>2 DEF Typed, JobRecord, HandlersTyped
        <4> QED
          BY <2>3, <4>1, <4>2, Zenon DEF Stall
      <3> QED
        BY <1>0, <1>1, <3>1, <3>2, <3>3 DEF FollowsJob
    <2>4. CASE OnFailed(e) \/ OnFailedLost(e)
      <3>1. UNCHANGED <<job, cancel, zombie>> /\ \A q \in Proc : Locked(q)
        BY <2>4 DEF OnFailed, OnFailedFinds, OnFailedWrites, OnFailedLost, NestInv
      <3>2. \/ status' = status /\ late' = late /\ hook'[e] \in {"write", "lost"}
            \/ status' = status /\ late' = late /\ hook'[e] = "idle" /\ status[e] = "FAILED"
            \/ status'[e] = "FAILED" /\ late'[e] = (late[e] \/ job[e].state # "failed")
        BY <1>0, <2>4 DEF OnFailed, OnFailedFinds, OnFailedWrites, OnFailedLost, Typed, HandlersTyped
      <3>3. CASE status'[e] = "FAILED" /\ late'[e] = (late[e] \/ job[e].state # "failed")
        BY <1>1, <3>1, <3>3 DEF FollowsJob, Locked
      <3>4. CASE status' = status /\ late' = late /\ (hook'[e] \in {"write", "lost"} \/ status[e] = "FAILED")
        BY <1>0, <1>1, <3>1, <3>4 DEF FollowsJob
      <3> QED
        BY <3>2, <3>3, <3>4
    <2>5. CASE CancelFinds(e) \/ Cancelling(e)
      <3>1. cancel'[e] # "none"
        BY <1>0, <2>5 DEF CancelFinds, Cancelling, CancelWrites, CancelRemoves, HandlersTyped
      <3> QED
        BY <3>1 DEF FollowsJob
    <2>6. CASE RetryFinds(e) \/ RetryWrites(e)
      <3>1. UNCHANGED <<job, cancel, zombie, hook>> /\ \A q \in Proc : Locked(q)
        BY <2>6 DEF RetryFinds, RetryWrites, NestInv
      <3>2. (status' = status /\ late' = late) \/ late'[e] = (late[e] \/ job[e].state # "waiting")
        BY <1>0, <2>6 DEF RetryFinds, RetryWrites, HandlersTyped
      <3>3. CASE late'[e] = (late[e] \/ job[e].state # "waiting")
        BY <1>1, <3>1, <3>3 DEF FollowsJob, Locked
      <3>4. CASE status' = status /\ late' = late
        BY <1>0, <1>1, <3>1, <3>4 DEF FollowsJob
      <3> QED
        BY <3>2, <3>3, <3>4
    <2> QED
      BY <2>1, <2>2, <2>3, <2>4, <2>5, <2>6 DEF Listener, Retrying
  <1> QED
    BY <1>2, <1>4, <1>5 DEF JobInv

\* A processor: while it holds the lock, nobody else's write is in time.
LEMMA ProcessorsFollow ==
  ASSUME NestInv, NestInv', JobInv, NEW p \in Proc,
         (\E e \in Exec : Take(p, e)) \/ Processing(p) \/ CallRejects(p) \/ Die(p)
  PROVE  JobInv'
  <1> USE DEF Fault
  <1>0. Typed /\ HandlersTyped /\ (\A f \in Exec : FollowsJob(f)) /\ NoneSkipped(p) /\ Locked(p) /\ p # Nobody
    BY DEF NestInv, JobInv
  <1>1. UNCHANGED <<cancel, late, zombie>> /\ HandlersTyped' /\ \A q \in Proc : q # p => proc'[q] = proc[q] /\ Of(q)' = Of(q)
    BY <1>0, ZenonT(60) DEF Typed, HandlersTyped, Take, Processing, FindExecution, WriteRunning, FindSucceeded, CreateStep, Execute, Commit,
           StepFails, WriteSucceeded, WriteFailed, Complete, FailAttempt, CallRejects, Die, Goto, Of
  <1>2. CASE Die(p) \/ \E e \in Exec : Take(p, e)
    <2>1. /\ UNCHANGED <<status, hook>> /\ proc'[p].pc # "returned"
          /\ \A e \in Exec : \/ job'[e].state = job[e].state /\ job'[e].made = job[e].made
                             \/ job'[e].state = "active"
      <3>1. CASE Die(p)
        BY <1>0, <3>1 DEF Die, Typed, JobRecord, Idle
      <3>2. ASSUME NEW e \in Exec, Take(p, e)
            PROVE  /\ UNCHANGED <<status, hook>> /\ proc'[p].pc = "find"
                   /\ job'[e].state = "active" /\ \A f \in Exec : f # e => job'[f] = job[f]
        BY <1>0, <3>2, ZenonT(60) DEF Take, Typed, JobRecord, Idle
      <3> QED
        BY <1>2, <3>1, <3>2
    <2> QED
      BY <1>0, <1>1, <2>1 DEF JobInv, FollowsJob
  <1>4. CASE Processing(p) \/ CallRejects(p)
    <2>1. PICK e \in Exec : e = Of(p) /\ proc[p].pc # "idle"
      BY <1>0, <1>4 DEF NoneSkipped, Processing, FindExecution, WriteRunning, FindSucceeded, CreateStep, Execute, Commit,
             StepFails, WriteSucceeded, WriteFailed, Complete, FailAttempt, CallRejects
    <2>2. \A f \in Exec : f # e => status'[f] = status[f] /\ job'[f] = job[f] /\ hook'[f] = hook[f]
      BY <1>0, <1>4, <2>1 DEF Typed, HandlersTyped, Processing, FindExecution, WriteRunning, FindSucceeded, CreateStep, Execute, Commit,
           StepFails, WriteSucceeded, WriteFailed, Complete, FailAttempt, CallRejects
    <2>3. proc'[p].pc = "returned" => Of(p)' = e /\ status'[e] = "SUCCEEDED" /\ job' = job
      <3>1. CASE WriteSucceeded(p)
        BY <1>0, <2>1, <3>1 DEF WriteSucceeded, Typed, ProcRecord, Goto, Of
      <3>2. CASE Execute(p)
        <4>1. \E to \in {"ok", "bad"} : Goto(p, to)
          <5>1. Current(p) \in Action
            BY <1>0, <3>2, CurrentIsFirst DEF Execute, NoneSkipped, AtAction, Typed, ProcRecord
          <5>2. Results(Types[Current(p)]) \subseteq {"ok", "bad"}
            BY <5>1, TypesLen DEF Results, ActionType, HttpRequest, SendEmail, TelegramNotify, LogMessage, Delay
          <5> QED
            BY <3>2, <5>2 DEF Execute
        <4>2. proc'[p].pc # "returned"
          BY <1>0, <4>1 DEF Typed, Goto
        <4> QED
          BY <4>2
      <3>3. CASE Complete(p) \/ FailAttempt(p)
        BY <1>0, <3>3 DEF Complete, FailAttempt, Idle, Typed
      <3>4. CASE \/ FindExecution(p) \/ WriteRunning(p) \/ FindSucceeded(p) \/ CreateStep(p)
                 \/ Commit(p) \/ StepFails(p) \/ WriteFailed(p) \/ CallRejects(p)
        <4>1. CASE FindExecution(p) \/ FindSucceeded(p) \/ Commit(p)
          <5>1. ASSUME NEW c, NEW to \in {"found", "loop"}, c.pc = to, proc' = [proc EXCEPT ![p] = c]
                PROVE  proc'[p].pc # "returned"
            BY <1>0, <5>1 DEF Typed
          <5>2. CASE FindExecution(p)
            <6> DEFINE c == [proc[p] EXCEPT !.pc = "found", !.read = output[Of(p)]]
            <6>1. proc' = [proc EXCEPT ![p] = c]
              BY <5>2, Zenon DEF FindExecution
            <6>2. c.pc = "found"
              BY <1>0 DEF Typed, ProcRecord
            <6> HIDE DEF c
            <6> QED
              BY <5>1, <6>1, <6>2
          <5>3. CASE FindSucceeded(p)
            <6> DEFINE done == succeeded[Of(p)]
                       n == IF done # {} THEN proc[p].read ELSE 0
                       todo == Action \ done
                       c == [proc[p] EXCEPT !.pc = "loop", !.todo = todo, !.read = 0, !.payload = n]
            <6>1. proc' = [proc EXCEPT ![p] = c]
              BY <5>3, Zenon DEF FindSucceeded
            <6> HIDE DEF n, todo
            <6>2. c.pc = "loop"
              BY <1>0 DEF Typed, ProcRecord
            <6> HIDE DEF c
            <6> QED
              BY <5>1, <6>1, <6>2
          <5>4. CASE Commit(p)
            <6> DEFINE todo == proc[p].todo \ {Current(p)}
                       n == Enriched(p, Current(p))
                       c == [proc[p] EXCEPT !.pc = "loop", !.todo = todo, !.payload = n]
            <6>1. proc' = [proc EXCEPT ![p] = c]
              BY <5>4, Zenon DEF Commit
            <6> HIDE DEF n, todo
            <6>2. c.pc = "loop"
              BY <1>0 DEF Typed, ProcRecord
            <6> HIDE DEF c
            <6> QED
              BY <5>1, <6>1, <6>2
          <5> QED
            BY <4>1, <5>2, <5>3, <5>4
        <4>2. CASE WriteRunning(p) \/ CreateStep(p) \/ StepFails(p) \/ WriteFailed(p) \/ CallRejects(p)
          <5>1. \E to \in {"running", "step", "failing", "threw"} : Goto(p, to)
            BY <4>2 DEF WriteRunning, CreateStep, StepFails, WriteFailed, CallRejects
          <5>2. proc'[p].pc # "returned"
            BY <1>0, <5>1 DEF Typed, Goto
          <5> QED
            BY <5>2
        <4> QED
          BY <3>4, <4>1, <4>2
      <3> QED
        BY <1>4, <3>1, <3>2, <3>3, <3>4 DEF Processing
    <2>4. \A f \in Exec : f # e => FollowsJob(f)'
      BY <1>0, <1>1, <2>2, <2>3, JobFrame
    <2>5. FollowsJob(e)'
      <3> SUFFICES ASSUME ~zombie[e], ~late[e], cancel[e] = "none" PROVE FollowsJob(e)'
        BY <1>1 DEF FollowsJob
      <3>1. job[e].state = "active" /\ job[e].owner = p
        BY <1>0, <2>1 DEF Locked
      <3>2. \A q \in Proc : q # p /\ proc'[q].pc # "idle" => Of(q)' # e
        BY <1>1, <2>1, Alone
      <3>3. CASE Complete(p)
        <4>1. proc[p].pc = "returned" /\ status' = status /\ hook' = hook /\ proc'[p].pc = "idle"
              /\ job' = [job EXCEPT ![e].state = "completed", ![e].owner = Nobody]
          BY <1>0, <2>1, <3>1, <3>3 DEF Complete, Typed, Idle
        <4>2. job'[e].state = "completed" /\ status[e] = "SUCCEEDED"
          BY <1>0, <2>1, <4>1, SMTT(30) DEF FollowsJob, Typed, JobRecord
        <4> QED
          BY <3>2, <4>1, <4>2 DEF FollowsJob
      <3>4. CASE FailAttempt(p)
        <4>1. proc'[p].pc = "idle"
          BY <1>0, <3>4 DEF FailAttempt, Typed, Idle
        <4>2. job'[e].state = "delayed" \/ (job'[e].state = "failed" /\ hook'[e] = "read")
          <5> DEFINE made == job[e].made + 1
                     to == IF made >= MaxAttempts THEN "failed" ELSE "delayed"
                     n == IF made >= MaxAttempts THEN MaxAttempts ELSE made
          <5>1. job' = [job EXCEPT ![e] = [job[e] EXCEPT !.state = to, !.made = n, !.owner = Nobody]]
            BY <2>1, <3>1, <3>4, Zenon DEF FailAttempt
          <5>2. hook' = IF made >= MaxAttempts THEN [hook EXCEPT ![e] = "read"] ELSE hook
            BY <2>1, <3>1, <3>4, Zenon DEF FailAttempt
          <5>3. to = "delayed" \/ (to = "failed" /\ hook'[e] = "read")
            BY <1>0, <5>2 DEF HandlersTyped
          <5> HIDE DEF to, n, made
          <5>4. job'[e].state = to
            BY <1>0, <5>1 DEF Typed, JobRecord
          <5> QED
            BY <5>3, <5>4
        <4> QED
          BY <3>2, <4>1, <4>2 DEF FollowsJob
      <3>5. CASE ~Complete(p) /\ ~FailAttempt(p)
        <4>1. job' = job
          BY <1>4, <3>5 DEF Processing, FindExecution, WriteRunning, FindSucceeded, CreateStep, Execute, Commit,
                 StepFails, WriteSucceeded, WriteFailed, CallRejects
        <4> QED
          BY <2>3, <3>1, <3>2, <4>1 DEF FollowsJob
      <3> QED
        BY <3>3, <3>4, <3>5
    <2> QED
      BY <1>1, <2>4, <2>5 DEF JobInv
  <1> QED
    BY <1>2, <1>4

LEMMA JobStep == NestInv /\ NestInv' /\ JobInv /\ [Next]_vars => JobInv'
  <1> SUFFICES ASSUME NestInv, NestInv', JobInv, [Next]_vars PROVE JobInv'
    OBVIOUS
  <1>1. CASE UNCHANGED vars
    BY <1>1 DEF JobInv, HandlersTyped, FollowsJob, Of
  <1> QED
    BY <1>1, OthersFollow, ProcessorsFollow DEF Next

----------------------------------------------------------------------------
(* Theorems *)

\* What processors, queue, hook and handlers leave after any step is in the
\* invariant (workflow.processor.ts process, onFailed; executions.service.ts
\* cancel; admin.controller.ts retryFailedJob).
THEOREM NestInvariant == Spec => []NestInv
  BY InitInv, StepInv, PTL DEF Spec

\* A run that says SUCCEEDED has a SUCCEEDED row for every action, though nobody's
\* write looks at what another wrote: not even processors that lost their lock
\* (workflow.processor.ts process).
THEOREM NestSuccessIsComplete == Spec => []SucceededRanEverything
  <1>1. NestInv => SucceededRanEverything
    BY DEF NestInv
  <1> QED
    BY <1>1, NestInvariant, PTL

\* From the loop only the row of the next step leads to that step.
LEMMA EntersStep ==
  ASSUME NestInv, Next, NEW p \in Proc, proc[p].pc = "loop", proc'[p].pc = "step"
  PROVE  proc[p].todo # {}
  <1>1. proc \in [Proc -> ProcRecord]
    BY DEF NestInv, Typed
  <1>2. ASSUME NEW q \in Proc, q # p,
               (\E e \in Exec : Take(q, e)) \/ Processing(q) \/ CallRejects(q) \/ Die(q)
        PROVE  FALSE
    <2>1. proc'[p] = proc[p]
      BY <1>1, <1>2 DEF Take, Processing, FindExecution, WriteRunning, FindSucceeded, CreateStep, Execute, Commit,
             StepFails, WriteSucceeded, WriteFailed, Complete, FailAttempt, CallRejects, Die, Goto
    <2> QED
      BY <2>1
  <1>3. ASSUME NEW e \in Exec,
               \/ Listener(e) \/ Promote(e) \/ Stall(e) \/ OnFailed(e) \/ OnFailedLost(e)
               \/ CancelFinds(e) \/ Cancelling(e) \/ RetryFinds(e) \/ Retrying(e)
        PROVE  FALSE
    <2>1. proc' = proc
      BY <1>3 DEF Listener, CreateRun, Enqueue, EnqueueLost, Promote, Stall, OnFailed, OnFailedFinds, OnFailedWrites,
             OnFailedLost, CancelFinds, Cancelling, CancelWrites, CancelRemoves, RetryFinds, Retrying, RetryMoves, RetryWrites
    <2> QED
      BY <2>1
  <1>4. CASE WriteSucceeded(p) \/ CallRejects(p) \/ Die(p)
    <2>1. proc'[p].pc \in {"returned", "threw", "idle"}
      BY <1>1, <1>4 DEF WriteSucceeded, CallRejects, Die, Goto, Idle, ProcRecord
    <2> QED
      BY <2>1
  <1>5. CASE CreateStep(p)
    BY <1>5 DEF CreateStep
  <1>6. \/ \E q \in Proc : q # p /\ ((\E e \in Exec : Take(q, e)) \/ Processing(q) \/ CallRejects(q) \/ Die(q))
        \/ (\E e \in Exec : Take(p, e)) \/ Processing(p) \/ CallRejects(p) \/ Die(p)
    BY <1>3 DEF Next
  <1>7. CASE (\E e \in Exec : Take(p, e)) \/ Processing(p)
    BY <1>4, <1>5, <1>7 DEF Take, Processing, FindExecution, WriteRunning, FindSucceeded, Execute, Commit,
           StepFails, WriteFailed, Complete, FailAttempt
  <1> QED
    BY <1>2, <1>4, <1>6, <1>7

\* "A retry resumes after the steps that already succeeded": while no lock was
\* lost by a processor that lives, the action that begins is the first without a
\* SUCCEEDED row, and it is given the last answer before it, for any workflow and
\* any number of attempts (workflow.processor.ts process).
THEOREM RetryResumes == Spec => ResumesWhereItStopped
  <1>1. NestInv /\ [Next]_vars =>
          [\A p \in Proc :
             (proc[p].pc = "loop" /\ proc'[p].pc = "step" /\ ~zombie[Of(p)])
               => /\ succeeded[Of(p)] = 1..(Current(p) - 1)
                  /\ proc[p].payload = Max({0} \cup {a \in succeeded[Of(p)] : Types[a] = "HTTP_REQUEST"})]_vars
    <2> SUFFICES ASSUME NestInv, [Next]_vars, NEW p \in Proc,
                        proc[p].pc = "loop", proc'[p].pc = "step", ~zombie[Of(p)]
                 PROVE  /\ succeeded[Of(p)] = 1..(Current(p) - 1)
                        /\ proc[p].payload = Max({0} \cup {a \in succeeded[Of(p)] : Types[a] = "HTTP_REQUEST"})
      OBVIOUS
    <2>1. proc' # proc /\ Next
      OBVIOUS
    <2>2. proc[p].todo # {} /\ proc[p].todo \in SUBSET Action
      BY <2>1, EntersStep DEF NestInv, Typed, ProcRecord
    <2>3. Of(p) \in Exec /\ proc[p].todo = Action \ succeeded[Of(p)] /\ proc[p].payload = output[Of(p)]
      BY DEF NestInv, NoneSkipped, Agrees, InLoop
    <2>4. PICK k \in 0..Len(Types) : succeeded[Of(p)] = 1..k /\ Current(p) = k + 1
      BY <2>2, NextAction DEF InLoop
    <2>5. output[Of(p)] = LastAnswer(succeeded[Of(p)])
      BY <2>3 DEF NestInv, Resumable
    <2>7. Current(p) - 1 = k
      BY <2>4
    <2> QED
      BY <2>3, <2>4, <2>5, <2>7 DEF LastAnswer
  <1> QED
    BY <1>1, NestInvariant, PTL DEF Spec, ResumesWhereItStopped

\* What the queue and the row say of a run agree when nobody works on it, for any
\* number of executions, processors, attempts, stalls, retries and faults
\* (workflow.processor.ts process, onFailed; admin.controller.ts retryFailedJob).
THEOREM RowAndJobAgree == Spec => []RowFollowsJob
  <1>1. Init => JobInv
    BY DEF Init, JobInv, HandlersTyped, FollowsJob, Idle
  <1>2. JobInv => RowFollowsJob
    BY DEF JobInv, HandlersTyped, FollowsJob, RowFollowsJob, Quiet
  <1> QED
    BY <1>1, <1>2, JobStep, NestInvariant, PTL DEF Spec

----------------------------------------------------------------------------
(* The life of a queued run *)

\* A processor between its RUNNING and its last status.
Works(p) == proc[p].pc \in {"running", "loop", "step", "ok", "bad", "failing"}

\* Nobody but its listener knows of a run that is not in the queue. Of an undisturbed
\* run the row says RUNNING while a processor works on it, as who else writes is late.
InLife(e) ==
  /\ enqueue[e] # "done" => hook[e] = "idle" /\ retry[e] = "idle"
  /\ e \notin Disturbed =>
       /\ status[e] # "CANCELLED" /\ (status[e] = "NONE" <=> enqueue[e] = "none")
       /\ \A p \in Proc : Of(p) = e /\ Works(p) => status[e] = "RUNNING"

LifeInv == retry \in [Exec -> {"idle", "found", "moved"}] /\ \A e \in Exec : InLife(e)

\* A run that a step has nothing to do with.
LEMMA LifeFrame ==
  ASSUME NEW e, InLife(e), status'[e] = status[e], enqueue'[e] = enqueue[e], hook'[e] = hook[e],
         retry'[e] = retry[e], e \in Disturbed => e \in Disturbed',
         \A p \in Proc : Of(p)' = e /\ Works(p)' => Of(p) = e /\ Works(p)
  PROVE  InLife(e)'
  BY DEF InLife

\* A run once disturbed is disturbed for good.
LEMMA DisturbedGrows ==
  ASSUME Typed, HandlersTyped, Next
  PROVE  \/ Disturbed' = Disturbed /\ UNCHANGED <<cancel, zombie, late>>
         \/ \E e \in Exec : /\ Disturbed \subseteq Disturbed' /\ Disturbed' \subseteq Disturbed \cup {e}
                            /\ \/ Stall(e) \/ OnFailed(e) \/ OnFailedLost(e) \/ CancelFinds(e)
                               \/ Cancelling(e) \/ RetryFinds(e) \/ Retrying(e)
  <1>1. ASSUME NEW e \in Exec, Listener(e) \/ Promote(e) PROVE UNCHANGED <<cancel, zombie, late>>
    BY <1>1 DEF Listener, CreateRun, Enqueue, EnqueueLost, Promote
  <1>2. ASSUME NEW p \in Proc, (\E e \in Exec : Take(p, e)) \/ Processing(p) \/ CallRejects(p) \/ Die(p)
        PROVE  UNCHANGED <<cancel, zombie, late>>
    BY <1>2 DEF Take, Processing, FindExecution, WriteRunning, FindSucceeded, CreateStep, Execute, Commit,
           StepFails, WriteSucceeded, WriteFailed, Complete, FailAttempt, CallRejects, Die
  <1>3. ASSUME NEW e \in Exec,
               \/ Stall(e) \/ OnFailed(e) \/ OnFailedLost(e) \/ CancelFinds(e)
               \/ Cancelling(e) \/ RetryFinds(e) \/ Retrying(e)
        PROVE  Disturbed \subseteq Disturbed' /\ Disturbed' \subseteq Disturbed \cup {e}
    <2>1. /\ \A f \in Exec : f # e => zombie'[f] = zombie[f] /\ late'[f] = late[f] /\ cancel'[f] = cancel[f]
          /\ zombie[e] => zombie'[e]
          /\ late[e] => late'[e]
      BY <1>3 DEF Typed, HandlersTyped, Stall, OnFailed, OnFailedFinds, OnFailedWrites, OnFailedLost, CancelFinds,
             Cancelling, CancelWrites, CancelRemoves, RetryFinds, Retrying, RetryMoves, RetryWrites
    <2>2. cancel[e] \in {"written", "done"} => cancel'[e] \in {"written", "done"}
      BY <1>3 DEF HandlersTyped, Stall, OnFailed, OnFailedFinds, OnFailedWrites, OnFailedLost, CancelFinds,
             Cancelling, CancelWrites, CancelRemoves, RetryFinds, Retrying, RetryMoves, RetryWrites
    <2> QED
      BY <2>1, <2>2 DEF Disturbed
  <1>4. UNCHANGED <<cancel, zombie, late>> => Disturbed' = Disturbed
    BY DEF Disturbed
  <1> QED
    BY <1>1, <1>2, <1>3, <1>4 DEF Next

\* The listener, the queue, the hook, the owner and the operator.
LEMMA OthersLive ==
  ASSUME NestInv, JobInv, LifeInv, Next, NEW e \in Exec,
         \/ Listener(e) \/ Promote(e) \/ Stall(e) \/ OnFailed(e) \/ OnFailedLost(e)
         \/ CancelFinds(e) \/ Cancelling(e) \/ RetryFinds(e) \/ Retrying(e)
  PROVE  LifeInv'
  <1>0. Typed /\ HandlersTyped /\ EnqueuedOnce(e) /\ InLife(e) /\ retry \in [Exec -> {"idle", "found", "moved"}]
    BY DEF NestInv, JobInv, LifeInv
  <1>1. proc' = proc /\ \A p \in Proc : Of(p)' = Of(p) /\ Works(p)' = Works(p)
    BY DEF Listener, CreateRun, Enqueue, EnqueueLost, Promote, Stall, OnFailed, OnFailedFinds, OnFailedWrites,
           OnFailedLost, CancelFinds, Cancelling, CancelWrites, CancelRemoves, RetryFinds, Retrying, RetryMoves,
           RetryWrites, Of, Works
  <1>2. /\ retry' \in [Exec -> {"idle", "found", "moved"}]
        /\ \A f \in Exec : f # e => retry'[f] = retry[f] /\ hook'[f] = hook[f]
    <2>1. retry' = retry \/ \E to \in {"idle", "found", "moved"} : retry' = [retry EXCEPT ![e] = to]
      BY DEF Listener, CreateRun, Enqueue, EnqueueLost, Promote, Stall, OnFailed, OnFailedFinds, OnFailedWrites,
             OnFailedLost, CancelFinds, Cancelling, CancelWrites, CancelRemoves, RetryFinds, Retrying, RetryMoves,
             RetryWrites
    <2>2. hook' = hook \/ \E to \in {"idle", "read", "write", "lost"} : hook' = [hook EXCEPT ![e] = to]
      BY DEF Listener, CreateRun, Enqueue, EnqueueLost, Promote, Stall, OnFailed, OnFailedFinds, OnFailedWrites,
             OnFailedLost, CancelFinds, Cancelling, CancelWrites, CancelRemoves, RetryFinds, Retrying, RetryMoves,
             RetryWrites
    <2> QED
      BY <1>0, <2>1, <2>2 DEF HandlersTyped
  <1>3. \A f \in Exec : f # e => status'[f] = status[f] /\ enqueue'[f] = enqueue[f]
    BY <1>0 DEF Typed, Listener, CreateRun, Enqueue, EnqueueLost, Promote, Stall, OnFailed, OnFailedFinds, OnFailedWrites,
           OnFailedLost, CancelFinds, Cancelling, CancelWrites, CancelRemoves, RetryFinds, Retrying, RetryMoves,
           RetryWrites
  <1>4. Disturbed \subseteq Disturbed'
    BY <1>0, DisturbedGrows
  <1>5. \A f \in Exec : f # e => InLife(f)'
    BY <1>1, <1>2, <1>3, <1>4, LifeFrame DEF LifeInv
  \* No processor holds a job that is not active.
  <1>6. ASSUME e \notin Disturbed, NEW p \in Proc, Of(p) = e, Works(p) PROVE job[e].state = "active"
    BY <1>6 DEF NestInv, Locked, Disturbed, Works
  <1>7. InLife(e)'
    <2>1. CASE CreateRun(e)
      <3>1. enqueue[e] = "none" /\ enqueue'[e] = "row" /\ status'[e] = "PENDING" /\ UNCHANGED <<hook, retry>>
        BY <1>0, <2>1 DEF CreateRun, Typed
      <3>2. job[e].state = "absent"
        BY <1>0, <3>1 DEF EnqueuedOnce
      <3> QED
        BY <1>0, <1>1, <1>4, <1>6, <3>1, <3>2 DEF InLife
    <2>2. CASE Enqueue(e) \/ EnqueueLost(e)
      <3>1. enqueue[e] = "row" /\ enqueue'[e] \in {"done", "lost"} /\ UNCHANGED <<status, hook, retry>>
        BY <1>0, <2>2 DEF Enqueue, EnqueueLost, Typed
      <3> QED
        BY <1>0, <1>1, <1>4, <3>1 DEF InLife
    <2>3. CASE Promote(e) \/ Stall(e) \/ RetryFinds(e) \/ RetryMoves(e) \/ CancelFinds(e) \/ CancelRemoves(e)
               \/ OnFailedFinds(e) \/ OnFailedLost(e)
      <3>1. UNCHANGED <<status, enqueue>>
        BY <2>3 DEF Promote, Stall, RetryFinds, RetryMoves, CancelFinds, CancelRemoves, OnFailedFinds, OnFailedLost
      <3>2. (hook' = hook /\ retry' = retry) \/ enqueue[e] = "done"
        <4>1. CASE Stall(e) \/ RetryFinds(e)
          BY <1>0, <4>1 DEF Stall, RetryFinds, EnqueuedOnce
        <4>2. CASE RetryMoves(e) \/ OnFailedFinds(e) \/ OnFailedLost(e)
          BY <1>0, <4>2 DEF RetryMoves, OnFailedFinds, OnFailedLost, InLife
        <4>3. CASE Promote(e) \/ CancelFinds(e) \/ CancelRemoves(e)
          BY <4>3 DEF Promote, CancelFinds, CancelRemoves
        <4> QED
          BY <2>3, <4>1, <4>2, <4>3
      <3> QED
        BY <1>0, <1>1, <1>4, <3>1, <3>2 DEF InLife
    <2>4. CASE CancelWrites(e)
      <3>1. cancel'[e] = "written" /\ UNCHANGED <<enqueue, hook, retry>>
        BY <1>0, <2>4 DEF CancelWrites, HandlersTyped
      <3>2. e \in Disturbed'
        BY <3>1 DEF Disturbed
      <3> QED
        BY <1>0, <3>1, <3>2 DEF InLife
    <2>5. CASE OnFailedWrites(e)
      <3>1. /\ hook[e] = "write" /\ status'[e] = "FAILED" /\ late'[e] = (late[e] \/ job[e].state # "failed")
            /\ UNCHANGED <<enqueue, retry>>
        BY <1>0, <2>5 DEF OnFailedWrites, Typed, HandlersTyped
      <3>2. enqueue[e] = "done"
        BY <1>0, <3>1 DEF InLife
      <3>3. e \notin Disturbed' => job[e].state = "failed"
        BY <3>1 DEF Disturbed
      <3> QED
        BY <1>1, <1>4, <1>6, <3>1, <3>2, <3>3 DEF InLife
    <2>6. CASE RetryWrites(e)
      <3>1. retry[e] = "moved" /\ UNCHANGED <<enqueue, hook>>
        BY <2>6 DEF RetryWrites
      <3>2. enqueue[e] = "done"
        BY <1>0, <3>1 DEF InLife
      <3>3. \/ status' = status
            \/ status'[e] = "PENDING" /\ late'[e] = (late[e] \/ job[e].state # "waiting")
        BY <1>0, <2>6 DEF RetryWrites, Typed, HandlersTyped
      <3>4. CASE status' = status
        BY <1>0, <1>1, <1>4, <3>1, <3>2, <3>4 DEF InLife
      <3>5. CASE status'[e] = "PENDING" /\ late'[e] = (late[e] \/ job[e].state # "waiting")
        <4>1. e \notin Disturbed' => job[e].state = "waiting"
          BY <3>5 DEF Disturbed
        <4> QED
          BY <1>1, <1>4, <1>6, <3>1, <3>2, <3>5, <4>1 DEF InLife
      <3> QED
        BY <3>3, <3>4, <3>5
    <2> QED
      BY <2>1, <2>2, <2>3, <2>4, <2>5, <2>6 DEF Listener, OnFailed, Cancelling, Retrying
  <1> QED
    BY <1>2, <1>5, <1>7 DEF LifeInv

\* Where a step leaves the processor that makes it.
LEMMA PlaceAfter ==
  ASSUME Typed, NEW p \in Proc, NoneSkipped(p)
  PROVE  /\ \A e \in Exec : Take(p, e) => proc'[p].pc = "find"
         /\ FindExecution(p) => proc'[p].pc = "found" /\ Of(p)' = Of(p)
         /\ WriteRunning(p) => proc'[p].pc = "running" /\ Of(p)' = Of(p)
         /\ FindSucceeded(p) \/ CreateStep(p) \/ Execute(p) \/ Commit(p) \/ StepFails(p)
              => Works(p) /\ Works(p)' /\ Of(p)' = Of(p)
         /\ WriteSucceeded(p) => proc'[p].pc = "returned" /\ Of(p)' = Of(p)
         /\ WriteFailed(p) \/ CallRejects(p) => proc'[p].pc = "threw" /\ Of(p)' = Of(p)
         /\ Complete(p) \/ FailAttempt(p) \/ Die(p) => proc'[p].pc = "idle"
  <1>0. proc[p] \in ProcRecord
    BY DEF Typed
  <1>1. ASSUME NEW pc \in Place, Goto(p, pc) PROVE proc'[p].pc = pc /\ Of(p)' = Of(p)
    BY <1>1, GotoEffect DEF Of
  <1>2. ASSUME NEW c, c.exec = Of(p), proc' = [proc EXCEPT ![p] = c] PROVE proc'[p].pc = c.pc /\ Of(p)' = Of(p)
    BY <1>2 DEF Typed, Of
  <1>3. ASSUME NEW e \in Exec, Take(p, e) PROVE proc'[p].pc = "find"
    BY <1>3 DEF Typed, Take, Idle
  <1>4. FindExecution(p) => proc'[p].pc = "found" /\ Of(p)' = Of(p)
    <2> SUFFICES ASSUME FindExecution(p) PROVE proc'[p].pc = "found" /\ Of(p)' = Of(p)
      OBVIOUS
    <2> DEFINE n == output[Of(p)]
               c == [proc[p] EXCEPT !.pc = "found", !.read = n]
    <2>1. proc' = [proc EXCEPT ![p] = c]
      BY Zenon DEF FindExecution
    <2> HIDE DEF n
    <2>2. c.pc = "found" /\ c.exec = Of(p)
      BY <1>0 DEF ProcRecord, Of
    <2> HIDE DEF c
    <2> QED
      BY <1>2, <2>1, <2>2
  <1>5. FindSucceeded(p) => Works(p) /\ Works(p)' /\ Of(p)' = Of(p)
    <2> SUFFICES ASSUME FindSucceeded(p) PROVE Works(p) /\ Works(p)' /\ Of(p)' = Of(p)
      OBVIOUS
    <2> DEFINE done == succeeded[Of(p)]
               n == IF done # {} THEN proc[p].read ELSE 0
               todo == Action \ done
               c == [proc[p] EXCEPT !.pc = "loop", !.todo = todo, !.read = 0, !.payload = n]
    <2>1. proc' = [proc EXCEPT ![p] = c] /\ proc[p].pc = "running"
      BY Zenon DEF FindSucceeded
    <2> HIDE DEF n, todo
    <2>2. c.pc = "loop" /\ c.exec = Of(p)
      BY <1>0 DEF ProcRecord, Of
    <2> HIDE DEF c
    <2> QED
      BY <1>2, <2>1, <2>2 DEF Works
  <1>6. Commit(p) => Works(p) /\ Works(p)' /\ Of(p)' = Of(p)
    <2> SUFFICES ASSUME Commit(p) PROVE Works(p) /\ Works(p)' /\ Of(p)' = Of(p)
      OBVIOUS
    <2> DEFINE todo == proc[p].todo \ {Current(p)}
               n == Enriched(p, Current(p))
               c == [proc[p] EXCEPT !.pc = "loop", !.todo = todo, !.payload = n]
    <2>1. proc' = [proc EXCEPT ![p] = c] /\ proc[p].pc = "ok"
      BY Zenon DEF Commit
    <2> HIDE DEF n, todo
    <2>2. c.pc = "loop" /\ c.exec = Of(p)
      BY <1>0 DEF ProcRecord, Of
    <2> HIDE DEF c
    <2> QED
      BY <1>2, <2>1, <2>2 DEF Works
  <1>7. Execute(p) => Works(p) /\ Works(p)' /\ Of(p)' = Of(p)
    <2> SUFFICES ASSUME Execute(p) PROVE Works(p) /\ Works(p)' /\ Of(p)' = Of(p)
      OBVIOUS
    <2>1. Current(p) \in Action
      BY <1>0, CurrentIsFirst DEF Execute, NoneSkipped, AtAction, ProcRecord
    <2>2. Results(Types[Current(p)]) \subseteq {"ok", "bad"}
      BY <2>1, TypesLen DEF Results, ActionType, HttpRequest, SendEmail, TelegramNotify, LogMessage, Delay
    <2>3. PICK pc \in {"ok", "bad"} : Goto(p, pc)
      BY <2>2 DEF Execute
    <2> QED
      BY <1>1, <2>3 DEF Execute, Works, Place
  <1>8. CreateStep(p) \/ StepFails(p) => Works(p) /\ Works(p)' /\ Of(p)' = Of(p)
    BY <1>1 DEF CreateStep, StepFails, Works, Place
  <1>9. WriteRunning(p) => proc'[p].pc = "running" /\ Of(p)' = Of(p)
    BY <1>1 DEF WriteRunning, Place
  <1>10. WriteSucceeded(p) => proc'[p].pc = "returned" /\ Of(p)' = Of(p)
    BY <1>1 DEF WriteSucceeded, Place
  <1>11. WriteFailed(p) \/ CallRejects(p) => proc'[p].pc = "threw" /\ Of(p)' = Of(p)
    BY <1>1 DEF WriteFailed, CallRejects, Place
  <1>12. Complete(p) \/ FailAttempt(p) \/ Die(p) => proc'[p].pc = "idle"
    BY DEF Complete, FailAttempt, Die, Idle, Typed
  <1> QED
    BY <1>3, <1>4, <1>5, <1>6, <1>7, <1>8, <1>9, <1>10, <1>11, <1>12

\* A run that is being processed came through the queue.
LEMMA WorkedOnIsEnqueued ==
  ASSUME NestInv, NEW p \in Proc, proc[p].pc # "idle", Of(p) \notin Disturbed
  PROVE  Of(p) \in Exec /\ enqueue[Of(p)] = "done"
  <1>1. Of(p) \in Exec
    BY DEF NestInv, NoneSkipped
  <1>2. job[Of(p)].state = "active" /\ EnqueuedOnce(Of(p))
    BY <1>1 DEF NestInv, Locked, Disturbed
  <1> QED
    BY <1>1, <1>2 DEF EnqueuedOnce

\* A processor.
LEMMA ProcessorsLive ==
  ASSUME NestInv, LifeInv, Next, NEW p \in Proc,
         (\E e \in Exec : Take(p, e)) \/ Processing(p) \/ CallRejects(p) \/ Die(p)
  PROVE  LifeInv'
  <1>0. Typed /\ NoneSkipped(p) /\ p # Nobody /\ \A e \in Exec : InLife(e) /\ EnqueuedOnce(e)
    BY DEF NestInv, LifeInv
  <1>1. /\ UNCHANGED <<cancel, late, zombie, enqueue, retry>> /\ Disturbed' = Disturbed
        /\ \A q \in Proc : q # p => proc'[q] = proc[q] /\ Of(q)' = Of(q) /\ Works(q)' = Works(q)
    <2>1. UNCHANGED <<cancel, late, zombie, enqueue, retry>>
      BY DEF Take, Processing, FindExecution, WriteRunning, FindSucceeded, CreateStep, Execute, Commit,
           StepFails, WriteSucceeded, WriteFailed, Complete, FailAttempt, CallRejects, Die
    <2>2. \A q \in Proc : q # p => proc'[q] = proc[q]
      BY <1>0, ZenonT(60) DEF Typed, Take, Processing, FindExecution, WriteRunning, FindSucceeded, CreateStep, Execute, Commit,
           StepFails, WriteSucceeded, WriteFailed, Complete, FailAttempt, CallRejects, Die, Goto
    <2> QED
      BY <2>1, <2>2 DEF Disturbed, Of, Works
  <1>2. ASSUME NEW e \in Exec PROVE hook'[e] = hook[e] \/ enqueue[e] = "done"
    <2>1. hook' = hook \/ (FailAttempt(p) /\ job[Of(p)].owner = p /\ hook' = [hook EXCEPT ![Of(p)] = "read"])
      BY DEF Take, Processing, FindExecution, WriteRunning, FindSucceeded, CreateStep, Execute, Commit,
           StepFails, WriteSucceeded, WriteFailed, Complete, FailAttempt, CallRejects, Die
    <2>2. CASE hook' = hook
      BY <2>2
    <2>3. CASE job[Of(p)].owner = p /\ hook' = [hook EXCEPT ![Of(p)] = "read"]
      <3>1. CASE e = Of(p)
        BY <1>0, <2>3, <3>1 DEF EnqueuedOnce
      <3>2. CASE e # Of(p)
        BY <2>3, <3>2
      <3> QED
        BY <3>1, <3>2
    <2> QED
      BY <2>1, <2>2, <2>3
  \* What p does to the status of its run, and no other's.
  <1>3. \/ UNCHANGED status /\ (Works(p)' => Works(p) /\ Of(p)' = Of(p))
        \/ /\ proc[p].pc # "idle" /\ Of(p)' = Of(p)
           /\ \/ status' = [status EXCEPT ![Of(p)] = "RUNNING"]
              \/ ~Works(p)' /\ \E to \in {"SUCCEEDED", "FAILED"} : status' = [status EXCEPT ![Of(p)] = to]
    <2>1. CASE Processing(p)
      <3>1. CASE WriteRunning(p)
        BY <1>0, <3>1, PlaceAfter DEF WriteRunning
      <3>2. CASE WriteSucceeded(p) \/ WriteFailed(p)
        BY <1>0, <3>2, PlaceAfter DEF WriteSucceeded, WriteFailed, Works
      <3>3. CASE FindExecution(p) \/ Complete(p) \/ FailAttempt(p)
        BY <1>0, <3>3, PlaceAfter DEF FindExecution, Complete, FailAttempt, Works
      <3>4. CASE FindSucceeded(p) \/ CreateStep(p) \/ Execute(p) \/ Commit(p) \/ StepFails(p)
        BY <1>0, <3>4, PlaceAfter DEF FindSucceeded, CreateStep, Execute, Commit, StepFails
      <3> QED
        BY <2>1, <3>1, <3>2, <3>3, <3>4 DEF Processing
    <2>2. CASE (\E e \in Exec : Take(p, e)) \/ CallRejects(p) \/ Die(p)
      BY <1>0, <2>2, PlaceAfter DEF Take, CallRejects, Die, Works
    <2> QED
      BY <2>1, <2>2
  <1>4. ASSUME NEW e \in Exec, e \notin Disturbed
        PROVE  /\ status'[e] # "CANCELLED" /\ (status'[e] = "NONE" <=> enqueue[e] = "none")
               /\ \A q \in Proc : Of(q)' = e /\ Works(q)' => status'[e] = "RUNNING"
    <2>1. CASE UNCHANGED status /\ (Works(p)' => Works(p) /\ Of(p)' = Of(p))
      BY <1>0, <1>1, <1>4, <2>1 DEF InLife
    <2>2. CASE /\ proc[p].pc # "idle" /\ Of(p)' = Of(p)
               /\ \/ status' = [status EXCEPT ![Of(p)] = "RUNNING"]
                  \/ ~Works(p)' /\ \E to \in {"SUCCEEDED", "FAILED"} : status' = [status EXCEPT ![Of(p)] = to]
      <3>1. CASE e # Of(p)
        <4>1. status'[e] = status[e]
          BY <1>0, <2>2, <3>1 DEF Typed
        <4> QED
          BY <1>0, <1>1, <1>4, <2>2, <3>1, <4>1 DEF InLife
      <3>2. CASE e = Of(p)
        <4>1. enqueue[e] = "done" /\ status \in [Exec -> Status]
          BY <1>0, <1>4, <2>2, <3>2, WorkedOnIsEnqueued DEF Typed
        <4>2. \A q \in Proc : q # p /\ Of(q) = e => ~Works(q)
          BY <1>4, <2>2, <3>2, Alone DEF Disturbed, Works
        <4>3. \/ status'[e] = "RUNNING"
              \/ ~Works(p)' /\ status'[e] \in {"SUCCEEDED", "FAILED"}
          BY <2>2, <3>2, <4>1
        <4> QED
          BY <1>1, <4>1, <4>2, <4>3
      <3> QED
        BY <3>1, <3>2
    <2> QED
      BY <1>3, <2>1, <2>2
  <1>5. \A e \in Exec : InLife(e)'
    BY <1>0, <1>1, <1>2, <1>4 DEF InLife
  <1> QED
    BY <1>1, <1>5 DEF LifeInv

LEMMA LifeStep == NestInv /\ JobInv /\ LifeInv /\ [Next]_vars => LifeInv'
  <1> SUFFICES ASSUME NestInv, JobInv, LifeInv, [Next]_vars PROVE LifeInv'
    OBVIOUS
  <1>1. CASE UNCHANGED vars
    BY <1>1 DEF LifeInv, InLife, Disturbed, Works, Of
  <1> QED
    BY <1>1, OthersLive, ProcessorsLive DEF Next

LEMMA InitLife == Init => LifeInv
  BY DEF Init, LifeInv, InLife, Works, Idle

LEMMA LifeInvariant == Spec => [](NestInv /\ JobInv /\ LifeInv)
  <1>1. Init => JobInv
    BY DEF Init, JobInv, HandlersTyped, FollowsJob, Idle
  <1> QED
    BY <1>1, InitLife, LifeStep, JobStep, NestInvariant, PTL DEF Spec

\* Whatever becomes of the rows of a disturbed run, it is a step of Disturb.
LEMMA Disturbs ==
  ASSUME NestInv, NestInv', NEW e \in Exec, Disturbed' = Disturbed \cup {e},
         succeeded[e] \subseteq succeeded'[e],
         \A f \in Exec : f # e =>
           status'[f] = status[f] /\ succeeded'[f] = succeeded[f] /\ output'[f] = output[f]
  PROVE  Life!Disturb(e)
  <1> DEFINE to == status'[e]
             all == succeeded'[e]
             saved == output'[e]
  <1>1. Typed /\ Typed' /\ SucceededRanEverything'
    BY DEF NestInv
  <1>2. to \in Life!Status /\ all \in SUBSET Life!Action /\ saved \in 0..Len(Types)
    BY <1>1 DEF Typed, Status, Life!Status, Action, Life!Action, Payload
  <1>3. to = "SUCCEEDED" => all = Life!Action
    BY <1>1 DEF SucceededRanEverything, Action, Life!Action
  <1>4. /\ status' = [status EXCEPT ![e] = to] /\ succeeded' = [succeeded EXCEPT ![e] = all]
        /\ output' = [output EXCEPT ![e] = saved]
    <2>1. status' = [status EXCEPT ![e] = to]
      BY <1>1 DEF Typed
    <2>2. succeeded' = [succeeded EXCEPT ![e] = all]
      BY <1>1 DEF Typed
    <2>3. output' = [output EXCEPT ![e] = saved]
      BY <1>1 DEF Typed
    <2> QED
      BY <2>1, <2>2, <2>3
  <1> HIDE DEF to, all, saved
  <1> QED
    BY <1>2, <1>3, <1>4 DEF Life!Disturb, all

\* An undisturbed run that was submitted.
LEMMA SubmittedIs ==
  ASSUME Typed, NEW e \in Exec, InLife(e), e \notin Disturbed, enqueue[e] = "done"
  PROVE  status[e] \in Life!Submitted
  BY DEF Typed, InLife, Status, Life!Submitted

\* The listener, the queue, the hook, the owner and the operator.
LEMMA OthersRefine ==
  ASSUME NestInv, NestInv', JobInv, LifeInv, Next, NEW e \in Exec,
         \/ Listener(e) \/ Promote(e) \/ Stall(e) \/ OnFailed(e) \/ OnFailedLost(e)
         \/ CancelFinds(e) \/ Cancelling(e) \/ RetryFinds(e) \/ Retrying(e)
  PROVE  [Life!Next]_(Life!vars)
  <1>0. Typed /\ HandlersTyped /\ EnqueuedOnce(e) /\ InLife(e)
    BY DEF NestInv, JobInv, LifeInv
  <1>1. UNCHANGED <<succeeded, output>> /\ \A f \in Exec : f # e => status'[f] = status[f]
    BY <1>0 DEF Typed, Listener, CreateRun, Enqueue, EnqueueLost, Promote, Stall, OnFailed, OnFailedFinds, OnFailedWrites,
           OnFailedLost, CancelFinds, Cancelling, CancelWrites, CancelRemoves, RetryFinds, Retrying, RetryMoves,
           RetryWrites
  <1>2. Disturbed \subseteq Disturbed' /\ Disturbed' \subseteq Disturbed \cup {e}
    <2>1. /\ \A f \in Exec : f # e => zombie'[f] = zombie[f] /\ late'[f] = late[f] /\ cancel'[f] = cancel[f]
      BY <1>0 DEF Typed, HandlersTyped, Listener, CreateRun, Enqueue, EnqueueLost, Promote, Stall, OnFailed, OnFailedFinds,
           OnFailedWrites, OnFailedLost, CancelFinds, Cancelling, CancelWrites, CancelRemoves, RetryFinds, Retrying,
           RetryMoves, RetryWrites
    <2> QED
      BY <1>0, <2>1, DisturbedGrows DEF Disturbed
  <1>3. CASE e \in Disturbed'
    <2>1. Disturbed' = Disturbed \cup {e}
      BY <1>2, <1>3
    <2>2. Life!Disturb(e)
      BY <1>1, <2>1, Disturbs
    <2> QED
      BY <2>2 DEF Life!Next
  <1>4. CASE e \notin Disturbed'
    <2>1. Disturbed' = Disturbed /\ e \notin Disturbed
      BY <1>2, <1>4
    <2>2. CASE CreateRun(e)
      <3>1. status[e] = "NONE" /\ status' = [status EXCEPT ![e] = "PENDING"]
        BY <1>0, <2>1, <2>2 DEF CreateRun, InLife
      <3>2. Life!Submit(e)
        BY <1>1, <2>1, <3>1 DEF Life!Submit, Life!Move
      <3> QED
        BY <3>2 DEF Life!Next
    <2>3. CASE OnFailedWrites(e)
      <3>1. enqueue[e] = "done" /\ status' = [status EXCEPT ![e] = "FAILED"]
        BY <1>0, <2>3 DEF OnFailedWrites, InLife
      <3>2. Life!Fail(e)
        BY <1>0, <1>1, <2>1, <3>1, SubmittedIs DEF Life!Fail, Life!Move
      <3> QED
        BY <3>2 DEF Life!Next
    <2>4. CASE CancelWrites(e)
      BY <1>0, <1>4, <2>4 DEF CancelWrites, HandlersTyped, Disturbed
    <2>5. CASE RetryWrites(e)
      <3>1. enqueue[e] = "done"
        BY <1>0, <2>5 DEF RetryWrites, InLife
      <3>2. status' = status \/ status' = [status EXCEPT ![e] = "PENDING"]
        BY <2>5 DEF RetryWrites
      <3>3. CASE status' = status
        BY <1>1, <2>1, <3>3 DEF Life!vars
      <3>4. CASE status' = [status EXCEPT ![e] = "PENDING"]
        <4>1. Life!Requeue(e)
          BY <1>0, <1>1, <2>1, <3>1, <3>4, SubmittedIs DEF Life!Requeue, Life!Move
        <4> QED
          BY <4>1 DEF Life!Next
      <3> QED
        BY <3>2, <3>3, <3>4
    <2>6. CASE \/ Enqueue(e) \/ EnqueueLost(e) \/ Promote(e) \/ Stall(e) \/ OnFailedFinds(e) \/ OnFailedLost(e)
               \/ CancelFinds(e) \/ CancelRemoves(e) \/ RetryFinds(e) \/ RetryMoves(e)
      <3>1. status' = status
        BY <2>6 DEF Enqueue, EnqueueLost, Promote, Stall, OnFailedFinds, OnFailedLost, CancelFinds, CancelRemoves,
               RetryFinds, RetryMoves
      <3> QED
        BY <1>1, <2>1, <3>1 DEF Life!vars
    <2> QED
      BY <2>2, <2>3, <2>4, <2>5, <2>6 DEF Listener, OnFailed, Cancelling, Retrying
  <1> QED
    BY <1>3, <1>4

\* A processor, of an undisturbed run, makes the steps of its life.
LEMMA ProcessorRefines ==
  ASSUME NestInv, LifeInv, NEW p \in Proc, proc[p].pc # "idle", Of(p) \notin Disturbed, Disturbed' = Disturbed,
         WriteRunning(p) \/ Commit(p) \/ WriteSucceeded(p) \/ WriteFailed(p)
  PROVE  Life!Next
  <1> DEFINE e == Of(p)
  <1>0. Typed /\ NoneSkipped(p) /\ Agrees(p) /\ e \in Exec /\ enqueue[e] = "done" /\ InLife(e) /\ ~zombie[e]
    BY WorkedOnIsEnqueued DEF NestInv, LifeInv, Disturbed
  <1>1. Works(p) => status[e] = "RUNNING"
    BY <1>0 DEF InLife
  <1>2. CASE WriteRunning(p)
    <2>1. status' = [status EXCEPT ![e] = "RUNNING"] /\ UNCHANGED <<succeeded, output>>
      BY <1>2 DEF WriteRunning
    <2>2. Life!Begin(e)
      BY <1>0, <2>1, SubmittedIs DEF Life!Begin, Life!Move
    <2> QED
      BY <1>0, <2>2 DEF Life!Next
  <1>3. CASE WriteFailed(p)
    <2>1. status' = [status EXCEPT ![e] = "FAILED"] /\ UNCHANGED <<succeeded, output>>
      BY <1>3 DEF WriteFailed
    <2>2. Life!Fail(e)
      BY <1>0, <2>1, SubmittedIs DEF Life!Fail, Life!Move
    <2> QED
      BY <1>0, <2>2 DEF Life!Next
  <1>4. CASE WriteSucceeded(p)
    <2>1. /\ proc[p].pc = "loop" /\ proc[p].todo = {}
          /\ status' = [status EXCEPT ![e] = "SUCCEEDED"] /\ succeeded' = succeeded
          /\ output' = [output EXCEPT ![e] = proc[p].payload]
      BY <1>4 DEF WriteSucceeded
    <2>2. succeeded[e] = Action /\ proc[p].payload = output[e]
      BY <1>0, <2>1 DEF NoneSkipped, Agrees, InLoop, Typed
    <2>3. output' = output
      BY <1>0, <2>1, <2>2 DEF Typed
    <2>4. Life!Succeed(e)
      BY <1>1, <2>1, <2>2, <2>3 DEF Life!Succeed, Life!Move, Life!Action, Action, Works
    <2> QED
      BY <1>0, <2>4 DEF Life!Next
  <1>5. CASE Commit(p)
    <2> DEFINE a == Current(p)
    <2>1. /\ proc[p].pc = "ok" /\ status' = status
          /\ succeeded' = [succeeded EXCEPT ![e] = succeeded[e] \cup {a}]
          /\ output' = [output EXCEPT ![e] = Enriched(p, a)]
      BY <1>5 DEF Commit
    <2>2. PICK k \in 0..Len(Types) : succeeded[e] = 1..k /\ a = k + 1
      BY <1>0, <2>1, NextAction DEF InLoop, NoneSkipped, AtAction
    <2>3. a \in Action /\ proc[p].payload = output[e]
      <3>1. proc[p].todo # {} /\ proc[p].todo \in SUBSET Action
        BY <1>0, <2>1 DEF NoneSkipped, AtAction, Typed, ProcRecord
      <3> QED
        BY <1>0, <2>1, <3>1, CurrentIsFirst DEF Agrees, InLoop
    <2> HIDE DEF a
    <2>4. succeeded[e] = 1..(a - 1) /\ succeeded[e] \cup {a} = 1..a
      BY <2>2
    <2>5. Enriched(p, a) = IF a \in {b \in Action : Types[b] = "HTTP_REQUEST"} THEN a ELSE output[e]
      BY <2>3 DEF Enriched
    <2>6. status[e] = "RUNNING"
      BY <1>1, <2>1 DEF Works
    <2>7. Life!Complete(e)
      BY <2>1, <2>3, <2>4, <2>5, <2>6 DEF Life!Complete, Life!Action, Action
    <2> QED
      BY <1>0, <2>7 DEF Life!Next
  <1> QED
    BY <1>2, <1>3, <1>4, <1>5

LEMMA ProcessorsRefine ==
  ASSUME NestInv, NestInv', LifeInv, NEW p \in Proc,
         (\E e \in Exec : Take(p, e)) \/ Processing(p) \/ CallRejects(p) \/ Die(p)
  PROVE  [Life!Next]_(Life!vars)
  <1>0. Typed /\ NoneSkipped(p)
    BY DEF NestInv
  <1>1. Disturbed' = Disturbed
    <2>1. UNCHANGED <<cancel, late, zombie>>
      BY DEF Take, Processing, FindExecution, WriteRunning, FindSucceeded, CreateStep, Execute, Commit,
           StepFails, WriteSucceeded, WriteFailed, Complete, FailAttempt, CallRejects, Die
    <2> QED
      BY <2>1 DEF Disturbed
  <1>2. CASE WriteRunning(p) \/ Commit(p) \/ WriteSucceeded(p) \/ WriteFailed(p)
    <2>1. proc[p].pc # "idle"
      BY <1>2 DEF WriteRunning, Commit, WriteSucceeded, WriteFailed
    <2>2. Of(p) \in Exec
      BY <1>0, <2>1 DEF NoneSkipped
    <2>3. CASE Of(p) \notin Disturbed
      BY <1>1, <1>2, <2>1, <2>3, ProcessorRefines
    <2>4. CASE Of(p) \in Disturbed
      <3>1. /\ succeeded[Of(p)] \subseteq succeeded'[Of(p)]
            /\ \A f \in Exec : f # Of(p) =>
                 status'[f] = status[f] /\ succeeded'[f] = succeeded[f] /\ output'[f] = output[f]
        BY <1>0, <1>2, <2>2 DEF Typed, WriteRunning, Commit, WriteSucceeded, WriteFailed
      <3>2. Life!Disturb(Of(p))
        BY <1>1, <2>2, <2>4, <3>1, Disturbs
      <3> QED
        BY <2>2, <3>2 DEF Life!Next
    <2> QED
      BY <2>3, <2>4
  <1>3. CASE \/ (\E e \in Exec : Take(p, e)) \/ FindExecution(p) \/ FindSucceeded(p) \/ CreateStep(p) \/ Execute(p)
             \/ StepFails(p) \/ Complete(p) \/ FailAttempt(p) \/ CallRejects(p) \/ Die(p)
    <2>1. UNCHANGED <<status, succeeded, output>>
      BY <1>3 DEF Take, FindExecution, FindSucceeded, CreateStep, Execute, StepFails, Complete, FailAttempt,
             CallRejects, Die
    <2> QED
      BY <1>1, <2>1 DEF Life!vars
  <1> QED
    BY <1>2, <1>3 DEF Processing

\* The rows of the backend make the steps of the life of a queued run and no other,
\* for any number of executions, processors, attempts, stalls, retries and faults:
\* while a run is undisturbed its actions succeed in order, each once and only while
\* it says RUNNING, with the last answer saved; disturbed or not, no action is
\* forgotten and SUCCEEDED means all of them (workflow.processor.ts process).
THEOREM NestLivesAsQueued == Spec => LivesAsQueued
  <1>1. Init => Life!Init
    BY DEF Init, Life!Init, Disturbed
  <1>2. NestInv /\ NestInv' /\ JobInv /\ LifeInv /\ [Next]_vars => [Life!Next]_(Life!vars)
    <2> SUFFICES ASSUME NestInv, NestInv', JobInv, LifeInv, [Next]_vars PROVE [Life!Next]_(Life!vars)
      OBVIOUS
    <2>1. CASE UNCHANGED vars
      BY <2>1 DEF Life!vars, Disturbed
    <2> QED
      BY <2>1, OthersRefine, ProcessorsRefine DEF Next
  <1> QED
    BY <1>1, <1>2, LifeInvariant, PTL DEF Spec, LivesAsQueued, Life!Spec

=============================================================================
