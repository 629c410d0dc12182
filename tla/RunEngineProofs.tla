-------------------------- MODULE RunEngineProofs --------------------------
(***************************************************************************)
(* What holds of RunEngine for any number of executions, instances,        *)
(* actions, attempts and faults.                                           *)
(***************************************************************************)
EXTENDS RunEngine, TLAPS

USE ConstantsAssumption DEF ConstantsAssumption
USE DEF vars, db, handlers, instance, attempts, faults

----------------------------------------------------------------------------
(* Types *)

LEMMA InitTypeOK == Init => TypeOK
  BY DEF Init, TypeOK, Action, Attempt, Status, Place, Phase

\* The handlers keep the types.
LEMMA HandlersTypeOK ==
  TypeOK /\ (\/ \E e \in Exec : Handler(e)
             \/ \E i \in Instance : AdminRetry(i)) => TypeOK'
  <1> SUFFICES ASSUME TypeOK,
                      \/ \E e \in Exec : Handler(e)
                      \/ \E i \in Instance : AdminRetry(i)
               PROVE  TypeOK'
    OBVIOUS
  <1> USE DEF TypeOK, Status, Place
  <1>1. ASSUME NEW e \in Exec, Handler(e) PROVE TypeOK'
    <2>1. CASE CreateExecution(e)
      BY <2>1 DEF CreateExecution
    <2>2. CASE Launch(e)
      BY <2>2 DEF Launch
    <2>3. CASE LaunchThrows(e)
      <3>1. CASE UNCHANGED <<pc, timeouts>>
        BY <2>3, <3>1 DEF LaunchThrows
      <3>2. CASE timeouts < MaxTimeouts /\ timeouts' = timeouts + 1
                 /\ pc' = [pc EXCEPT ![First[e]] = "load"]
        BY <2>3, <3>2 DEF LaunchThrows
      <3> QED
        BY <2>3, <3>1, <3>2 DEF LaunchThrows
    <2>4. CASE FailUnstarted(e)
      BY <2>4 DEF FailUnstarted
    <2>5. CASE LaunchLost(e)
      BY <2>5 DEF LaunchLost
    <2>6. CASE CancelRead(e)
      BY <2>6 DEF CancelRead
    <2>7. CASE CancelWrite(e)
      BY <2>7 DEF CancelWrite
    <2>8. CASE CancelTerminate(e)
      BY <2>8, ZenonT(60) DEF CancelTerminate
    <2> QED
      BY <1>1, <2>1, <2>2, <2>3, <2>4, <2>5, <2>6, <2>7, <2>8 DEF Handler
  <1>2. ASSUME NEW i \in Instance, AdminRetry(i) PROVE TypeOK'
    <2>1. CASE RetryWrite(i)
      BY <2>1 DEF RetryWrite
    <2>2. CASE RetryCreate(i)
      BY <2>2 DEF RetryCreate
    <2>3. CASE RetryLost(i)
      BY <2>3 DEF RetryLost
    <2> QED
      BY <1>2, <2>1, <2>2, <2>3 DEF AdminRetry
  <1> QED
    BY <1>1, <1>2

\* The steps of run() and of its callbacks keep the types.
LEMMA RunStepTypeOK ==
  ASSUME NEW i \in Instance, TypeOK, RunStep(i) PROVE TypeOK'
  <1> USE DEF TypeOK, Status, Place, Goto, Action
  <1>1. CASE LoadFind(i)
    <2>1. CASE Goto(i, "load", "done") /\ UNCHANGED payload
      BY <1>1, <2>1 DEF LoadFind
    <2>2. CASE Goto(i, "load", "plan")
               /\ payload' = [payload EXCEPT ![i] = output[ExecOf[i]]]
      BY <1>1, <2>2 DEF LoadFind
    <2> QED
      BY <1>1, <2>1, <2>2 DEF LoadFind
  <1>2. CASE LoadPlan(i)
    BY <1>2 DEF LoadPlan
  <1>3. CASE LoadWrite(i)
    BY <1>3 DEF LoadWrite
  <1>4. CASE LoadPersist(i)
    BY <1>4 DEF LoadPersist
  <1>5. CASE Skip(i)
    BY <1>5, SMTT(30) DEF Skip
  <1>6. CASE StartAttempt(i)
    <2>1. tries[i] + 1 \in Attempt /\ step[i] \in 1..NumActions
      BY <1>6 DEF StartAttempt, Attempt
    <2>2. att' \in [Instance -> [Action -> [Attempt -> Phase]]]
      BY <1>6, <2>1 DEF StartAttempt, Phase
    <2> QED
      BY <1>6, <2>1, <2>2, SMTT(30) DEF StartAttempt
  <1>7. CASE StepDone(i)
    BY <1>7, SMTT(30) DEF StepDone, CurrentIs
  <1>8. CASE StepThrew(i)
    BY <1>8 DEF StepThrew
  <1>9. CASE StepExhausted(i)
    BY <1>9 DEF StepExhausted
  <1>10. CASE FailWrite(i)
    BY <1>10 DEF FailWrite
  <1>11. CASE LoopEnds(i)
    BY <1>11 DEF LoopEnds
  <1>12. CASE FinishWrite(i)
    BY <1>12 DEF FinishWrite
  <1>13. CASE Return(i)
    <2>1. CASE Goto(i, "failed", "done")
      BY <1>13, <2>1 DEF Return
    <2>2. CASE Goto(i, "finished", "done")
      BY <1>13, <2>2 DEF Return
    <2> QED
      BY <1>13, <2>1, <2>2 DEF Return
  <1> QED
    BY <1>1, <1>2, <1>3, <1>4, <1>5, <1>6, <1>7, <1>8, <1>9, <1>10, <1>11,
       <1>12, <1>13 DEF RunStep

\* The attempts and the faults keep the types.
LEMMA AttemptTypeOK ==
  ASSUME NEW i \in Instance, NEW a \in Action, NEW n \in Attempt,
         TypeOK, AttemptStep(i, a, n)
  PROVE  TypeOK'
  <1> USE DEF TypeOK
  <1>1. ASSUME NEW from \in Phase, NEW to \in Phase, Advance(i, a, n, from, to)
        PROVE  att' \in [Instance -> [Action -> [Attempt -> Phase]]]
    BY <1>1 DEF Advance
  <1>2. CASE InsertRow(i, a, n)
    BY <1>1, <1>2 DEF InsertRow, Phase
  <1>3. CASE RunAction(i, a, n)
    BY <1>1, <1>3 DEF RunAction, Phase
  <1>4. CASE Commit(i, a, n)
    <2>1. att' \in [Instance -> [Action -> [Attempt -> Phase]]]
      BY <1>1, <1>4 DEF Commit, Phase
    <2> QED
      BY <1>4, <2>1 DEF Commit
  <1>5. CASE Throw(i, a, n)
    BY <1>1, <1>5 DEF Throw, Phase
  <1> QED
    BY <1>2, <1>3, <1>4, <1>5 DEF AttemptStep

LEMMA FaultTypeOK ==
  ASSUME NEW i \in Instance, TypeOK, Fault(i) PROVE TypeOK'
  <1> USE DEF TypeOK
  <1>1. CASE LoseCallback(i)
    BY <1>1 DEF LoseCallback, Doing, Place
  <1>2. CASE LoseAttempt(i)
    <2>1. att' \in [Instance -> [Action -> [Attempt -> Phase]]]
      BY <1>2 DEF LoseAttempt, CurrentIs, Phase
    <2> QED
      BY <1>2, <2>1 DEF LoseAttempt, Goto, Place
  <1>3. CASE TimeOut(i)
    BY <1>3 DEF TimeOut, Place
  <1> QED
    BY <1>1, <1>2, <1>3 DEF Fault

\* Every variable keeps its type, under any faults.
THEOREM TypeCorrect == Spec => []TypeOK
  <1>1. TypeOK /\ [Next]_vars => TypeOK'
    <2> SUFFICES ASSUME TypeOK, [Next]_vars PROVE TypeOK'
      OBVIOUS
    <2>1. CASE UNCHANGED vars
      BY <2>1 DEF TypeOK
    <2>2. CASE Next
      BY <2>2, HandlersTypeOK, RunStepTypeOK, AttemptTypeOK, FaultTypeOK DEF Next
    <2> QED
      BY <2>1, <2>2
  <1> QED
    BY InitTypeOK, <1>1, PTL DEF Spec

----------------------------------------------------------------------------
(* A run that SUCCEEDED ran everything, in order *)

\* A step that leaves rows, plans, positions and attempts alone, and moves no
\* instance into finish and no run into SUCCEEDED, keeps the invariant.
LEMMA OrderFrame ==
  ASSUME OrderInv, TypeOK',
         UNCHANGED <<succeeded, plan, step, att>>,
         \A i \in Instance : pc'[i] \in {"finishing", "finished"}
                               => pc[i] \in {"finishing", "finished"},
         \A e \in Exec : status'[e] = "SUCCEEDED" => status[e] = "SUCCEEDED"
  PROVE  OrderInv'
  <1>1. SkipsSucceeded' /\ PassedSucceeded' /\ CommittedSucceeded' /\ StepsInOrder'
    BY DEF OrderInv, SkipsSucceeded, PassedSucceeded, CommittedSucceeded, StepsInOrder
  <1>2. FinishesAtEnd'
    BY DEF OrderInv, FinishesAtEnd
  <1>3. SucceededRanEverything'
    BY DEF OrderInv, SucceededRanEverything
  <1> QED
    BY <1>1, <1>2, <1>3 DEF OrderInv

LEMMA InitOrderInv == Init => OrderInv
  <1> SUFFICES ASSUME Init PROVE OrderInv
    OBVIOUS
  <1>1. SkipsSucceeded /\ FinishesAtEnd /\ SucceededRanEverything
    BY DEF Init, SkipsSucceeded, FinishesAtEnd, SucceededRanEverything
  <1>2. PassedSucceeded
    BY DEF Init, PassedSucceeded, Action
  <1>3. CommittedSucceeded /\ StepsInOrder
    BY DEF Init, CommittedSucceeded, StepsInOrder
  <1> QED
    BY InitTypeOK, <1>1, <1>2, <1>3 DEF OrderInv

\* The handlers touch no row of a step and never write SUCCEEDED.
LEMMA HandlersOrderInv ==
  ASSUME OrderInv, TypeOK',
         \/ \E e \in Exec : Handler(e)
         \/ \E i \in Instance : AdminRetry(i)
  PROVE  OrderInv'
  <1> USE DEF OrderInv, TypeOK
  <1>1. UNCHANGED <<succeeded, plan, step, att>>
    BY DEF Handler, AdminRetry, CreateExecution, Launch, LaunchThrows, FailUnstarted,
           LaunchLost, CancelRead, CancelWrite, CancelTerminate, RetryWrite,
           RetryCreate, RetryLost
  <1>2. \A i \in Instance : pc'[i] \in {"finishing", "finished"} => pc'[i] = pc[i]
    <2>1. UNCHANGED pc \/ \E i \in Instance, p \in {"load", "terminated"} :
                            pc' = [pc EXCEPT ![i] = p]
      BY DEF Handler, AdminRetry, CreateExecution, Launch, LaunchThrows, FailUnstarted,
             LaunchLost, CancelRead, CancelWrite, CancelTerminate, RetryWrite,
             RetryCreate, RetryLost
    <2> QED
      BY <2>1
  <1>3. \A e \in Exec : status'[e] = "SUCCEEDED" => status[e] = "SUCCEEDED"
    <2>1. UNCHANGED status \/ \E e \in Exec, v \in {"PENDING", "FAILED", "CANCELLED"} :
                                status' = [status EXCEPT ![e] = v]
      BY DEF Handler, AdminRetry, CreateExecution, Launch, LaunchThrows, FailUnstarted,
             LaunchLost, CancelRead, CancelWrite, CancelTerminate, RetryWrite,
             RetryCreate, RetryLost
    <2> QED
      BY <2>1
  <1> QED
    BY <1>1, <1>2, <1>3, OrderFrame

\* The steps of run() keep the invariant.
LEMMA RunStepOrderInv ==
  ASSUME NEW i \in Instance, OrderInv, TypeOK', RunStep(i) PROVE OrderInv'
  <1> USE DEF Goto
  <1>1. CASE \/ LoadFind(i) \/ LoadWrite(i) \/ StepThrew(i) \/ StepExhausted(i)
             \/ FailWrite(i) \/ Return(i)
    <2>1. UNCHANGED <<succeeded, plan, step, att>>
      BY <1>1 DEF LoadFind, LoadWrite, StepThrew, StepExhausted, FailWrite, Return
    <2>2. \E p \in Place \ {"finishing", "finished"} : pc' = [pc EXCEPT ![i] = p]
      BY <1>1 DEF LoadFind, LoadWrite, StepThrew, StepExhausted, FailWrite, Return, Place
    <2>3. UNCHANGED status \/ \E v \in {"RUNNING", "FAILED"} :
                                status' = [status EXCEPT ![ExecOf[i]] = v]
      BY <1>1 DEF LoadFind, LoadWrite, StepThrew, StepExhausted, FailWrite, Return
    <2>4. \A j \in Instance : pc'[j] \in {"finishing", "finished"} => pc'[j] = pc[j]
      BY <2>2 DEF OrderInv, TypeOK
    <2>5. \A e \in Exec : status'[e] = "SUCCEEDED" => status[e] = "SUCCEEDED"
      BY <2>3 DEF OrderInv, TypeOK
    <2> QED
      BY <2>1, <2>4, <2>5, OrderFrame
  <1> USE DEF OrderInv, TypeOK
  <1>2. CASE LoadPlan(i)
    <2>1. SkipsSucceeded'
      BY <1>2 DEF LoadPlan, SkipsSucceeded
    <2>2. PassedSucceeded' /\ CommittedSucceeded' /\ StepsInOrder' /\ SucceededRanEverything'
      BY <1>2 DEF LoadPlan, PassedSucceeded, CommittedSucceeded, StepsInOrder,
                  SucceededRanEverything
    <2>3. FinishesAtEnd'
      BY <1>2 DEF LoadPlan, FinishesAtEnd
    <2> QED
      BY <2>1, <2>2, <2>3
  <1>3. CASE LoadPersist(i)
    <2>1. PassedSucceeded'
      BY <1>3 DEF LoadPersist, PassedSucceeded, Action
    <2>2. SkipsSucceeded' /\ CommittedSucceeded' /\ StepsInOrder' /\ SucceededRanEverything'
      BY <1>3 DEF LoadPersist, SkipsSucceeded, CommittedSucceeded, StepsInOrder,
                  SucceededRanEverything
    <2>3. FinishesAtEnd'
      BY <1>3 DEF LoadPersist, FinishesAtEnd
    <2> QED
      BY <2>1, <2>2, <2>3
  <1>4. CASE Skip(i)
    <2>1. PassedSucceeded'
      BY <1>4 DEF Skip, PassedSucceeded, SkipsSucceeded, Action
    <2>2. SkipsSucceeded' /\ CommittedSucceeded' /\ StepsInOrder' /\ SucceededRanEverything'
      BY <1>4 DEF Skip, SkipsSucceeded, CommittedSucceeded, StepsInOrder,
                  SucceededRanEverything
    <2>3. FinishesAtEnd'
      BY <1>4 DEF Skip, FinishesAtEnd
    <2> QED
      BY <2>1, <2>2, <2>3
  <1>5. CASE StartAttempt(i)
    <2>1. tries[i] + 1 \in Attempt /\ step[i] \in Action
      BY <1>5 DEF StartAttempt, Attempt
    <2>2. CommittedSucceeded'
      BY <1>5, <2>1 DEF StartAttempt, CommittedSucceeded
    <2>3. StepsInOrder'
      BY <1>5, <2>1 DEF StartAttempt, StepsInOrder, PassedSucceeded
    <2>4. SkipsSucceeded' /\ PassedSucceeded' /\ SucceededRanEverything'
      BY <1>5 DEF StartAttempt, SkipsSucceeded, PassedSucceeded, SucceededRanEverything
    <2>5. FinishesAtEnd'
      BY <1>5 DEF StartAttempt, FinishesAtEnd
    <2> QED
      BY <2>2, <2>3, <2>4, <2>5
  <1>6. CASE StepDone(i)
    <2>1. step[i] \in Action /\ step[i] \in succeeded[ExecOf[i]]
      BY <1>6 DEF StepDone, CurrentIs, CommittedSucceeded
    <2>2. PassedSucceeded'
      BY <1>6, <2>1 DEF StepDone, PassedSucceeded, Action
    <2>3. SkipsSucceeded' /\ CommittedSucceeded' /\ StepsInOrder' /\ SucceededRanEverything'
      BY <1>6 DEF StepDone, SkipsSucceeded, CommittedSucceeded, StepsInOrder,
                  SucceededRanEverything
    <2>4. FinishesAtEnd'
      BY <1>6 DEF StepDone, FinishesAtEnd
    <2> QED
      BY <2>2, <2>3, <2>4
  <1>7. CASE LoopEnds(i)
    <2>1. SkipsSucceeded' /\ PassedSucceeded' /\ CommittedSucceeded' /\ StepsInOrder'
          /\ SucceededRanEverything'
      BY <1>7 DEF LoopEnds, SkipsSucceeded, PassedSucceeded, CommittedSucceeded,
                  StepsInOrder, SucceededRanEverything
    <2>2. FinishesAtEnd'
      BY <1>7 DEF LoopEnds, FinishesAtEnd
    <2> QED
      BY <2>1, <2>2
  <1>8. CASE FinishWrite(i)
    <2>1. step[i] = NumActions + 1
      BY <1>8 DEF FinishWrite, FinishesAtEnd
    <2>2. succeeded[ExecOf[i]] = Action
      <3>1. \A b \in Action : b < step[i]
        BY <2>1 DEF Action
      <3>2. Action \subseteq succeeded[ExecOf[i]]
        BY <3>1 DEF PassedSucceeded
      <3>3. succeeded[ExecOf[i]] \subseteq Action
        OBVIOUS
      <3> QED
        BY <3>2, <3>3
    <2>3. SucceededRanEverything'
      BY <1>8, <2>2 DEF FinishWrite, SucceededRanEverything
    <2>4. SkipsSucceeded' /\ PassedSucceeded' /\ CommittedSucceeded' /\ StepsInOrder'
      BY <1>8 DEF FinishWrite, SkipsSucceeded, PassedSucceeded, CommittedSucceeded,
                  StepsInOrder
    <2>5. FinishesAtEnd'
      BY <1>8 DEF FinishWrite, FinishesAtEnd
    <2> QED
      BY <2>3, <2>4, <2>5
  <1> QED
    BY <1>1, <1>2, <1>3, <1>4, <1>5, <1>6, <1>7, <1>8 DEF RunStep

\* An attempt that moves on without committing keeps the invariant.
LEMMA AdvanceOrderInv ==
  ASSUME NEW i \in Instance, NEW a \in Action, NEW n \in Attempt,
         NEW from, NEW to, Advance(i, a, n, from, to),
         from # "idle", to # "committed",
         OrderInv, TypeOK', UNCHANGED <<db, handlers, instance, seen, faults>>
  PROVE  OrderInv'
  <1> USE DEF OrderInv, TypeOK
  <1>1. CommittedSucceeded'
    BY DEF Advance, CommittedSucceeded
  <1>2. StepsInOrder'
    BY DEF Advance, StepsInOrder
  <1>3. SkipsSucceeded' /\ PassedSucceeded' /\ FinishesAtEnd' /\ SucceededRanEverything'
    BY DEF SkipsSucceeded, PassedSucceeded, FinishesAtEnd, SucceededRanEverything
  <1> QED
    BY <1>1, <1>2, <1>3

LEMMA AttemptOrderInv ==
  ASSUME NEW i \in Instance, NEW a \in Action, NEW n \in Attempt,
         OrderInv, TypeOK', AttemptStep(i, a, n)
  PROVE  OrderInv'
  <1>1. CASE InsertRow(i, a, n) \/ RunAction(i, a, n) \/ Throw(i, a, n)
    BY <1>1, AdvanceOrderInv DEF InsertRow, RunAction, Throw
  <1>2. CASE Commit(i, a, n)
    <2> USE DEF OrderInv, TypeOK
    <2>1. \A e \in Exec : succeeded[e] \subseteq succeeded'[e]
      BY <1>2 DEF Commit
    <2>2. a \in succeeded'[ExecOf[i]]
      BY <1>2 DEF Commit
    <2>3. CommittedSucceeded'
      BY <1>2, <2>1, <2>2 DEF Commit, Advance, CommittedSucceeded
    <2>4. StepsInOrder'
      BY <1>2, <2>1 DEF Commit, Advance, StepsInOrder
    <2>5. SkipsSucceeded' /\ PassedSucceeded'
      BY <1>2, <2>1 DEF Commit, SkipsSucceeded, PassedSucceeded
    <2>6. FinishesAtEnd'
      BY <1>2 DEF Commit, FinishesAtEnd
    <2>7. SucceededRanEverything'
      BY <1>2, <2>1 DEF Commit, SucceededRanEverything
    <2> QED
      BY <2>3, <2>4, <2>5, <2>6, <2>7
  <1> QED
    BY <1>1, <1>2 DEF AttemptStep

\* Faults take no row back.
LEMMA FaultOrderInv ==
  ASSUME NEW i \in Instance, OrderInv, TypeOK', Fault(i) PROVE OrderInv'
  <1> USE DEF OrderInv, TypeOK
  <1>1. CASE LoseCallback(i)
    <2>1. SkipsSucceeded' /\ PassedSucceeded' /\ CommittedSucceeded' /\ StepsInOrder'
          /\ SucceededRanEverything'
      BY <1>1 DEF LoseCallback, SkipsSucceeded, PassedSucceeded, CommittedSucceeded,
                  StepsInOrder, SucceededRanEverything
    <2>2. FinishesAtEnd'
      BY <1>1 DEF LoseCallback, Doing, FinishesAtEnd
    <2> QED
      BY <2>1, <2>2
  <1>2. CASE LoseAttempt(i)
    <2>1. \A j \in Instance, a \in Action, n \in Attempt :
            att'[j][a][n] # att[j][a][n]
              => att'[j][a][n] = "lost" /\ att[j][a][n] # "idle"
      <3>1. /\ step[i] \in Action /\ tries[i] \in Attempt
            /\ att[i][step[i]][tries[i]] # "idle"
            /\ att' = [att EXCEPT ![i][step[i]][tries[i]] = "lost"]
        BY <1>2 DEF LoseAttempt, CurrentIs, Unfinished
      <3> QED
        BY <3>1
    <2>2. UNCHANGED <<succeeded, plan, step, status>>
      BY <1>2 DEF LoseAttempt
    <2>3. CommittedSucceeded'
      BY <2>1, <2>2, ZenonT(60) DEF CommittedSucceeded
    <2>6. StepsInOrder'
      BY <2>1, <2>2 DEF StepsInOrder
    <2>4. SkipsSucceeded' /\ PassedSucceeded' /\ SucceededRanEverything'
      BY <2>2 DEF SkipsSucceeded, PassedSucceeded, SucceededRanEverything
    <2>5. FinishesAtEnd'
      BY <1>2 DEF LoseAttempt, Goto, FinishesAtEnd
    <2> QED
      BY <2>3, <2>4, <2>5, <2>6
  <1>3. CASE TimeOut(i)
    <2>1. SkipsSucceeded' /\ PassedSucceeded' /\ CommittedSucceeded' /\ StepsInOrder'
          /\ SucceededRanEverything'
      BY <1>3 DEF TimeOut, SkipsSucceeded, PassedSucceeded, CommittedSucceeded,
                  StepsInOrder, SucceededRanEverything
    <2>2. FinishesAtEnd'
      BY <1>3 DEF TimeOut, FinishesAtEnd
    <2> QED
      BY <2>1, <2>2
  <1> QED
    BY <1>1, <1>2, <1>3 DEF Fault

LEMMA NextOrderInv == OrderInv /\ TypeOK' /\ [Next]_vars => OrderInv'
  <1> SUFFICES ASSUME OrderInv, TypeOK', [Next]_vars PROVE OrderInv'
    OBVIOUS
  <1>1. CASE UNCHANGED vars
    <2>1. UNCHANGED <<succeeded, plan, step, att, pc, status>>
      BY <1>1
    <2> QED
      BY <2>1, OrderFrame
  <1>2. CASE Next
    BY <1>2, HandlersOrderInv, RunStepOrderInv, AttemptOrderInv, FaultOrderInv DEF Next
  <1> QED
    BY <1>1, <1>2

\* The strengthened invariant holds of every reachable state.
THEOREM OrderInvariant == Spec => []OrderInv
  <1> QED
    BY TypeCorrect, InitOrderInv, NextOrderInv, PTL DEF Spec

\* Whatever is lost, late, cancelled or retried, a run that says SUCCEEDED has
\* a SUCCEEDED row for every action of its workflow.
THEOREM SuccessIsComplete == Spec => []SucceededRanEverything
  <1>1. OrderInv => SucceededRanEverything
    BY DEF OrderInv
  <1> QED
    BY <1>1, OrderInvariant, PTL

\* ... and no attempt ever began before the actions ahead of its own succeeded.
THEOREM ActionsRunInOrder == Spec => []StepsInOrder
  <1>1. OrderInv => StepsInOrder
    BY DEF OrderInv
  <1> QED
    BY <1>1, OrderInvariant, PTL
----------------------------------------------------------------------------
(* The checkpoint, when operators retry only what has settled *)

\* What the two properties below need of the constants. Without it they are
\* false: two instances of a run, or an abandoned callback next to its
\* successor, write the one checkpoint in turn. Cancellation is not restricted.
Quiet == RetryAnyStatus = FALSE /\ MaxTimeouts = 0

\* An attempt that may still write; what entitles an instance to its run's rows.
Outstanding(i, a, n) == att[i][a][n] \in {"call", "row", "ok", "bad"}
Pending(i) == \E a \in Action, n \in Attempt : Outstanding(i, a, n)
Claims(i)  == Live(i) \/ retry[i] = "set" \/ Pending(i)

OneClaim ==
  \A i, j \in Instance : ExecOf[i] = ExecOf[j] /\ Claims(i) /\ Claims(j) => i = j

\* An instance exists only once its handler created it.
Created(i) ==
  /\ launch[ExecOf[i]] # "done" => pc[i] = "absent" /\ retry[i] = "none"
  /\ i # First[ExecOf[i]] /\ retry[i] # "done" => pc[i] = "absent"
  /\ i = First[ExecOf[i]] => retry[i] = "none"
  /\ pc[i] = "absent" => ~Pending(i)

\* The status an instance has written or read, unless a cancel overwrote it.
Cancelled(e) == {s \in {"CANCELLED"} : e \in Cancellable}
StatusFits(i) ==
  /\ pc[i] \in {"load", "plan", "loading"}
       => status[ExecOf[i]] \in {"PENDING", "RUNNING"} \cup Cancelled(ExecOf[i])
  /\ pc[i] \in {"loaded", "loop", "attempt"}
       => status[ExecOf[i]] \in {"RUNNING"} \cup Cancelled(ExecOf[i])
  /\ pc[i] = "failing" => status[ExecOf[i]] \in {"RUNNING", "FAILED"} \cup Cancelled(ExecOf[i])
  /\ pc[i] = "failed" => status[ExecOf[i]] \in {"FAILED"} \cup Cancelled(ExecOf[i])
  /\ pc[i] = "finishing"
       => status[ExecOf[i]] \in {"RUNNING", "SUCCEEDED"} \cup Cancelled(ExecOf[i])
  /\ pc[i] = "finished" => status[ExecOf[i]] \in {"SUCCEEDED"} \cup Cancelled(ExecOf[i])
  /\ retry[i] = "set" => status[ExecOf[i]] \in {"PENDING"} \cup Cancelled(ExecOf[i])
  /\ Pending(i) => status[ExecOf[i]] \in {"RUNNING"} \cup Cancelled(ExecOf[i])

\* The one attempt that may write is the current one, and was called with the
\* output of everything that succeeded, but for its own action.
OneAttempt(i) ==
  \A a \in Action, n \in Attempt :
    Outstanding(i, a, n) =>
      /\ a = step[i] /\ n = tries[i]
      /\ pc[i] \in {"attempt", "terminated"}
      /\ seen[i][a] \subseteq succeeded[ExecOf[i]]
      /\ succeeded[ExecOf[i]] \subseteq seen[i][a] \cup {a}

\* What run() holds is what the rows say, up to the step it is at.
PayloadFits(i) ==
  LET rows == succeeded[ExecOf[i]] IN
  /\ pc[i] = "plan" => payload[i] = rows
  /\ pc[i] \in {"loading", "loaded"} => plan[i] = rows /\ payload[i] = rows
  /\ pc[i] \in {"loop", "attempt"} =>
       /\ plan[i] \subseteq payload[i]
       /\ payload[i] \subseteq rows
       /\ rows \subseteq payload[i] \cup {step[i]}
  /\ pc[i] = "attempt" => step[i] \in Action /\ seen[i][step[i]] = payload[i]
  /\ pc[i] \in {"finishing", "finished"} => payload[i] = rows

Fits(i) == Created(i) /\ StatusFits(i) /\ OneAttempt(i) /\ PayloadFits(i)

RowsFit(e) ==
  /\ launch[e] = "none" => status[e] = "NONE" /\ cancel[e] = "none"
  /\ launch[e] \in {"row", "thrown"} => status[e] \in {"PENDING"} \cup Cancelled(e)
  /\ cancel[e] # "none" => e \in Cancellable
  /\ output[e] = succeeded[e]

QuietInv ==
  /\ Quiet
  /\ OrderInv
  /\ OneClaim
  /\ \A i \in Instance : Fits(i)
  /\ \A e \in Exec : RowsFit(e)

\* What the two lemmas of a step leave alone.
SameInstance(j) ==
  /\ pc'[j] = pc[j] /\ plan'[j] = plan[j] /\ payload'[j] = payload[j]
  /\ step'[j] = step[j] /\ tries'[j] = tries[j] /\ retry'[j] = retry[j]
  /\ att'[j] = att[j] /\ seen'[j] = seen[j]
SameRows(e) ==
  /\ status'[e] = status[e] /\ output'[e] = output[e] /\ succeeded'[e] = succeeded[e]
  /\ launch'[e] = launch[e] /\ cancel'[e] = cancel[e]

\* A step inside one run touches the rows of it and one of its instances.
Inside(i) ==
  /\ \A j \in Instance \ {i} : SameInstance(j)
  /\ \A e \in Exec \ {ExecOf[i]} : SameRows(e)

LEMMA SameClaims ==
  ASSUME NEW j \in Instance, SameInstance(j) PROVE Claims(j)' = Claims(j)
  BY DEF SameInstance, Claims, Live, Over, Pending, Outstanding

\* An instance whose run is not touched stays right ...
LEMMA ElsewhereFits ==
  ASSUME NEW j \in Instance, Fits(j), SameInstance(j), SameRows(ExecOf[j]) PROVE Fits(j)'
  <1>1. Pending(j)' = Pending(j)
    BY DEF SameInstance, Pending, Outstanding
  <1>2. Created(j)'
    BY <1>1 DEF Fits, Created, SameInstance, SameRows
  <1>3. StatusFits(j)'
    BY <1>1 DEF Fits, StatusFits, SameInstance, SameRows
  <1>4. OneAttempt(j)'
    BY DEF Fits, OneAttempt, Outstanding, SameInstance, SameRows
  <1>5. PayloadFits(j)'
    BY DEF Fits, PayloadFits, SameInstance, SameRows
  <1> QED
    BY <1>2, <1>3, <1>4, <1>5 DEF Fits

\* ... and so does one that claims nothing, whatever happens to the rows.
LEMMA BystanderFits ==
  ASSUME NEW j \in Instance, Fits(j), ~Claims(j), SameInstance(j), TypeOK, TypeOK',
         launch'[ExecOf[j]] # "done" => launch[ExecOf[j]] # "done"
  PROVE  Fits(j)'
  <1>1. ~Pending(j) /\ ~Pending(j)' /\ pc'[j] \in Over /\ retry'[j] # "set"
    BY DEF SameInstance, Pending, Outstanding, Claims, Live
  <1>2. Created(j)'
    BY <1>1 DEF Fits, Created, SameInstance
  <1>3. StatusFits(j)'
    BY <1>1 DEF StatusFits, Over
  <1>4. OneAttempt(j)'
    BY <1>1 DEF OneAttempt, Pending
  <1>5. PayloadFits(j)'
    BY <1>1 DEF PayloadFits, Over
  <1> QED
    BY <1>2, <1>3, <1>4, <1>5 DEF Fits

\* So of a step inside a run with one claim only that run and the instance
\* that steps have to be looked at.
LEMMA InsideRun ==
  ASSUME NEW i \in Instance, QuietInv, OrderInv', Inside(i),
         launch'[ExecOf[i]] # "done" => launch[ExecOf[i]] # "done",
         \A j \in Instance \ {i} : ExecOf[j] = ExecOf[i] => ~Claims(j),
         Fits(i)', RowsFit(ExecOf[i])'
  PROVE  QuietInv'
  <1>1. \A j \in Instance \ {i} : Claims(j)' = Claims(j)
    BY SameClaims DEF Inside
  <1>2. OneClaim'
    BY <1>1 DEF QuietInv, OneClaim
  <1>3. ASSUME NEW j \in Instance PROVE Fits(j)'
    <2>1. CASE j = i
      BY <2>1
    <2>2. CASE j # i /\ ExecOf[j] = ExecOf[i]
      BY <2>2, BystanderFits DEF QuietInv, Inside, OrderInv
    <2>3. CASE j # i /\ ExecOf[j] # ExecOf[i]
      BY <2>3, ElsewhereFits DEF QuietInv, Inside
    <2> QED
      BY <2>1, <2>2, <2>3
  <1>4. ASSUME NEW e \in Exec PROVE RowsFit(e)'
    <2>1. CASE e = ExecOf[i]
      BY <2>1
    <2>2. CASE e # ExecOf[i]
      BY <2>2 DEF QuietInv, Inside, SameRows, RowsFit
    <2> QED
      BY <2>1, <2>2
  <1> QED
    BY <1>2, <1>3, <1>4 DEF QuietInv, Quiet

\* A claim is made only after the handler of the run is done with its launch.
LEMMA ClaimLaunched ==
  ASSUME NEW i \in Instance, QuietInv, Claims(i) PROVE launch[ExecOf[i]] = "done"
  BY DEF QuietInv, Fits, Created, Claims, Live, Over

\* The steps of an instance that lives, or whose attempt does.
LEMMA ClaimStep ==
  ASSUME NEW i \in Instance, QuietInv, OrderInv', Claims(i), Inside(i),
         launch' = launch, cancel' = cancel,
         output'[ExecOf[i]] = succeeded'[ExecOf[i]],
         Created(i)', StatusFits(i)', OneAttempt(i)', PayloadFits(i)'
  PROVE  QuietInv'
  <1>1. launch[ExecOf[i]] = "done"
    BY ClaimLaunched
  <1>2. RowsFit(ExecOf[i])'
    BY <1>1 DEF QuietInv, RowsFit
  <1>3. \A j \in Instance \ {i} : ExecOf[j] = ExecOf[i] => ~Claims(j)
    BY DEF QuietInv, OneClaim
  <1>4. Fits(i)'
    BY DEF Fits
  <1> QED
    BY <1>2, <1>3, <1>4, InsideRun
LEMMA InitQuiet == Quiet /\ Init => QuietInv
  <1> SUFFICES ASSUME Quiet, Init PROVE QuietInv
    OBVIOUS
  <1>1. OrderInv
    BY InitOrderInv
  <1>2. ASSUME NEW i \in Instance PROVE ~Pending(i) /\ ~Claims(i) /\ pc[i] = "absent"
    BY DEF Init, Pending, Outstanding, Claims, Live, Over
  <1>3. OneClaim
    BY <1>2 DEF OneClaim
  <1>4. ASSUME NEW i \in Instance PROVE Fits(i)
    <2>1. Created(i)
      BY <1>2 DEF Init, Created
    <2>2. StatusFits(i)
      BY <1>2 DEF Init, StatusFits, Status
    <2>3. OneAttempt(i)
      BY <1>2 DEF OneAttempt, Pending
    <2>4. PayloadFits(i)
      BY <1>2 DEF PayloadFits
    <2> QED
      BY <2>1, <2>2, <2>3, <2>4 DEF Fits
  <1>5. ASSUME NEW e \in Exec PROVE RowsFit(e)
    BY DEF Init, RowsFit
  <1> QED
    BY <1>1, <1>3, <1>4, <1>5 DEF QuietInv

\* Before its handler is done, nothing of a run claims its rows.
LEMMA NoClaimBefore ==
  ASSUME NEW e \in Exec, QuietInv, launch[e] # "done"
  PROVE  \A j \in Instance : ExecOf[j] = e => ~Claims(j) /\ pc[j] = "absent" /\ retry[j] = "none"
  BY DEF QuietInv, Fits, Created, Claims, Live, Over

\* The launch: the row, the first instance, or the failure to create it.
LEMMA LaunchQuiet ==
  ASSUME NEW e \in Exec, QuietInv, OrderInv',
         \/ CreateExecution(e) \/ Launch(e) \/ LaunchThrows(e)
         \/ FailUnstarted(e) \/ LaunchLost(e)
  PROVE  QuietInv'
  <1> DEFINE i == First[e]
  <1> USE DEF CreateExecution, Launch, LaunchThrows, FailUnstarted, LaunchLost
  <1>0. TypeOK /\ TypeOK'
    BY DEF QuietInv, OrderInv
  <1>1. i \in Instance /\ ExecOf[i] = e
    OBVIOUS
  <1>2. launch[e] # "done" /\ Fits(i) /\ RowsFit(e) /\ MaxTimeouts = 0
    BY <1>1 DEF QuietInv, Quiet
  <1>3. \A j \in Instance : ExecOf[j] = e => ~Claims(j) /\ pc[j] = "absent" /\ retry[j] = "none"
    BY <1>2, NoClaimBefore
  <1>4. UNCHANGED <<output, succeeded, cancel, retry, plan, payload, step, tries, att, seen>>
    OBVIOUS
  <1>5. \/ pc' = pc
        \/ pc' = [pc EXCEPT ![i] = "load"] /\ Launch(e)
    BY <1>0, <1>2 DEF TypeOK
  <1>6. Inside(i)
    BY <1>0, <1>1, <1>4, <1>5 DEF Inside, SameInstance, SameRows, TypeOK
  <1>7. RowsFit(e)'
    BY <1>0, <1>2, <1>4 DEF RowsFit, TypeOK
  <1>8. ~Pending(i) /\ ~Pending(i)'
    BY <1>1, <1>3, <1>4 DEF Claims, Pending, Outstanding
  <1>9. Fits(i)'
    <2>1. Created(i)'
      BY <1>0, <1>1, <1>3, <1>4, <1>5, <1>8 DEF Created, TypeOK
    <2>2. StatusFits(i)'
      <3>1. CASE pc' = pc
        BY <1>0, <1>1, <1>3, <1>4, <1>8, <3>1 DEF StatusFits, TypeOK
      <3>2. CASE pc' = [pc EXCEPT ![i] = "load"] /\ Launch(e)
        BY <1>0, <1>1, <1>2, <1>3, <1>4, <1>8, <3>2 DEF StatusFits, RowsFit, TypeOK
      <3> QED
        BY <1>5, <3>1, <3>2
    <2>3. OneAttempt(i)'
      BY <1>8 DEF OneAttempt, Pending
    <2>4. PayloadFits(i)'
      BY <1>0, <1>1, <1>3, <1>5 DEF PayloadFits, TypeOK
    <2> QED
      BY <2>1, <2>2, <2>3, <2>4 DEF Fits
  <1> QED
    BY <1>1, <1>2, <1>3, <1>6, <1>7, <1>9, InsideRun

\* A cancel overwrites a status that was PENDING when it looked.
LEMMA CancelQuiet ==
  ASSUME NEW e \in Exec, QuietInv, OrderInv', CancelRead(e) \/ CancelWrite(e)
  PROVE  QuietInv'
  <1> USE DEF CancelRead, CancelWrite
  <1>0. TypeOK /\ TypeOK'
    BY DEF QuietInv, OrderInv
  <1>1. UNCHANGED <<output, succeeded, launch, retry, pc, plan, payload, step, tries, att, seen>>
    OBVIOUS
  <1>2. e \in Cancellable /\ launch[e] # "none"
    BY <1>0 DEF QuietInv, RowsFit
  <1>3. \A f \in Exec : status'[f] = status[f] \/ status'[f] \in Cancelled(f)
    BY <1>0, <1>2 DEF Cancelled, TypeOK
  <1>4. OneClaim'
    BY <1>1, SameClaims DEF QuietInv, OneClaim, SameInstance
  <1>5. ASSUME NEW j \in Instance PROVE Fits(j)'
    <2>1. Fits(j) /\ Pending(j)' = Pending(j)
      BY <1>1 DEF QuietInv, Pending, Outstanding
    <2>2. Created(j)'
      BY <1>1, <2>1 DEF Fits, Created
    <2>3. StatusFits(j)'
      BY <1>1, <1>3, <2>1 DEF Fits, StatusFits
    <2>4. OneAttempt(j)' /\ PayloadFits(j)'
      BY <1>1, <2>1 DEF Fits, OneAttempt, Outstanding, PayloadFits
    <2> QED
      BY <2>2, <2>3, <2>4 DEF Fits
  <1>6. ASSUME NEW f \in Exec PROVE RowsFit(f)'
    BY <1>0, <1>1, <1>2, <1>3 DEF QuietInv, RowsFit, TypeOK
  <1> QED
    BY <1>4, <1>5, <1>6 DEF QuietInv, Quiet

LEMMA TerminateQuiet ==
  ASSUME NEW e \in Exec, QuietInv, OrderInv', CancelTerminate(e) PROVE QuietInv'
  <1> DEFINE i == First[e]
  <1>0. TypeOK /\ TypeOK'
    BY DEF QuietInv, OrderInv
  <1>1. i \in Instance /\ ExecOf[i] = e
    OBVIOUS
  <1>2. UNCHANGED <<status, output, succeeded, launch, retry, plan, payload, step, tries, att, seen>>
        /\ cancel' = [cancel EXCEPT ![e] = "done"] /\ cancel[e] = "written"
    BY DEF CancelTerminate
  <1>3. RowsFit(e)'
    BY <1>0, <1>2 DEF QuietInv, RowsFit, TypeOK
  <1>4. CASE UNCHANGED pc
    <2>1. \A j \in Instance : SameInstance(j)
      BY <1>2, <1>4 DEF SameInstance
    <2>2. OneClaim'
      BY <2>1, SameClaims DEF QuietInv, OneClaim
    <2>3. ASSUME NEW j \in Instance PROVE Fits(j)'
      <3>1. Fits(j) /\ Pending(j)' = Pending(j)
        BY <1>2 DEF QuietInv, Pending, Outstanding
      <3> QED
        BY <1>2, <1>4, <3>1 DEF Fits, Created, StatusFits, OneAttempt, Outstanding, PayloadFits
    <2>4. ASSUME NEW f \in Exec PROVE RowsFit(f)'
      BY <1>0, <1>2 DEF QuietInv, RowsFit, TypeOK
    <2> QED
      BY <2>2, <2>3, <2>4 DEF QuietInv, Quiet
  <1>5. CASE Live(i) /\ pc' = [pc EXCEPT ![i] = "terminated"]
    <2>1. Inside(i)
      BY <1>0, <1>1, <1>2, <1>5 DEF Inside, SameInstance, SameRows, TypeOK
    <2>2. Claims(i) /\ Fits(i) /\ Pending(i)' = Pending(i) /\ pc'[i] = "terminated" /\ pc[i] # "absent"
      BY <1>0, <1>1, <1>2, <1>5 DEF Claims, QuietInv, Pending, Outstanding, Live, Over, TypeOK
    <2>3. Created(i)'
      BY <1>1, <1>2, <2>2, ClaimLaunched DEF Fits, Created
    <2>4. StatusFits(i)'
      BY <1>0, <1>1, <1>2, <2>2 DEF Fits, StatusFits, TypeOK
    <2>5. OneAttempt(i)' /\ PayloadFits(i)'
      BY <1>2, <2>2 DEF Fits, OneAttempt, Outstanding, PayloadFits
    <2>6. \A j \in Instance \ {i} : ExecOf[j] = ExecOf[i] => ~Claims(j)
      BY <1>1, <2>2 DEF QuietInv, OneClaim
    <2> QED
      BY <1>1, <1>2, <1>3, <2>1, <2>3, <2>4, <2>5, <2>6, InsideRun DEF Fits
  <1> QED
    BY <1>4, <1>5 DEF CancelTerminate
\* A retry of a settled FAILED run finds no instance and no attempt of it.
LEMMA RetryQuiet ==
  ASSUME NEW i \in Instance, QuietInv, OrderInv', AdminRetry(i) PROVE QuietInv'
  <1> DEFINE e == ExecOf[i]
  <1>0. TypeOK /\ TypeOK' /\ e \in Exec /\ Fits(i) /\ RowsFit(e)
    BY DEF QuietInv, OrderInv
  <1>1. CASE RetryWrite(i)
    <2>1. /\ i # First[e] /\ retry[i] = "none" /\ status[e] = "FAILED" /\ Settled(e)
          /\ retry' = [retry EXCEPT ![i] = "set"]
          /\ status' = [status EXCEPT ![e] = "PENDING"]
          /\ UNCHANGED <<output, succeeded, launch, cancel, pc, plan, payload, step, tries, att, seen>>
      BY <1>1 DEF RetryWrite, QuietInv, Quiet
    <2>2. \A j \in Instance : ExecOf[j] = e => ~Claims(j)
      BY <2>1 DEF Settled, InstancesOf, Claims, QuietInv, Fits, StatusFits, Cancelled
    <2>3. ~Pending(i) /\ Pending(i)' = Pending(i) /\ pc[i] = "absent"
      BY <1>0, <2>1, <2>2 DEF Claims, Pending, Outstanding, Fits, Created
    <2>4. Created(i)'
      BY <1>0, <2>1, <2>3 DEF Created, TypeOK, Settled
    <2>5. StatusFits(i)'
      BY <1>0, <2>1, <2>3 DEF StatusFits, TypeOK
    <2>6. OneAttempt(i)' /\ PayloadFits(i)'
      BY <2>1, <2>3 DEF OneAttempt, Pending, PayloadFits
    <2>7. RowsFit(e)'
      BY <1>0, <2>1 DEF RowsFit, TypeOK, Settled
    <2>8. Inside(i)
      BY <1>0, <2>1 DEF Inside, SameInstance, SameRows, TypeOK
    <2> QED
      BY <2>1, <2>2, <2>4, <2>5, <2>6, <2>7, <2>8, InsideRun DEF Fits
  <1>2. CASE RetryCreate(i) \/ RetryLost(i)
    <2>1. /\ retry[i] = "set" /\ retry' = [retry EXCEPT ![i] = "done"]
          /\ UNCHANGED <<status, output, succeeded, launch, cancel, plan, payload, step, tries, att, seen>>
          /\ UNCHANGED pc \/ pc' = [pc EXCEPT ![i] = "load"]
      BY <1>2 DEF RetryCreate, RetryLost
    <2>2. Claims(i) /\ i # First[e] /\ pc[i] = "absent" /\ ~Pending(i) /\ Pending(i)' = Pending(i)
      BY <1>0, <2>1 DEF Claims, Pending, Outstanding, Fits, Created
    <2>3. launch[e] = "done"
      BY <2>2, ClaimLaunched
    <2>4. Created(i)'
      BY <1>0, <2>1, <2>2, <2>3 DEF Created, TypeOK
    <2>5. StatusFits(i)'
      BY <1>0, <2>1, <2>2 DEF Fits, StatusFits, TypeOK
    <2>6. OneAttempt(i)' /\ PayloadFits(i)'
      BY <1>0, <2>1, <2>2 DEF OneAttempt, Pending, PayloadFits, TypeOK
    <2>7. Inside(i) /\ output'[e] = succeeded'[e]
      BY <1>0, <2>1 DEF Inside, SameInstance, SameRows, TypeOK, RowsFit
    <2> QED
      BY <2>1, <2>2, <2>4, <2>5, <2>6, <2>7, ClaimStep
  <1> QED
    BY <1>1, <1>2 DEF AdminRetry

\* An instance that lives goes on living, or ends: it stays created.
LEMMA LivesOn ==
  ASSUME NEW i \in Instance, QuietInv, Live(i), NEW p \in Place \ {"absent"},
         pc' = [pc EXCEPT ![i] = p], UNCHANGED <<retry, launch>>
  PROVE  Claims(i) /\ Created(i)' /\ pc'[i] = p
  <1>1. Claims(i) /\ launch[ExecOf[i]] = "done" /\ pc'[i] = p
    BY ClaimLaunched DEF Claims, QuietInv, OrderInv, TypeOK
  <1>2. Created(i)'
    BY <1>1 DEF QuietInv, Fits, Created, Live, Over
  <1> QED
    BY <1>1, <1>2

\* Outside "attempt" no attempt may write, and none does after a step that
\* leaves the attempts alone.
LEMMA NothingPending ==
  ASSUME NEW i \in Instance, QuietInv, att' = att,
         pc[i] \notin {"attempt", "terminated"} \/ (\E p \in Phase : CurrentIs(i, p) /\ p \notin {"call", "row", "ok", "bad"})
  PROVE  ~Pending(i) /\ ~Pending(i)' /\ OneAttempt(i)'
  <1>1. ~Pending(i)
    BY DEF QuietInv, Fits, OneAttempt, Pending, Outstanding, CurrentIs
  <1>2. ~Pending(i)'
    BY <1>1 DEF Pending, Outstanding
  <1> QED
    BY <1>1, <1>2 DEF OneAttempt, Pending

\* The steps of load.
LEMMA LoadQuiet ==
  ASSUME NEW i \in Instance, QuietInv, OrderInv',
         LoadFind(i) \/ LoadPlan(i) \/ LoadWrite(i) \/ LoadPersist(i)
  PROVE  QuietInv'
  <1> DEFINE e == ExecOf[i]
  <1>0. TypeOK /\ TypeOK' /\ e \in Exec /\ Fits(i) /\ output[e] = succeeded[e]
    BY DEF QuietInv, OrderInv, RowsFit
  <1>1. UNCHANGED <<output, succeeded, launch, cancel, retry, att, seen>>
    BY DEF LoadFind, LoadPlan, LoadWrite, LoadPersist
  <1>2. pc[i] \in {"load", "plan", "loading", "loaded"} /\ Live(i)
    BY DEF LoadFind, LoadPlan, LoadWrite, LoadPersist, Goto, Live, Over
  <1>3. PICK p \in Place \ {"absent"} : pc' = [pc EXCEPT ![i] = p]
    BY DEF LoadFind, LoadPlan, LoadWrite, LoadPersist, Goto, Place
  <1>4. Claims(i) /\ Created(i)' /\ pc'[i] = p
    BY <1>1, <1>2, <1>3, LivesOn
  <1>5. ~Pending(i) /\ ~Pending(i)' /\ OneAttempt(i)'
    BY <1>1, <1>2, NothingPending
  <1>6. Inside(i)
    BY <1>0, <1>1, <1>3 DEF LoadFind, LoadPlan, LoadWrite, LoadPersist, Inside,
                            SameInstance, SameRows, TypeOK
  <1>7. retry[i] # "set"
    BY <1>0, <1>2 DEF Fits, Created
  <1>8. StatusFits(i)' /\ PayloadFits(i)'
    <2>1. CASE LoadFind(i)
      <3>1. CASE Goto(i, "load", "done")
        BY <1>0, <1>1, <1>5, <1>7, <3>1 DEF Goto, StatusFits, PayloadFits, TypeOK
      <3>2. CASE Goto(i, "load", "plan") /\ payload' = [payload EXCEPT ![i] = output[e]]
                 /\ UNCHANGED status
        BY <1>0, <1>1, <1>5, <1>7, <3>2 DEF Goto, Fits, StatusFits, PayloadFits, TypeOK
      <3> QED
        BY <2>1, <3>1, <3>2 DEF LoadFind
    <2>2. CASE LoadPlan(i)
      BY <1>0, <1>1, <1>5, <1>7, <2>2 DEF LoadPlan, Goto, Fits, StatusFits, PayloadFits, TypeOK
    <2>3. CASE LoadWrite(i)
      BY <1>0, <1>1, <1>5, <1>7, <2>3 DEF LoadWrite, Goto, Fits, StatusFits, PayloadFits, TypeOK
    <2>4. CASE LoadPersist(i)
      BY <1>0, <1>1, <1>5, <1>7, <2>4 DEF LoadPersist, Goto, Fits, StatusFits, PayloadFits, TypeOK
    <2> QED
      BY <2>1, <2>2, <2>3, <2>4
  <1> QED
    BY <1>0, <1>1, <1>4, <1>5, <1>6, <1>8, ClaimStep
\* The steps of the loop that call nothing.
LEMMA LoopQuiet ==
  ASSUME NEW i \in Instance, QuietInv, OrderInv',
         Skip(i) \/ StepDone(i) \/ StepThrew(i) \/ StepExhausted(i) \/ LoopEnds(i)
  PROVE  QuietInv'
  <1> DEFINE e == ExecOf[i]
  <1> USE DEF Skip, StepDone, StepThrew, StepExhausted, LoopEnds, Goto
  <1>0. TypeOK /\ TypeOK' /\ e \in Exec /\ Fits(i) /\ output[e] = succeeded[e]
    BY DEF QuietInv, OrderInv, RowsFit
  <1>1. UNCHANGED <<status, output, succeeded, launch, cancel, retry, att, seen, plan>>
    OBVIOUS
  <1>2. pc[i] \in {"loop", "attempt"} /\ Live(i)
    BY DEF Live, Over
  <1>3. PICK p \in {"loop", "failing", "finishing"} : pc' = [pc EXCEPT ![i] = p]
    BY <1>0 DEF TypeOK
  <1>4. Claims(i) /\ Created(i)' /\ pc'[i] = p
    BY <1>1, <1>2, <1>3, LivesOn DEF Place
  <1>5. ~Pending(i) /\ ~Pending(i)' /\ OneAttempt(i)'
    BY <1>1, <1>2, NothingPending DEF Phase
  <1>6. Inside(i)
    BY <1>0, <1>1, <1>3 DEF Inside, SameInstance, SameRows, TypeOK
  <1>7. retry[i] # "set"
    BY <1>0, <1>2 DEF Fits, Created
  <1>8. StatusFits(i)'
    BY <1>0, <1>1, <1>2, <1>4, <1>5, <1>7 DEF Fits, StatusFits
  <1>9. PayloadFits(i)'
    <2>1. /\ plan[i] \subseteq payload[i] /\ payload[i] \subseteq succeeded[e]
          /\ succeeded[e] \subseteq payload[i] \cup {step[i]}
      BY <1>0, <1>2 DEF Fits, PayloadFits
    <2>2. CASE Skip(i)
      BY <1>0, <1>1, <2>1, <2>2 DEF PayloadFits, TypeOK
    <2>3. CASE StepDone(i)
      <3>1. step[i] \in succeeded[e] /\ seen[i][step[i]] = payload[i]
        BY <1>0, <2>3 DEF CurrentIs, QuietInv, OrderInv, CommittedSucceeded, Fits, PayloadFits
      <3> QED
        BY <1>0, <1>1, <2>1, <2>3, <3>1 DEF PayloadFits, TypeOK
    <2>4. CASE StepThrew(i)
      BY <1>0, <1>1, <1>4, <2>1, <2>4 DEF PayloadFits, TypeOK
    <2>5. CASE StepExhausted(i)
      BY <1>0, <1>1, <2>5 DEF PayloadFits, TypeOK
    <2>6. CASE LoopEnds(i)
      <3>1. NumActions + 1 \notin succeeded[e]
        BY <1>0 DEF TypeOK, Action
      <3>2. payload[i] = succeeded[e]
        <4>1. step[i] \notin succeeded[e]
          BY <2>6, <3>1
        <4> QED
          BY <2>1, <4>1, ZenonT(60)
      <3>3. pc'[i] = "finishing" /\ payload' = payload
        BY <1>0, <2>6 DEF TypeOK
      <3> QED
        BY <1>1, <3>2, <3>3 DEF PayloadFits
    <2> QED
      BY <2>2, <2>3, <2>4, <2>5, <2>6
  <1> QED
    BY <1>0, <1>1, <1>4, <1>5, <1>6, <1>8, <1>9, ClaimStep

\* A new attempt is the only one that may write.
LEMMA StartQuiet ==
  ASSUME NEW i \in Instance, QuietInv, OrderInv', StartAttempt(i) PROVE QuietInv'
  <1> DEFINE e == ExecOf[i]
  <1>0. TypeOK /\ TypeOK' /\ e \in Exec /\ Fits(i) /\ output[e] = succeeded[e]
    BY DEF QuietInv, OrderInv, RowsFit
  <1>1. /\ UNCHANGED <<status, output, succeeded, launch, cancel, retry, plan, payload, step>>
        /\ pc[i] = "loop" /\ pc' = [pc EXCEPT ![i] = "attempt"]
        /\ step[i] \in Action
        /\ tries' = [tries EXCEPT ![i] = @ + 1]
        /\ att' = [att EXCEPT ![i][step[i]][tries[i] + 1] = "call"]
        /\ seen' = [seen EXCEPT ![i][step[i]] = payload[i]]
    BY DEF StartAttempt, Goto
  <1>2. Live(i) /\ ~Pending(i)
    BY <1>0, <1>1 DEF Live, Over, Fits, OneAttempt, Pending, Outstanding
  <1>3. Claims(i) /\ Created(i)' /\ pc'[i] = "attempt"
    BY <1>1, <1>2, LivesOn DEF Place
  <1>4. Inside(i)
    BY <1>0, <1>1 DEF Inside, SameInstance, SameRows, TypeOK
  <1>5. retry[i] # "set"
    BY <1>0, <1>1 DEF Fits, Created
  <1>6. StatusFits(i)'
    BY <1>0, <1>1, <1>3, <1>5 DEF Fits, StatusFits
  <1>7. seen'[i][step[i]] = payload[i] /\ tries'[i] = tries[i] + 1
    BY <1>0, <1>1 DEF TypeOK
  <1>8. PayloadFits(i)'
    BY <1>0, <1>1, <1>3, <1>7 DEF Fits, PayloadFits
  <1>9. OneAttempt(i)'
    <2> SUFFICES ASSUME NEW a \in Action, NEW n \in Attempt, att'[i][a][n] \in {"call", "row", "ok", "bad"}
                 PROVE  /\ a = step'[i] /\ n = tries'[i] /\ pc'[i] \in {"attempt", "terminated"}
                        /\ seen'[i][a] \subseteq succeeded'[e]
                        /\ succeeded'[e] \subseteq seen'[i][a] \cup {a}
      BY DEF OneAttempt, Outstanding
    <2>1. a = step[i] /\ n = tries[i] + 1
      BY <1>0, <1>1, <1>2 DEF TypeOK, Pending, Outstanding
    <2> QED
      BY <1>0, <1>1, <1>3, <1>7, <2>1 DEF Fits, PayloadFits
  <1> QED
    BY <1>0, <1>1, <1>3, <1>4, <1>6, <1>8, <1>9, ClaimStep

\* The last writes of a run, and its return.
LEMMA EndQuiet ==
  ASSUME NEW i \in Instance, QuietInv, OrderInv',
         FailWrite(i) \/ FinishWrite(i) \/ Return(i)
  PROVE  QuietInv'
  <1> DEFINE e == ExecOf[i]
  <1>0. TypeOK /\ TypeOK' /\ e \in Exec /\ Fits(i) /\ output[e] = succeeded[e]
    BY DEF QuietInv, OrderInv, RowsFit
  <1>1. UNCHANGED <<succeeded, launch, cancel, retry, att, seen, plan, payload, step, tries>>
    BY DEF FailWrite, FinishWrite, Return
  <1>2. pc[i] \in {"failing", "finishing", "failed", "finished"} /\ Live(i)
    BY DEF FailWrite, FinishWrite, Return, Goto, Live, Over
  <1>3. PICK p \in {"failed", "finished", "done"} : pc' = [pc EXCEPT ![i] = p]
    BY DEF FailWrite, FinishWrite, Return, Goto
  <1>4. Claims(i) /\ Created(i)' /\ pc'[i] = p
    BY <1>1, <1>2, <1>3, LivesOn DEF Place
  <1>5. ~Pending(i) /\ ~Pending(i)' /\ OneAttempt(i)'
    BY <1>1, <1>2, NothingPending
  <1>6. Inside(i)
    BY <1>0, <1>1, <1>3 DEF FailWrite, FinishWrite, Return, Inside, SameInstance, SameRows, TypeOK
  <1>7. retry[i] # "set"
    BY <1>0, <1>2 DEF Fits, Created
  <1>8. StatusFits(i)' /\ PayloadFits(i)' /\ output'[e] = succeeded'[e]
    <2>1. CASE FailWrite(i)
      BY <1>0, <1>1, <1>5, <1>7, <2>1 DEF FailWrite, Goto, StatusFits, PayloadFits, TypeOK
    <2>2. CASE FinishWrite(i)
      BY <1>0, <1>1, <1>5, <1>7, <2>2 DEF FinishWrite, Goto, Fits, StatusFits, PayloadFits, TypeOK
    <2>3. CASE Return(i)
      <3>1. pc'[i] = "done" /\ output' = output
        BY <1>0, <2>3 DEF Return, Goto, TypeOK
      <3> QED
        BY <1>0, <1>1, <1>5, <1>7, <3>1 DEF StatusFits, PayloadFits
    <2> QED
      BY <2>1, <2>2, <2>3
  <1> QED
    BY <1>1, <1>4, <1>5, <1>6, <1>8, ClaimStep

\* An attempt that may write is alone with the rows of its run; the batch adds
\* its action to both of them.
LEMMA AttemptQuiet ==
  ASSUME NEW i \in Instance, NEW a \in Action, NEW n \in Attempt,
         QuietInv, OrderInv', AttemptStep(i, a, n)
  PROVE  QuietInv'
  <1> DEFINE e == ExecOf[i]
  <1>0. TypeOK /\ TypeOK' /\ e \in Exec /\ Fits(i) /\ output[e] = succeeded[e]
    BY DEF QuietInv, OrderInv, RowsFit
  <1>1. UNCHANGED <<status, launch, cancel, retry, pc, plan, payload, step, tries, seen>>
    BY DEF AttemptStep, InsertRow, RunAction, Commit, Throw
  <1>2. PICK p \in Phase : att' = [att EXCEPT ![i][a][n] = p]
    BY DEF AttemptStep, InsertRow, RunAction, Commit, Throw, Advance, Phase
  <1>3. Outstanding(i, a, n)
    BY DEF AttemptStep, InsertRow, RunAction, Commit, Throw, Advance, Outstanding
  <1>4. /\ Pending(i) /\ Claims(i) /\ pc[i] \in {"attempt", "terminated"} /\ a = step[i] /\ n = tries[i]
        /\ seen[i][a] \subseteq succeeded[e] /\ succeeded[e] \subseteq seen[i][a] \cup {a}
    BY <1>0, <1>3 DEF Pending, Claims, Fits, OneAttempt
  <1>5. \/ UNCHANGED <<output, succeeded>>
        \/ /\ p = "committed"
           /\ succeeded' = [succeeded EXCEPT ![e] = @ \cup {a}]
           /\ output' = [output EXCEPT ![e] = seen[i][a] \cup {a}]
    <2>1. CASE Commit(i, a, n)
      BY <1>0, <1>2, <2>1 DEF Commit, Advance, TypeOK
    <2>2. CASE InsertRow(i, a, n) \/ RunAction(i, a, n) \/ Throw(i, a, n)
      BY <2>2 DEF InsertRow, RunAction, Throw
    <2> QED
      BY <2>1, <2>2 DEF AttemptStep
  <1>6. /\ output'[e] = succeeded'[e]
        /\ succeeded[e] \subseteq succeeded'[e] /\ succeeded'[e] \subseteq succeeded[e] \cup {a}
    <2>1. CASE UNCHANGED <<output, succeeded>>
      BY <1>0, <2>1
    <2>2. CASE /\ succeeded' = [succeeded EXCEPT ![e] = @ \cup {a}]
               /\ output' = [output EXCEPT ![e] = seen[i][a] \cup {a}]
      <3>1. succeeded'[e] = succeeded[e] \cup {a} /\ output'[e] = seen[i][a] \cup {a}
        BY <1>0, <2>2 DEF TypeOK
      <3>2. succeeded[e] \cup {a} = seen[i][a] \cup {a}
        BY <1>4
      <3> QED
        BY <3>1, <3>2
    <2> QED
      BY <1>5, <2>1, <2>2
  <1>7. Inside(i)
    BY <1>0, <1>1, <1>2, <1>5 DEF Inside, SameInstance, SameRows, TypeOK
  <1>8. Created(i)'
    BY <1>0, <1>1, <1>4 DEF Fits, Created
  <1>9. retry[i] # "set"
    BY <1>0, <1>4 DEF Fits, Created
  <1>10. StatusFits(i)'
    BY <1>0, <1>1, <1>4, <1>9 DEF Fits, StatusFits
  <1>11. OneAttempt(i)'
    <2> SUFFICES ASSUME NEW b \in Action, NEW m \in Attempt, att'[i][b][m] \in {"call", "row", "ok", "bad"}
                 PROVE  /\ b = step'[i] /\ m = tries'[i] /\ pc'[i] \in {"attempt", "terminated"}
                        /\ seen'[i][b] \subseteq succeeded'[e]
                        /\ succeeded'[e] \subseteq seen'[i][b] \cup {b}
      BY DEF OneAttempt, Outstanding
    <2>1. b = a /\ m = n
      BY <1>0, <1>2, <1>4 DEF TypeOK, Fits, OneAttempt, Outstanding
    <2> QED
      BY <1>1, <1>4, <1>6, <2>1
  <1>12. PayloadFits(i)'
    <2>1. CASE pc[i] = "attempt"
      BY <1>0, <1>1, <1>4, <1>6, <2>1 DEF Fits, PayloadFits
    <2>2. CASE pc[i] = "terminated"
      BY <1>1, <2>2 DEF PayloadFits
    <2> QED
      BY <1>4, <2>1, <2>2
  <1> QED
    BY <1>1, <1>4, <1>6, <1>7, <1>8, <1>10, <1>11, <1>12, ClaimStep

\* Lost callbacks and attempts; a call that is given up on is over.
LEMMA FaultQuiet ==
  ASSUME NEW i \in Instance, QuietInv, OrderInv', Fault(i) PROVE QuietInv'
  <1> DEFINE e == ExecOf[i]
  <1>0. TypeOK /\ TypeOK' /\ e \in Exec /\ Fits(i) /\ output[e] = succeeded[e]
    BY DEF QuietInv, OrderInv, RowsFit
  <1>1. CASE LoseCallback(i)
    <2>1. UNCHANGED <<status, output, succeeded, launch, cancel, retry, plan, payload, step, att, seen>>
          /\ tries' = [tries EXCEPT ![i] = @ + 1]
      BY <1>1 DEF LoseCallback
    <2>2. pc[i] \notin {"attempt", "terminated"} /\ Live(i)
      BY <1>1 DEF LoseCallback, Doing, Live, Over
    <2>3. PICK p \in {"load", "failing", "finishing", "errored"} :
            /\ pc' = [pc EXCEPT ![i] = p]
            /\ p \in {Doing(i), "errored"}
      BY <1>1 DEF LoseCallback, Doing
    <2>4. Claims(i) /\ Created(i)' /\ pc'[i] = p
      BY <2>1, <2>2, <2>3, LivesOn DEF Place
    <2>5. ~Pending(i) /\ ~Pending(i)' /\ OneAttempt(i)'
      BY <2>1, <2>2, NothingPending
    <2>6. Inside(i)
      BY <1>0, <2>1, <2>3 DEF Inside, SameInstance, SameRows, TypeOK
    <2>7. retry[i] # "set"
      BY <1>0, <2>2 DEF Fits, Created, Live, Over
    <2>8. StatusFits(i)' /\ PayloadFits(i)'
      BY <1>0, <2>1, <2>3, <2>4, <2>5, <2>7 DEF Fits, StatusFits, PayloadFits, Doing
    <2> QED
      BY <1>0, <2>1, <2>4, <2>5, <2>6, <2>8, ClaimStep
  <1>2. CASE LoseAttempt(i)
    <2>1. /\ UNCHANGED <<status, output, succeeded, launch, cancel, retry, plan, payload, step, tries, seen>>
          /\ att' = [att EXCEPT ![i][step[i]][tries[i]] = "lost"]
          /\ pc[i] = "attempt" /\ pc' = [pc EXCEPT ![i] = "loop"]
          /\ step[i] \in Action /\ tries[i] \in Attempt
      BY <1>2 DEF LoseAttempt, Goto, CurrentIs
    <2>2. Live(i)
      BY <2>1 DEF Live, Over
    <2>3. Claims(i) /\ Created(i)' /\ pc'[i] = "loop"
      BY <2>1, <2>2, LivesOn DEF Place
    <2>4. ~Pending(i)'
      BY <1>0, <2>1 DEF TypeOK, Fits, OneAttempt, Pending, Outstanding
    <2>5. OneAttempt(i)'
      BY <2>4 DEF OneAttempt, Pending
    <2>6. Inside(i)
      BY <1>0, <2>1 DEF Inside, SameInstance, SameRows, TypeOK
    <2>7. StatusFits(i)'
      BY <1>0, <2>1, <2>3, <2>4 DEF Fits, Created, StatusFits
    <2>8. PayloadFits(i)'
      BY <1>0, <2>1, <2>3 DEF Fits, PayloadFits
    <2> QED
      BY <1>0, <2>1, <2>3, <2>5, <2>6, <2>7, <2>8, ClaimStep
  <1>3. CASE TimeOut(i)
    BY <1>0, <1>3 DEF TimeOut, TypeOK, QuietInv, Quiet
  <1> QED
    BY <1>1, <1>2, <1>3 DEF Fault

LEMMA NextQuiet == QuietInv /\ OrderInv' /\ [Next]_vars => QuietInv'
  <1> SUFFICES ASSUME QuietInv, OrderInv', [Next]_vars PROVE QuietInv'
    OBVIOUS
  <1>1. CASE UNCHANGED vars
    <2>1. \A j \in Instance : SameInstance(j)
      BY <1>1 DEF SameInstance
    <2>2. \A e \in Exec : SameRows(e)
      BY <1>1 DEF SameRows
    <2>3. OneClaim'
      BY <2>1, SameClaims DEF QuietInv, OneClaim
    <2>4. \A i \in Instance : Fits(i)'
      BY <2>1, <2>2, ElsewhereFits DEF QuietInv
    <2>5. \A e \in Exec : RowsFit(e)'
      BY <2>2 DEF QuietInv, RowsFit, SameRows
    <2> QED
      BY <2>3, <2>4, <2>5 DEF QuietInv, Quiet
  <1>2. CASE \E e \in Exec : Handler(e)
    BY <1>2, LaunchQuiet, CancelQuiet, TerminateQuiet DEF Handler
  <1>3. CASE \E i \in Instance : AdminRetry(i) \/ RunStep(i) \/ Fault(i)
    BY <1>3, RetryQuiet, LoadQuiet, LoopQuiet, StartQuiet, EndQuiet, FaultQuiet DEF RunStep
  <1>4. CASE \E i \in Instance, a \in Action, n \in Attempt : AttemptStep(i, a, n)
    BY <1>4, AttemptQuiet
  <1> QED
    BY <1>1, <1>2, <1>3, <1>4 DEF Next

\* The strengthened invariant of the quiet system.
THEOREM QuietInvariant == Quiet /\ Spec => []QuietInv
  <1> QED
    BY OrderInvariant, InitQuiet, NextQuiet, PTL DEF Spec

\* A SUCCEEDED row and its output are saved together and nothing takes either
\* back: the checkpoint holds the outputs of the rows, whatever crashes.
THEOREM CheckpointKept == Quiet /\ Spec => []CheckpointMatchesRows
  <1>1. QuietInv => CheckpointMatchesRows
    BY DEF QuietInv, RowsFit, CheckpointMatchesRows
  <1> QED
    BY <1>1, QuietInvariant, PTL

\* No step runs without the output of a step ahead of it.
THEOREM StepsSeeOutputs == Quiet /\ Spec => []StepSeesEarlierOutput
  <1>1. ASSUME QuietInv PROVE StepSeesEarlierOutput
    <2> SUFFICES ASSUME NEW i \in Instance, NEW a \in Action, NEW n \in Attempt,
                        att[i][a][n] \in {"call", "row"}, NEW b \in Action, b < a
                 PROVE  b \in seen[i][a]
      BY DEF StepSeesEarlierOutput
    <2>1. b \in succeeded[ExecOf[i]]
      BY <1>1 DEF QuietInv, OrderInv, StepsInOrder
    <2>2. succeeded[ExecOf[i]] \subseteq seen[i][a] \cup {a}
      BY <1>1 DEF QuietInv, Fits, OneAttempt, Outstanding
    <2>3. b # a
      BY DEF Action
    <2> QED
      BY <2>1, <2>2, <2>3
  <1> QED
    BY <1>1, QuietInvariant, PTL
----------------------------------------------------------------------------
(* The refinement of Run, when nothing is cancelled *)

\* A write of a status is a move of Run, or writes what is there already.
LEMMA StatusMove ==
  ASSUME NEW e \in Exec, NEW from, NEW to, TypeOK,
         status[e] \in from, status' = [status EXCEPT ![e] = to],
         UNCHANGED <<output, succeeded>>
  PROVE  Promise!Move(e, from, to)
  BY DEF Promise!Move

LEMMA SameStatus ==
  ASSUME NEW e \in Exec, NEW to, TypeOK, status[e] = to,
         status' = [status EXCEPT ![e] = to], UNCHANGED <<output, succeeded>>
  PROVE  UNCHANGED Promise!vars
  BY DEF TypeOK, Promise!vars

LEMMA HandlerRefines ==
  ASSUME NEW e \in Exec, QuietInv, Cancellable = {}, Handler(e)
  PROVE  [Promise!Next]_(Promise!vars)
  <1>0. TypeOK /\ RowsFit(e)
    BY DEF QuietInv, OrderInv
  <1>1. CASE CreateExecution(e)
    <2>1. status[e] \in {"NONE"}
      BY <1>0, <1>1 DEF CreateExecution, RowsFit
    <2>2. Promise!Submit(e)
      BY <1>0, <1>1, <2>1, StatusMove DEF CreateExecution, Promise!Submit
    <2> QED
      BY <2>2 DEF Promise!Next
  <1>2. CASE FailUnstarted(e)
    <2>1. status[e] \in {"PENDING", "RUNNING"}
      BY <1>0, <1>2 DEF FailUnstarted, RowsFit, Cancelled
    <2>2. Promise!Fail(e)
      BY <1>0, <1>2, <2>1, StatusMove DEF FailUnstarted, Promise!Fail
    <2> QED
      BY <2>2 DEF Promise!Next
  <1>3. CASE Launch(e) \/ LaunchThrows(e) \/ LaunchLost(e) \/ CancelTerminate(e)
    BY <1>3 DEF Launch, LaunchThrows, LaunchLost, CancelTerminate, Promise!vars
  <1>4. CASE CancelRead(e) \/ CancelWrite(e)
    BY <1>0, <1>4 DEF CancelRead, CancelWrite, RowsFit
  <1> QED
    BY <1>1, <1>2, <1>3, <1>4 DEF Handler

LEMMA RetryRefines ==
  ASSUME NEW i \in Instance, QuietInv, AdminRetry(i)
  PROVE  [Promise!Next]_(Promise!vars)
  <1>0. TypeOK /\ ExecOf[i] \in Exec
    BY DEF QuietInv, OrderInv
  <1>1. CASE RetryWrite(i)
    <2>1. Promise!Requeue(ExecOf[i])
      BY <1>0, <1>1, StatusMove DEF RetryWrite, QuietInv, Quiet, Promise!Requeue
    <2> QED
      BY <1>0, <2>1 DEF Promise!Next
  <1>2. CASE RetryCreate(i) \/ RetryLost(i)
    BY <1>2 DEF RetryCreate, RetryLost, Promise!vars
  <1> QED
    BY <1>1, <1>2 DEF AdminRetry

LEMMA RunStepRefines ==
  ASSUME NEW i \in Instance, QuietInv, Cancellable = {}, RunStep(i)
  PROVE  [Promise!Next]_(Promise!vars)
  <1> DEFINE e == ExecOf[i]
  <1>0. TypeOK /\ e \in Exec /\ Fits(i) /\ output[e] = succeeded[e]
    BY DEF QuietInv, OrderInv, RowsFit
  <1>1. Cancelled(e) = {}
    BY DEF Cancelled
  <1>2. CASE LoadWrite(i)
    <2>1. status[e] \in {"PENDING"} \/ status[e] = "RUNNING"
      BY <1>0, <1>1, <1>2 DEF LoadWrite, Goto, Fits, StatusFits
    <2>2. status' = [status EXCEPT ![e] = "RUNNING"] /\ UNCHANGED <<output, succeeded>>
      BY <1>2 DEF LoadWrite
    <2>3. Promise!Begin(e) \/ UNCHANGED Promise!vars
      BY <1>0, <2>1, <2>2, StatusMove, SameStatus DEF Promise!Begin
    <2> QED
      BY <1>0, <2>3 DEF Promise!Next
  <1>3. CASE FailWrite(i)
    <2>1. status[e] \in {"PENDING", "RUNNING"} \/ status[e] = "FAILED"
      BY <1>0, <1>1, <1>3 DEF FailWrite, Goto, Fits, StatusFits
    <2>2. status' = [status EXCEPT ![e] = "FAILED"] /\ UNCHANGED <<output, succeeded>>
      BY <1>3 DEF FailWrite
    <2>3. Promise!Fail(e) \/ UNCHANGED Promise!vars
      BY <1>0, <2>1, <2>2, StatusMove, SameStatus DEF Promise!Fail
    <2> QED
      BY <1>0, <2>3 DEF Promise!Next
  <1>4. CASE FinishWrite(i)
    <2>1. status[e] \in {"RUNNING"} \/ status[e] = "SUCCEEDED"
      BY <1>0, <1>1, <1>4 DEF FinishWrite, Goto, Fits, StatusFits
    <2>2. status' = [status EXCEPT ![e] = "SUCCEEDED"] /\ UNCHANGED <<output, succeeded>>
      <3>1. payload[i] = output[e]
        BY <1>0, <1>4 DEF FinishWrite, Goto, Fits, PayloadFits
      <3> QED
        BY <1>0, <1>4, <3>1 DEF FinishWrite, TypeOK
    <2>3. succeeded[e] = Promise!Action
      <3>1. step[i] = NumActions + 1
        BY <1>4 DEF FinishWrite, Goto, QuietInv, OrderInv, FinishesAtEnd
      <3>2. \A b \in Action : b < step[i]
        BY <3>1 DEF Action
      <3>3. Action \subseteq succeeded[e] /\ succeeded[e] \subseteq Action
        BY <1>0, <3>2 DEF QuietInv, OrderInv, PassedSucceeded, TypeOK
      <3> QED
        BY <3>3 DEF Action, Promise!Action
    <2>4. Promise!Succeed(e) \/ UNCHANGED Promise!vars
      BY <1>0, <2>1, <2>2, <2>3, StatusMove, SameStatus DEF Promise!Succeed
    <2> QED
      BY <1>0, <2>4 DEF Promise!Next
  <1>5. CASE \/ LoadFind(i) \/ LoadPlan(i) \/ LoadPersist(i) \/ Skip(i) \/ StartAttempt(i)
             \/ StepDone(i) \/ StepThrew(i) \/ StepExhausted(i) \/ LoopEnds(i) \/ Return(i)
    BY <1>5 DEF LoadFind, LoadPlan, LoadPersist, Skip, StartAttempt, StepDone, StepThrew,
                StepExhausted, LoopEnds, Return, Promise!vars
  <1> QED
    BY <1>2, <1>3, <1>4, <1>5 DEF RunStep

\* The batch completes the next action of the run, or one that is complete: the
\* attempt that repeats it (its first commit was lost with the isolate) saves
\* the rows and the payload that are there.
LEMMA AttemptRefines ==
  ASSUME NEW i \in Instance, NEW a \in Action, NEW n \in Attempt,
         QuietInv, Cancellable = {}, AttemptStep(i, a, n)
  PROVE  [Promise!Next]_(Promise!vars)
  <1> DEFINE e == ExecOf[i]
  <1>0. TypeOK /\ e \in Exec /\ Fits(i) /\ output[e] = succeeded[e]
    BY DEF QuietInv, OrderInv, RowsFit
  <1>1. CASE InsertRow(i, a, n) \/ RunAction(i, a, n) \/ Throw(i, a, n)
    BY <1>1 DEF InsertRow, RunAction, Throw, Promise!vars
  <1>2. CASE Commit(i, a, n)
    <2>1. /\ att[i][a][n] = "ok"
          /\ succeeded' = [succeeded EXCEPT ![e] = @ \cup {a}]
          /\ output' = [output EXCEPT ![e] = seen[i][a] \cup {a}]
          /\ UNCHANGED status
      BY <1>2 DEF Commit, Advance
    <2>2. Outstanding(i, a, n) /\ Pending(i)
      BY <2>1 DEF Outstanding, Pending
    <2>3. seen[i][a] \cup {a} = succeeded[e] \cup {a}
      BY <1>0, <2>2 DEF Fits, OneAttempt
    <2>4. status[e] = "RUNNING"
      BY <1>0, <2>2 DEF Fits, StatusFits, Cancelled
    <2>5. \A b \in Action : b < a => b \in succeeded[e]
      BY <2>1 DEF QuietInv, OrderInv, StepsInOrder
    <2>6. CASE a \in succeeded[e]
      <3>1. succeeded[e] \cup {a} = succeeded[e]
        BY <2>6
      <3>2. succeeded' = succeeded /\ output' = output
        BY <1>0, <2>1, <2>3, <3>1 DEF TypeOK
      <3> QED
        BY <2>1, <3>2 DEF Promise!vars
    <2>7. CASE a \notin succeeded[e]
      <3>1. output' = [output EXCEPT ![e] = succeeded[e] \cup {a}]
        BY <2>1, <2>3
      <3>2. Promise!Complete(e)
        BY <2>1, <2>4, <2>5, <2>7, <3>1 DEF Promise!Complete, Promise!Action, Action
      <3> QED
        BY <1>0, <3>2 DEF Promise!Next
    <2> QED
      BY <2>6, <2>7
  <1> QED
    BY <1>1, <1>2 DEF AttemptStep

\* The rows of the engine make the steps of the life of a run and no other:
\* every step is one of Run's, or leaves status, rows and checkpoint alone.
THEOREM EngineImplementsRun == Quiet /\ Cancellable = {} /\ Spec => ImplementsRun
  <1>1. Init => Promise!Init
    BY DEF Init, Promise!Init
  <1>2. QuietInv /\ Cancellable = {} /\ [Next]_vars => [Promise!Next]_(Promise!vars)
    <2> SUFFICES ASSUME QuietInv, Cancellable = {}, [Next]_vars
                 PROVE  [Promise!Next]_(Promise!vars)
      OBVIOUS
    <2>1. CASE UNCHANGED vars
      BY <2>1 DEF Promise!vars
    <2>2. CASE \E i \in Instance : Fault(i)
      BY <2>2 DEF Fault, LoseCallback, LoseAttempt, TimeOut, Promise!vars
    <2>3. CASE \/ \E e \in Exec : Handler(e)
               \/ \E i \in Instance : AdminRetry(i) \/ RunStep(i)
               \/ \E i \in Instance, a \in Action, n \in Attempt : AttemptStep(i, a, n)
      BY <2>3, HandlerRefines, RetryRefines, RunStepRefines, AttemptRefines
    <2> QED
      BY <2>1, <2>2, <2>3 DEF Next
  <1>3. Cancellable = {} => (Cancellable = {})'
    OBVIOUS
  <1> QED
    BY <1>1, <1>2, <1>3, QuietInvariant, PTL DEF Spec, ImplementsRun, Promise!Spec
=============================================================================
