-------------------------- MODULE AdmissionProofs --------------------------
(***************************************************************************)
(* What holds of Admission for any number of requests, workflows, keys,    *)
(* limits, hours and faults.                                               *)
(***************************************************************************)
EXTENDS Admission, FiniteSetTheorems, TLAPS

USE AdmissionAssumption DEF AdmissionAssumption
USE DEF vars, rows, reply, limit

----------------------------------------------------------------------------
(* Types *)

LEMMA InitTypes == Init => TypeOK
  BY DEF Init, TypeOK, None, Hours, NoHour

\* The requests keep the types.
LEMMA RequestTypes ==
  ASSUME TypeOK, NEW r \in Req, Worker(r) \/ Backend(r) \/ Crash(r) \/ EndRun(r) \/ RetryRun(r)
  PROVE  TypeOK'
  <1> USE DEF TypeOK, Goto, Settle, None, Skips, Hours, NoHour
  <1>1. CASE ReceiveWebhook(r)
    <2>1. CASE r \in Valid /\ WorkflowOf[r] \in active
      BY <1>1, <2>1 DEF ReceiveWebhook
    <2>2. CASE ~(r \in Valid /\ WorkflowOf[r] \in active)
      BY <1>1, <2>2, ZenonT(60) DEF ReceiveWebhook
    <2> QED
      BY <2>1, <2>2
  <1>2. CASE LookUp(r)
    <2>1. CASE Stored(r) = {}
      BY <1>2, <2>1, ZenonT(60) DEF LookUp
    <2>2. CASE Stored(r) # {}
      <3>1. Goto(r, "lookup", "end") /\ answer' = [answer EXCEPT ![r] = "duplicate"]
        BY <1>2, <2>2 DEF LookUp
      <3>2. PICK q \in Req : original' = [original EXCEPT ![r] = q]
        BY <1>2, <2>2 DEF LookUp, Stored
      <3> QED
        BY <1>2, <3>1, <3>2 DEF LookUp
    <2> QED
      BY <2>1, <2>2
  <1>3. CASE InsertEvent(r)
    <2>1. CASE Stored(r) = {}
      BY <1>3, <2>1, ZenonT(60) DEF InsertEvent
    <2>2. CASE Stored(r) # {}
      BY <1>3, <2>2, ZenonT(60) DEF InsertEvent
    <2> QED
      BY <2>1, <2>2
  <1>4. CASE ReportWinner(r)
    <2>1. original' \in [Req -> Req]
      BY <1>4 DEF ReportWinner, Stored
    <2> QED
      BY <1>4, <2>1 DEF ReportWinner
  <1>5. CASE FireManually(r)
    <2>1. CASE WorkflowOf[r] \in active
      BY <1>5, <2>1, ZenonT(60) DEF FireManually
    <2>2. CASE WorkflowOf[r] \notin active
      BY <1>5, <2>2, ZenonT(60) DEF FireManually
    <2> QED
      BY <2>1, <2>2
  <1>6. CASE FirePoll(r)
    BY <1>6 DEF FirePoll
  <1>7. CASE GateActive(r)
    <2>1. CASE WorkflowOf[r] \in active
      BY <1>7, <2>1 DEF GateActive, Skip
    <2>2. CASE ~(WorkflowOf[r] \in active)
      BY <1>7, <2>2, ZenonT(60) DEF GateActive, Skip
    <2> QED
      BY <2>1, <2>2
  <1>8. CASE GateCount(r)
    <2>1. CASE Cardinality(InFlight(WorkflowOf[r])) >= MaxInFlight
      BY <1>8, <2>1, ZenonT(60) DEF GateCount, Skip
    <2>2. CASE ~(Cardinality(InFlight(WorkflowOf[r])) >= MaxInFlight)
      BY <1>8, <2>2, ZenonT(60) DEF GateCount, Skip
    <2> QED
      BY <2>1, <2>2
  <1>9. CASE GateRate(r)
    <2>1. bucket[hour] + 1 \in Nat /\ bucket' = [bucket EXCEPT ![hour] = bucket[hour] + 1]
      BY <1>9 DEF GateRate
    <2>2. bucket' \in [Hours -> Nat]
      BY <2>1
    <2>3. CASE bucket[hour] + 1 <= MaxPerHour
      <3>1. usedHour' \in [Req -> 0..NoHour]
        <4>1. usedHour' = [usedHour EXCEPT ![r] = hour] /\ hour \in 0..NoHour
          BY <1>9, <2>3 DEF GateRate
        <4> QED
          BY <4>1
      <3>2. Goto(r, "consume", "create") /\ UNCHANGED <<verdict, raced>>
        BY <1>9, <2>3 DEF GateRate
      <3> QED
        BY <1>9, <2>2, <3>1, <3>2 DEF GateRate
    <2>4. CASE ~(bucket[hour] + 1 <= MaxPerHour)
      <3>1. Skip(r, "consume", "SKIPPED_RATE_LIMIT") /\ UNCHANGED usedHour
        BY <1>9, <2>4 DEF GateRate
      <3> QED
        BY <1>9, <2>2, <3>1 DEF GateRate, Skip
    <2> QED
      BY <2>3, <2>4
  <1>10. CASE CreateRun(r)
    BY <1>10 DEF CreateRun, Races
  <1>11. CASE HandOff(r)
    BY <1>11 DEF HandOff
  <1>12. CASE HandOffThrows(r)
    BY <1>12 DEF HandOffThrows
  <1>13. CASE Mark(r)
    BY <1>13 DEF Mark
  <1>14. CASE Crash(r)
    BY <1>14 DEF Crash
  <1>15. CASE EndRun(r)
    BY <1>15 DEF EndRun
  <1>19. CASE RetryRun(r)
    BY <1>19 DEF RetryRun, Races
  <1>16. CASE Incr(r)
    <2>1. bucket[hour] + 1 \in Nat /\ bucket' = [bucket EXCEPT ![hour] = bucket[hour] + 1]
      BY <1>16 DEF Incr
    <2>2. bucket' \in [Hours -> Nat]
      BY <2>1
    <2>3. CASE bucket[hour] + 1 <= MaxPerHour
      <3>1. usedHour' \in [Req -> 0..NoHour]
        <4>1. usedHour' = [usedHour EXCEPT ![r] = hour] /\ hour \in 0..NoHour
          BY <1>16, <2>3 DEF Incr
        <4> QED
          BY <4>1
      <3>2. \E to \in {"expire", "create"} : Goto(r, "consume", to)
        BY <1>16, <2>3 DEF Incr
      <3> QED
        BY <1>16, <2>2, <2>3, <3>1, <3>2 DEF Incr
    <2>4. CASE ~(bucket[hour] + 1 <= MaxPerHour)
      <3>1. Skip(r, "consume", "SKIPPED_RATE_LIMIT") /\ UNCHANGED usedHour
        BY <1>16, <2>4 DEF Incr
      <3> QED
        BY <1>16, <2>2, <3>1 DEF Incr, Skip
    <2> QED
      BY <2>3, <2>4
  <1>17. CASE Expire(r)
    <2>1. usedHour[r] \in 0..NoHour
      OBVIOUS
    <2>2. ttl' \subseteq 0..NoHour /\ at' \in [Req -> {"arrive", "lookup", "insert", "winner", "gate",
            "count", "consume", "expire", "create", "launch", "mark", "end"}]
      BY <1>17, <2>1 DEF Expire
    <2> QED
      BY <1>17, <2>2 DEF Expire
  <1>18. CASE EmitPoll(r)
    BY <1>18 DEF EmitPoll
  <1> QED
    BY <1>1, <1>2, <1>3, <1>4, <1>5, <1>6, <1>7, <1>8, <1>9, <1>10, <1>11, <1>12,
       <1>13, <1>14, <1>15, <1>16, <1>17, <1>18, <1>19
       DEF Worker, Backend, Ingress, Admit, HandleWebhook, ManualFire, HandleTriggered

LEMMA NextTypes == TypeOK /\ [Next]_vars => TypeOK'
  <1> SUFFICES ASSUME TypeOK, [Next]_vars PROVE TypeOK'
    OBVIOUS
  <1>1. CASE \E r \in Req : Worker(r) \/ Backend(r) \/ Crash(r) \/ EndRun(r) \/ RetryRun(r)
    BY <1>1, RequestTypes
  <1>2. CASE \E w \in Workflow : SetStatus(w)
    BY <1>2 DEF SetStatus, TypeOK
  <1>3. CASE NextHour
    BY <1>3 DEF NextHour, TypeOK, Hours
  <1>4. CASE ForgetPastHours
    BY <1>4 DEF ForgetPastHours, TypeOK
  <1>5. CASE \E h \in Hours : KeyExpires(h)
    BY <1>5 DEF KeyExpires, TypeOK
  <1>6. CASE UNCHANGED vars
    BY <1>6 DEF TypeOK
  <1> QED
    BY <1>1, <1>2, <1>3, <1>4, <1>5, <1>6 DEF Next

\* Every variable keeps its type.
THEOREM AdmissionTypes == Spec => []TypeOK
  <1> QED
    BY InitTypes, NextTypes, PTL DEF Spec

----------------------------------------------------------------------------
(* The rows *)

LEMMA InitRows == Init => RowsInv
  BY DEF Init, RowsInv, PlaceTells, DeliveryIsStored, OneEventPerKey, DuplicateHasNoEffect,
         LogMatchesRuns, Fresh, Started, None, Skips, Stored

\* A step of one request leaves the rows of the others alone, and of its own
\* keeps what its place tells.
LEMMA IngressRows ==
  ASSUME TypeOK, RowsInv, NEW r \in Req, Ingress(r) \/ EmitPoll(r)
  PROVE  RowsInv'
  <1> USE DEF TypeOK, RowsInv, Goto, Settle, PlaceTells, DeliveryIsStored, OneEventPerKey,
              DuplicateHasNoEffect, LogMatchesRuns, Fresh, Started, None, Skips, Stored
  <1>1. CASE ReceiveWebhook(r)
    BY <1>1, SMTT(60) DEF ReceiveWebhook
  <1>2. CASE LookUp(r)
    BY <1>2, SMTT(60) DEF LookUp
  <1>3. CASE InsertEvent(r)
    <2>1. CASE Stored(r) = {}
      BY <1>3, <2>1, SMTT(30) DEF InsertEvent
    <2>2. CASE Stored(r) # {}
      BY <1>3, <2>2, SMTT(30) DEF InsertEvent
    <2> QED
      BY <2>1, <2>2
  <1>4. CASE ReportWinner(r)
    BY <1>4 DEF ReportWinner
  <1>5. CASE FireManually(r)
    <2>1. CASE WorkflowOf[r] \in active
      BY <1>5, <2>1 DEF FireManually
    <2>2. CASE WorkflowOf[r] \notin active
      BY <1>5, <2>2 DEF FireManually
    <2> QED
      BY <2>1, <2>2
  <1>6. CASE FirePoll(r)
    BY <1>6 DEF FirePoll
  <1>7. CASE EmitPoll(r)
    BY <1>7 DEF EmitPoll
  <1> QED
    BY <1>1, <1>2, <1>3, <1>4, <1>5, <1>6, <1>7 DEF Ingress

LEMMA AdmitRows ==
  ASSUME TypeOK, RowsInv, NEW r \in Req, Admit(r) \/ HandleTriggered(r)
  PROVE  RowsInv'
  <1> USE DEF TypeOK, RowsInv, Goto, Settle, PlaceTells, DeliveryIsStored, OneEventPerKey,
              DuplicateHasNoEffect, LogMatchesRuns, Fresh, Started, None, Skips, Stored
  <1>1. CASE GateActive(r)
    BY <1>1 DEF GateActive, Skip
  <1>2. CASE GateCount(r)
    BY <1>2 DEF GateCount, Skip
  <1>3. CASE GateRate(r)
    BY <1>3 DEF GateRate, Skip
  <1>4. CASE CreateRun(r)
    BY <1>4 DEF CreateRun
  <1>5. CASE HandOff(r)
    BY <1>5 DEF HandOff
  <1>6. CASE HandOffThrows(r)
    BY <1>6 DEF HandOffThrows
  <1>7. CASE Mark(r)
    BY <1>7 DEF Mark
  <1>8. CASE Incr(r)
    BY <1>8 DEF Incr, Skip
  <1>9. CASE Expire(r)
    BY <1>9 DEF Expire
  <1> QED
    BY <1>1, <1>2, <1>3, <1>4, <1>5, <1>6, <1>7, <1>8, <1>9 DEF Admit, HandleTriggered

LEMMA NextRows == TypeOK /\ RowsInv /\ [Next]_vars => RowsInv'
  <1> SUFFICES ASSUME TypeOK, RowsInv, [Next]_vars PROVE RowsInv'
    OBVIOUS
  <1> USE DEF TypeOK, RowsInv, PlaceTells, DeliveryIsStored, OneEventPerKey,
              DuplicateHasNoEffect, LogMatchesRuns, Stored
  <1>1. ASSUME NEW r \in Req, Worker(r) \/ Backend(r) PROVE RowsInv'
    <2>1. Ingress(r) \/ EmitPoll(r) \/ Admit(r) \/ HandleTriggered(r)
      BY <1>1 DEF Worker, Backend, Ingress, HandleWebhook, ManualFire
    <2> QED
      BY <2>1, IngressRows, AdmitRows
  <1>2. ASSUME NEW r \in Req, Crash(r) PROVE RowsInv'
    BY <1>2 DEF Crash, Settle, Fresh, Started
  <1>3. ASSUME NEW r \in Req, EndRun(r) PROVE RowsInv'
    BY <1>3 DEF EndRun, Fresh, Started, None, Skips
  <1>9. ASSUME NEW r \in Req, RetryRun(r) PROVE RowsInv'
    BY <1>9 DEF RetryRun, Fresh, Started, None, Skips
  <1>4. CASE \E w \in Workflow : SetStatus(w)
    BY <1>4 DEF SetStatus
  <1>5. CASE NextHour
    BY <1>5 DEF NextHour
  <1>6. CASE ForgetPastHours
    BY <1>6 DEF ForgetPastHours
  <1>7. CASE \E h \in Hours : KeyExpires(h)
    BY <1>7 DEF KeyExpires
  <1>8. CASE UNCHANGED vars
    BY <1>8
  <1> QED
    BY <1>1, <1>2, <1>3, <1>4, <1>5, <1>6, <1>7, <1>8, <1>9 DEF Next

----------------------------------------------------------------------------
(* The hourly limit *)

LEMMA InitRate == Init => RateInv
  <1> SUFFICES ASSUME Init PROVE RateInv
    OBVIOUS
  <1>1. \A h \in Hours : Used(h) = {}
    BY DEF Init, Used, Hours, NoHour
  <1>2. hour \in Hours /\ bucket[hour] = 0
    BY DEF Init, Hours
  <1> QED
    BY <1>1, <1>2, FS_EmptySet DEF RateInv, CounterCounts, HourlyLimit, Used

\* A step that uses no budget and lets neither the clock nor the counter move.
LEMMA RateFrame ==
  ASSUME RateInv, UNCHANGED <<hour, bucket, usedHour>> PROVE RateInv'
  BY DEF RateInv, CounterCounts, HourlyLimit, Used

\* A request that is refused is counted and uses nothing; one that passes is
\* the next of its hour.
LEMMA CountRate ==
  ASSUME TypeOK, RateInv, NEW r \in Req, hour' = hour,
         bucket' = [bucket EXCEPT ![hour] = @ + 1],
         IF bucket[hour] + 1 <= MaxPerHour THEN usedHour' = [usedHour EXCEPT ![r] = hour]
                                           ELSE UNCHANGED usedHour
  PROVE  RateInv'
  <1> USE DEF TypeOK, RateInv, CounterCounts, HourlyLimit
  <1>1. hour \in Hours /\ hour \in Nat /\ hour' = hour /\ bucket[hour] \in Nat
        /\ bucket'[hour] = bucket[hour] + 1
    BY DEF Hours
  <1>2. CASE bucket[hour] + 1 <= MaxPerHour
    <2>1. usedHour' = [usedHour EXCEPT ![r] = hour]
      BY <1>2
    <2>2. Used(hour)' = Used(hour) \cup {r}
      BY <1>1, <2>1 DEF Used
    <2>3. \A h \in Hours \ {hour} : Used(h)' \subseteq Used(h)
      BY <1>1, <2>1 DEF Used
    <2>4. IsFiniteSet(Used(hour))
      BY <1>1
    <2>5. IsFiniteSet(Used(hour)') /\ Cardinality(Used(hour)') <= Cardinality(Used(hour)) + 1
          /\ Cardinality(Used(hour)) \in Nat /\ Cardinality(Used(hour)') \in Nat
      <3>1. IsFiniteSet(Used(hour) \cup {r})
            /\ Cardinality(Used(hour) \cup {r}) \in
                 {Cardinality(Used(hour)), Cardinality(Used(hour)) + 1}
        BY <2>4, FS_AddElement
      <3>2. Cardinality(Used(hour)) \in Nat /\ Cardinality(Used(hour) \cup {r}) \in Nat
        BY <2>4, <3>1, FS_CardinalityType
      <3> QED
        BY <2>2, <3>1, <3>2
    <2>6. \A h \in Hours \ {hour} : IsFiniteSet(Used(h)') /\ Cardinality(Used(h)') \in Nat
             /\ Cardinality(Used(h)) \in Nat /\ Cardinality(Used(h)') <= Cardinality(Used(h))
      BY <2>3, FS_Subset, FS_CardinalityType
    <2>7. Cardinality(Used(hour)') <= bucket'[hour] /\ Cardinality(Used(hour)') <= MaxPerHour
      BY <1>1, <1>2, <2>5
    <2>8. CounterCounts'
      BY <1>1, <2>3, <2>5, <2>6, <2>7
    <2>9. \A h \in Hours : Cardinality(Used(h)') <= MaxPerHour
      <3>1. \A h \in Hours : Cardinality(Used(h)) <= MaxPerHour
        BY DEF Used
      <3>2. ASSUME NEW h \in Hours, h # hour PROVE Cardinality(Used(h)') <= MaxPerHour
        BY <2>6, <3>1, <3>2
      <3>3. ASSUME NEW h \in Hours, h = hour PROVE Cardinality(Used(h)') <= MaxPerHour
        <4>1. Used(h)' = Used(hour)'
          BY <1>1, <3>3 DEF Used
        <4> QED
          BY <2>7, <4>1
      <3> QED
        BY <3>2, <3>3
    <2> QED
      BY <2>8, <2>9 DEF Used
  <1>3. CASE ~(bucket[hour] + 1 <= MaxPerHour)
    <2>1. UNCHANGED usedHour
      BY <1>3
    <2>2. \A h : Used(h)' = Used(h)
      BY <2>1 DEF Used
    <2>3. Cardinality(Used(hour)) \in Nat
      BY <1>1, FS_CardinalityType
    <2> QED
      BY <1>1, <2>1, <2>2, <2>3
  <1> QED
    BY <1>2, <1>3

LEMMA NextRate == TypeOK /\ RateInv /\ [Next]_vars => RateInv'
  <1> SUFFICES ASSUME TypeOK, RateInv, [Next]_vars PROVE RateInv'
    OBVIOUS
  <1>1. ASSUME NEW r \in Req, Worker(r) \/ Backend(r) \/ Crash(r) \/ EndRun(r) \/ RetryRun(r) PROVE RateInv'
    <2>1. CASE GateRate(r) \/ Incr(r)
      BY <2>1, CountRate DEF GateRate, Incr
    <2>2. CASE ~(GateRate(r) \/ Incr(r))
      <3>1. UNCHANGED <<hour, bucket, usedHour>>
        BY <1>1, <2>2 DEF Worker, Backend, Ingress, Admit, HandleWebhook, ManualFire,
           HandleTriggered, ReceiveWebhook, LookUp, InsertEvent, ReportWinner,
           FireManually, FirePoll, EmitPoll, GateActive, GateCount, Expire, CreateRun, HandOff,
           HandOffThrows, Mark, Crash, EndRun, RetryRun
      <3> QED
        BY <3>1, RateFrame
    <2> QED
      BY <2>1, <2>2
  <1>2. CASE \E w \in Workflow : SetStatus(w)
    BY <1>2, RateFrame DEF SetStatus
  <1>3. CASE NextHour
    <2>1. hour' \in Hours /\ hour' > hour /\ UNCHANGED <<bucket, usedHour>>
          /\ \A h \in Hours : h > hour' => h > hour
      BY <1>3 DEF NextHour, TypeOK, Hours
    <2>2. \A h : Used(h)' = Used(h)
      BY <2>1 DEF Used
    <2>3. Used(hour)' = {} /\ bucket'[hour'] \in Nat
      BY <2>1 DEF TypeOK, RateInv, CounterCounts, Used
    <2> QED
      BY <2>1, <2>2, <2>3, FS_EmptySet DEF RateInv, CounterCounts, HourlyLimit
  <1>4. CASE ForgetPastHours
    <2>1. UNCHANGED <<hour, usedHour>> /\ bucket'[hour] = bucket[hour]
      BY <1>4 DEF ForgetPastHours, TypeOK
    <2> QED
      BY <2>1 DEF RateInv, CounterCounts, HourlyLimit, Used
  <1>5. ASSUME NEW h \in Hours, KeyExpires(h) PROVE RateInv'
    <2>1. UNCHANGED <<hour, usedHour>> /\ bucket'[hour] = bucket[hour]
      BY <1>5 DEF KeyExpires, TypeOK, Hours
    <2> QED
      BY <2>1 DEF RateInv, CounterCounts, HourlyLimit, Used
  <1>6. CASE UNCHANGED vars
    BY <1>6, RateFrame
  <1> QED
    BY <1>1, <1>2, <1>3, <1>4, <1>5, <1>6 DEF Next

----------------------------------------------------------------------------
(* The theorems *)

\* The strengthened invariant holds of every reachable state.
THEOREM AdmissionInvariant == Spec => []AdmissionInv
  <1>1. Init => RowsInv /\ RateInv
    BY InitRows, InitRate
  <1>2. TypeOK /\ RowsInv /\ RateInv /\ [Next]_vars => RowsInv' /\ RateInv'
    BY NextRows, NextRate
  <1>3. TypeOK /\ RowsInv /\ RateInv => AdmissionInv
    BY DEF AdmissionInv
  <1> QED
    BY <1>1, <1>2, <1>3, AdmissionTypes, PTL DEF Spec

\* However deliveries of one key interleave, one of them at most becomes a run.
THEOREM DedupHolds == Spec => []OneRunPerKey
  <1>1. AdmissionInv => OneRunPerKey
    <2> SUFFICES ASSUME RowsInv, NEW q \in Req, NEW r \in Req, q # r,
                        SourceOf[q] = "webhook", SourceOf[r] = "webhook",
                        WorkflowOf[q] = WorkflowOf[r], KeyOf[q] = KeyOf[r]
                 PROVE  run[q] = None \/ run[r] = None
      BY DEF AdmissionInv, OneRunPerKey
    <2>1. event[q] = None \/ event[r] = None
      BY DEF RowsInv, OneEventPerKey, Stored
    <2> QED
      BY <2>1 DEF RowsInv, DeliveryIsStored
  <1> QED
    BY <1>1, AdmissionInvariant, PTL

\* A duplicate stores nothing, starts nothing and uses nothing, and the event
\* its sender is told about exists.
THEOREM DuplicatesDoNothing == Spec => []DuplicateHasNoEffect
  <1>1. AdmissionInv => DuplicateHasNoEffect
    BY DEF AdmissionInv, RowsInv
  <1> QED
    BY <1>1, AdmissionInvariant, PTL

\* The delivery log never says SKIPPED of what ran or PROCESSED of what did not.
THEOREM LogIsTrue == Spec => []LogMatchesRuns
  <1>1. AdmissionInv => LogMatchesRuns
    BY DEF AdmissionInv, RowsInv
  <1> QED
    BY <1>1, AdmissionInvariant, PTL

\* No hour gives out more than its budget, whatever the alarm forgets.
THEOREM BudgetHolds == Spec => []HourlyLimit
  <1>1. AdmissionInv => HourlyLimit
    BY DEF AdmissionInv, RateInv
  <1> QED
    BY <1>1, AdmissionInvariant, PTL

----------------------------------------------------------------------------
(* Every accepted trigger is decided *)

\* An accepted request has its event, and is decided at its end.
Decided ==
  /\ \A r \in Req : answer[r] = "accepted" => event[r] # None
  /\ AcceptedIsDecided

LEMMA StepDecides ==
  ASSUME TypeOK, RowsInv, Decided, NEW r \in Req,
         Ingress(r) \/ EmitPoll(r) \/ Admit(r) \/ HandleTriggered(r) \/ Crash(r) \/ EndRun(r)
           \/ RetryRun(r)
  PROVE  Decided'
  <1> USE DEF TypeOK, Decided, AcceptedIsDecided, Goto, RowsInv, PlaceTells, Fresh, Started, None, Skips
  <1>1. CASE ReceiveWebhook(r)
    BY <1>1 DEF ReceiveWebhook
  <1>2. CASE LookUp(r)
    BY <1>2 DEF LookUp
  <1>3. CASE InsertEvent(r)
    BY <1>3 DEF InsertEvent
  <1>4. CASE ReportWinner(r)
    BY <1>4 DEF ReportWinner
  <1>5. CASE FireManually(r)
    BY <1>5 DEF FireManually
  <1>6. CASE FirePoll(r) \/ EmitPoll(r)
    BY <1>6 DEF FirePoll, EmitPoll
  <1>7. CASE GateActive(r)
    BY <1>7 DEF GateActive, Skip
  <1>8. CASE GateCount(r)
    BY <1>8 DEF GateCount, Skip
  <1>9. CASE GateRate(r) \/ Incr(r)
    BY <1>9 DEF GateRate, Incr, Skip
  <1>10. CASE Expire(r) \/ CreateRun(r) \/ HandOff(r)
    BY <1>10 DEF Expire, CreateRun, HandOff
  <1>11. CASE HandOffThrows(r) \/ Crash(r)
    <2>1. faults' # 0
      BY <1>11 DEF HandOffThrows, Crash
    <2> QED
      BY <1>11, <2>1 DEF HandOffThrows, Crash
  <1>12. CASE Mark(r)
    BY <1>12 DEF Mark
  <1>13. CASE EndRun(r) \/ RetryRun(r)
    BY <1>13 DEF EndRun, RetryRun
  <1> QED
    BY <1>1, <1>2, <1>3, <1>4, <1>5, <1>6, <1>7, <1>8, <1>9, <1>10, <1>11, <1>12, <1>13
       DEF Ingress, Admit, HandleTriggered

\* An accepted trigger whose handlers are through has a run or a reason.
THEOREM AcceptedTriggersDecided == Spec => []AcceptedIsDecided
  <1>1. Init => Decided
    BY DEF Init, Decided, AcceptedIsDecided, None
  <1>2. TypeOK /\ RowsInv /\ Decided /\ [Next]_vars => Decided'
    <2> SUFFICES ASSUME TypeOK, RowsInv, Decided, [Next]_vars PROVE Decided'
      OBVIOUS
    <2>1. ASSUME NEW r \in Req, Worker(r) \/ Backend(r) \/ Crash(r) \/ EndRun(r) \/ RetryRun(r)
          PROVE  Decided'
      <3>1. Ingress(r) \/ EmitPoll(r) \/ Admit(r) \/ HandleTriggered(r) \/ Crash(r) \/ EndRun(r)
              \/ RetryRun(r)
        BY <2>1 DEF Worker, Backend, Ingress, HandleWebhook, ManualFire
      <3> QED
        BY <3>1, StepDecides
    <2>2. ASSUME UNCHANGED <<rows, reply, at, faults>> PROVE Decided'
      BY <2>2 DEF Decided, AcceptedIsDecided
    <2> QED
      BY <2>1, <2>2 DEF Next, SetStatus, NextHour, ForgetPastHours, KeyExpires
  <1>3. Decided => AcceptedIsDecided
    BY DEF Decided
  <1>4. AdmissionInv => RowsInv
    BY DEF AdmissionInv
  <1> QED
    BY <1>1, <1>2, <1>3, <1>4, AdmissionTypes, AdmissionInvariant, PTL DEF Spec

----------------------------------------------------------------------------
(* The counters in Redis *)

\* What the property says of one hour.
WillExpire(h) == h \in ttl \/ \E r \in Req : at[r] = "expire" /\ usedHour[r] = h

\* An hour that will expire still will, when its EXPIRE is the only one to be sent.
LEMMA StillExpires ==
  ASSUME TypeOK, NEW h \in Hours, WillExpire(h), NEW r \in Req,
         \A q \in Req : q # r => at'[q] = at[q] /\ usedHour'[q] = usedHour[q],
         ttl \subseteq ttl',
         at[r] = "expire" => usedHour[r] \in ttl'
  PROVE  WillExpire(h)'
  <1>1. CASE h \in ttl
    BY <1>1 DEF WillExpire
  <1>2. CASE h \notin ttl
    <2>1. PICK q \in Req : at[q] = "expire" /\ usedHour[q] = h
      BY <1>2 DEF WillExpire
    <2>2. CASE q = r
      BY <2>1, <2>2 DEF WillExpire
    <2>3. CASE q # r
      <3>1. at'[q] = "expire" /\ usedHour'[q] = h
        BY <2>1, <2>3
      <3> QED
        BY <3>1 DEF WillExpire
    <2> QED
      BY <2>2, <2>3
  <1> QED
    BY <1>1, <1>2

LEMMA StepCounts ==
  ASSUME TypeOK, CountersExpire, NEW r \in Req, Worker(r) \/ Backend(r) \/ Crash(r)
  PROVE  CountersExpire'
  <1> SUFFICES ASSUME NEW h \in Hours, runtime' = "backend", bucket'[h] # 0, faults' = 0
               PROVE  WillExpire(h)'
    BY DEF CountersExpire, WillExpire
  <1>1. runtime = "backend" /\ faults = 0 /\ Backend(r)
    <2>1. runtime' = runtime /\ (faults' = faults \/ faults' = faults + 1) /\ ~Crash(r)
      BY DEF TypeOK, Worker, Backend, Ingress, Admit, HandleWebhook, ManualFire, HandleTriggered,
         ReceiveWebhook, LookUp, InsertEvent, ReportWinner, FireManually, FirePoll, EmitPoll,
         GateActive, GateCount, GateRate, Incr, Expire, CreateRun, HandOff, HandOffThrows, Mark, Crash
    <2> QED
      BY <2>1 DEF TypeOK, Worker, Backend
  <1>2. CASE Incr(r)
    <2>1. /\ at[r] = "consume" /\ ttl' = ttl
          /\ \A q \in Req : q # r => at'[q] = at[q] /\ usedHour'[q] = usedHour[q]
          /\ h # hour => bucket'[h] = bucket[h]
          /\ bucket[hour] \in Nat
      BY <1>2 DEF Incr, Skip, Goto, TypeOK
    <2>2. CASE bucket[h] # 0
      <3>1. WillExpire(h)
        BY <1>1, <2>2 DEF CountersExpire, WillExpire
      <3> QED
        BY <2>1, <3>1, StillExpires
    <2>3. CASE bucket[h] = 0
      <3>1. h = hour /\ bucket[hour] + 1 <= MaxPerHour
        BY <2>1, <2>3
      <3>2. at'[r] = "expire" /\ usedHour'[r] = h
        BY <1>2, <2>3, <3>1 DEF Incr, Goto, TypeOK
      <3> QED
        BY <3>2 DEF WillExpire
    <2> QED
      BY <2>2, <2>3
  <1>3. CASE ~Incr(r)
    <2>1. /\ bucket' = bucket /\ usedHour' = usedHour /\ ttl \subseteq ttl'
          /\ \A q \in Req : q # r => at'[q] = at[q]
          /\ at[r] = "expire" => usedHour[r] \in ttl'
      BY <1>1, <1>3 DEF Backend, HandleWebhook, ManualFire, HandleTriggered, ReceiveWebhook, LookUp,
         InsertEvent, ReportWinner, FireManually, EmitPoll, GateActive, GateCount, Expire, CreateRun,
         HandOff, Mark, Skip, Goto, TypeOK
    <2>2. WillExpire(h)
      BY <1>1, <2>1 DEF CountersExpire, WillExpire
    <2> QED
      BY <2>1, <2>2, StillExpires
  <1> QED
    BY <1>2, <1>3

\* A counter in Redis that was used expires, unless a process died.
THEOREM CountersAreForgotten == Spec => []CountersExpire
  <1>1. Init => CountersExpire
    BY DEF Init, CountersExpire
  <1>2. TypeOK /\ CountersExpire /\ [Next]_vars => CountersExpire'
    <2> SUFFICES ASSUME TypeOK, CountersExpire, [Next]_vars PROVE CountersExpire'
      OBVIOUS
    <2>1. ASSUME NEW r \in Req, Worker(r) \/ Backend(r) \/ Crash(r) PROVE CountersExpire'
      BY <2>1, StepCounts
    <2>2. ASSUME UNCHANGED <<runtime, at, bucket, ttl, usedHour, faults>> PROVE CountersExpire'
      BY <2>2 DEF CountersExpire
    <2>3. CASE ForgetPastHours
      BY <2>3 DEF ForgetPastHours, CountersExpire
    <2>4. ASSUME NEW h \in Hours, KeyExpires(h) PROVE CountersExpire'
      BY <2>4 DEF KeyExpires, CountersExpire, TypeOK
    <2> QED
      BY <2>1, <2>2, <2>3, <2>4 DEF Next, SetStatus, NextHour, EndRun, RetryRun
  <1> QED
    BY <1>1, <1>2, AdmissionTypes, PTL DEF Spec

----------------------------------------------------------------------------
(* The concurrency ceiling *)

\* Between its count and its insert.
Counted == {"consume", "expire", "create"}

\* Why a run nobody raced is below the ceiling: the runs of a workflow in flight
\* are still fewer than the ceiling when a request has counted them and no run of
\* that workflow was created or came back since.
CeilingInv ==
  /\ \A w \in Workflow : IsFiniteSet(InFlight(w))
  /\ \A r \in Req : at[r] \in Counted /\ ~raced[r]
                      => Cardinality(InFlight(WorkflowOf[r])) < MaxInFlight

\* Nothing but a create and a retry adds to the runs in flight, nothing but a
\* count decides.
LEMMA FewerInFlight ==
  ASSUME CeilingInv,
         \A q \in Req : run'[q] \in {"created", "live"} => run[q] \in {"created", "live"},
         \A q \in Req : at'[q] \in Counted /\ ~raced'[q] => at[q] \in Counted /\ ~raced[q]
  PROVE  CeilingInv'
  <1>1. ASSUME NEW w \in Workflow
        PROVE  /\ IsFiniteSet(InFlight(w)') /\ Cardinality(InFlight(w)') \in Nat
               /\ Cardinality(InFlight(w)) \in Nat
               /\ Cardinality(InFlight(w)') <= Cardinality(InFlight(w))
    <2>1. IsFiniteSet(InFlight(w)) /\ InFlight(w)' \subseteq InFlight(w)
      BY DEF CeilingInv, InFlight
    <2> QED
      BY <2>1, FS_Subset, FS_CardinalityType
  <1>2. ASSUME NEW q \in Req, at'[q] \in Counted, ~raced'[q]
        PROVE  Cardinality(InFlight(WorkflowOf[q])') < MaxInFlight
    <2>1. WorkflowOf[q] \in Workflow
      OBVIOUS
    <2>2. Cardinality(InFlight(WorkflowOf[q])) < MaxInFlight
      BY <1>2 DEF CeilingInv
    <2> QED
      BY <1>1, <2>1, <2>2
  <1> QED
    BY <1>1, <1>2 DEF CeilingInv

\* The run that is created is one more in flight.
LEMMA OneMoreInFlight ==
  ASSUME TypeOK, PlaceTells, CeilingInv, NEW r \in Req, CreateRun(r)
  PROVE  /\ IsFiniteSet(InFlight(WorkflowOf[r])')
         /\ Cardinality(InFlight(WorkflowOf[r])') = Cardinality(InFlight(WorkflowOf[r])) + 1
  <1>1. run[r] = None /\ run' = [run EXCEPT ![r] = "created"]
    BY DEF CreateRun, Goto, PlaceTells
  <1>2. InFlight(WorkflowOf[r])' = InFlight(WorkflowOf[r]) \cup {r} /\ r \notin InFlight(WorkflowOf[r])
    BY <1>1 DEF InFlight, TypeOK, None
  <1>3. IsFiniteSet(InFlight(WorkflowOf[r]))
    BY DEF CeilingInv
  <1> QED
    BY <1>2, <1>3, FS_AddElement

\* The run that comes back is one more in flight, or was in flight before.
LEMMA BackInFlight ==
  ASSUME TypeOK, CeilingInv, NEW r \in Req, RetryRun(r)
  PROVE  IsFiniteSet(InFlight(WorkflowOf[r])')
  <1>1. InFlight(WorkflowOf[r])' = InFlight(WorkflowOf[r]) \cup {r}
    BY DEF RetryRun, InFlight, TypeOK
  <1>2. IsFiniteSet(InFlight(WorkflowOf[r]))
    BY DEF CeilingInv
  <1> QED
    BY <1>1, <1>2, FS_AddElement

\* Whoever has counted without it knows that it was raced.
LEMMA RacesBelowCeiling ==
  ASSUME TypeOK, PlaceTells, CeilingInv, NEW r \in Req, CreateRun(r) \/ RetryRun(r)
  PROVE  CeilingInv'
  <1>1. ASSUME NEW w \in Workflow, w # WorkflowOf[r] PROVE InFlight(w)' = InFlight(w)
    BY <1>1 DEF CreateRun, RetryRun, InFlight, TypeOK
  <1>2. ASSUME NEW w \in Workflow PROVE IsFiniteSet(InFlight(w)')
    <2>1. CASE w = WorkflowOf[r]
      BY <2>1, OneMoreInFlight, BackInFlight
    <2>2. CASE w # WorkflowOf[r]
      BY <1>1, <2>2 DEF CeilingInv
    <2> QED
      BY <2>1, <2>2
  <1>3. ASSUME NEW q \in Req, at'[q] \in Counted, ~raced'[q]
        PROVE  Cardinality(InFlight(WorkflowOf[q])') < MaxInFlight
    <2>1. q # r /\ at[q] \in Counted
      <3>1. CASE CreateRun(r)
        BY <1>3, <3>1 DEF CreateRun, Goto, Counted, TypeOK
      <3>2. CASE RetryRun(r)
        BY <1>3, <3>2 DEF RetryRun, PlaceTells, Counted, TypeOK, None
      <3> QED
        BY <3>1, <3>2
    <2>2. ~raced[q] /\ WorkflowOf[q] # WorkflowOf[r]
      BY <1>3, <2>1 DEF CreateRun, RetryRun, Races, Counted, TypeOK
    <2> QED
      BY <1>1, <2>1, <2>2 DEF CeilingInv
  <1> QED
    BY <1>2, <1>3 DEF CeilingInv

LEMMA CountBelowCeiling ==
  ASSUME TypeOK, CeilingInv, NEW r \in Req, GateCount(r)
  PROVE  CeilingInv'
  <1>1. \A w \in Workflow : InFlight(w)' = InFlight(w)
    BY DEF GateCount, InFlight
  <1>2. Cardinality(InFlight(WorkflowOf[r])) \in Nat
    BY FS_CardinalityType DEF CeilingInv
  <1>3. ASSUME NEW q \in Req, at'[q] \in Counted, ~raced'[q]
        PROVE  Cardinality(InFlight(WorkflowOf[q])) < MaxInFlight
    <2>1. CASE q = r
      <3>1. ~(Cardinality(InFlight(WorkflowOf[r])) >= MaxInFlight)
        BY <1>3, <2>1 DEF GateCount, Skip, Goto, Counted, TypeOK
      <3> QED
        BY <1>2, <2>1, <3>1
    <2>2. CASE q # r
      BY <1>3, <2>2 DEF GateCount, Skip, Settle, Goto, CeilingInv, TypeOK
    <2> QED
      BY <2>1, <2>2
  <1> QED
    BY <1>1, <1>3 DEF CeilingInv

\* Every other step of a request.
LEMMA OthersBelowCeiling ==
  ASSUME TypeOK, PlaceTells, CeilingInv, NEW r \in Req, Worker(r) \/ Backend(r) \/ Crash(r) \/ EndRun(r),
         ~CreateRun(r), ~GateCount(r)
  PROVE  /\ CeilingInv'
         /\ \A q \in Req : run'[q] = "created" => run[q] = "created"
  <1>1. \A q \in Req : run'[q] = "created" => run[q] = "created"
    BY DEF Worker, Backend, Ingress, Admit, HandleWebhook, ManualFire, HandleTriggered,
       ReceiveWebhook, LookUp, InsertEvent, ReportWinner, FireManually, FirePoll, EmitPoll,
       GateActive, GateRate, Incr, Expire, HandOff, HandOffThrows, Mark, Crash, EndRun, TypeOK
  <1>2. \A q \in Req : run'[q] \in {"created", "live"} => run[q] \in {"created", "live"}
    BY DEF Worker, Backend, Ingress, Admit, HandleWebhook, ManualFire, HandleTriggered,
       ReceiveWebhook, LookUp, InsertEvent, ReportWinner, FireManually, FirePoll, EmitPoll, Goto,
       GateActive, GateRate, Incr, Expire, HandOff, HandOffThrows, Mark, Crash, EndRun, TypeOK, PlaceTells
  <1>3. CASE Crash(r) \/ Mark(r) \/ GateActive(r) \/ GateRate(r) \/ Incr(r)
    <2>1. \A q \in Req : q # r => at'[q] = at[q] /\ raced'[q] = raced[q]
      BY <1>3 DEF Crash, Mark, GateActive, GateRate, Incr, Skip, Settle, Goto, TypeOK
    <2>2. at'[r] \in Counted => at[r] \in Counted /\ raced'[r] = raced[r]
      BY <1>3 DEF Crash, Mark, GateActive, GateRate, Incr, Skip, Settle, Goto, Counted, TypeOK
    <2>3. \A q \in Req : at'[q] \in Counted /\ ~raced'[q] => at[q] \in Counted /\ ~raced[q]
      BY <2>1, <2>2
    <2> QED
      BY <1>1, <1>2, <2>3, FewerInFlight
  <1>4. CASE ~(Crash(r) \/ Mark(r) \/ GateActive(r) \/ GateRate(r) \/ Incr(r))
    <2>1. raced' = raced
      BY <1>4 DEF Worker, Backend, Ingress, Admit, HandleWebhook, ManualFire, HandleTriggered,
         ReceiveWebhook, LookUp, InsertEvent, ReportWinner, FireManually, FirePoll, EmitPoll,
         Expire, HandOff, HandOffThrows, EndRun
    <2>2. \A q \in Req : at'[q] \in Counted => at[q] \in Counted
      BY <1>4 DEF Worker, Backend, Ingress, Admit, HandleWebhook, ManualFire, HandleTriggered, Goto,
         ReceiveWebhook, LookUp, InsertEvent, ReportWinner, FireManually, FirePoll, EmitPoll, Counted,
         Expire, HandOff, HandOffThrows, EndRun, TypeOK
    <2> QED
      BY <1>1, <1>2, <2>1, <2>2, FewerInFlight
  <1> QED
    BY <1>3, <1>4

\* What a step does to the ceiling, whoever takes it.
LEMMA StepBelowCeiling ==
  ASSUME TypeOK, PlaceTells, CeilingInv, [Next]_vars
  PROVE  /\ CeilingInv'
         /\ \A r \in Req : run'[r] = "created" => run[r] = "created" \/ CreateRun(r)
  <1>1. ASSUME NEW r \in Req, Worker(r) \/ Backend(r) \/ Crash(r) \/ EndRun(r) \/ RetryRun(r)
        PROVE  /\ CeilingInv'
               /\ \A q \in Req : run'[q] = "created" => run[q] = "created" \/ CreateRun(q)
    <2>1. CASE CreateRun(r)
      <3>1. \A q \in Req : q # r => run'[q] = run[q]
        BY <2>1 DEF CreateRun, TypeOK
      <3> QED
        BY <2>1, <3>1, RacesBelowCeiling
    <2>2. CASE GateCount(r)
      <3>1. run' = run
        BY <2>2 DEF GateCount
      <3> QED
        BY <2>2, <3>1, CountBelowCeiling
    <2>3. CASE RetryRun(r)
      <3>1. \A q \in Req : run'[q] = "created" => run[q] = "created"
        BY <2>3 DEF RetryRun, TypeOK
      <3> QED
        BY <2>3, <3>1, RacesBelowCeiling
    <2>4. CASE ~CreateRun(r) /\ ~GateCount(r) /\ ~RetryRun(r)
      BY <1>1, <2>4, OthersBelowCeiling
    <2> QED
      BY <2>1, <2>2, <2>3, <2>4
  <1>2. ASSUME UNCHANGED <<run, at, raced>>
        PROVE  CeilingInv' /\ \A q \in Req : run'[q] = run[q]
    BY <1>2 DEF CeilingInv, InFlight
  <1> QED
    BY <1>1, <1>2 DEF Next, SetStatus, NextHour, ForgetPastHours, KeyExpires

\* A trigger starts a run above the concurrency ceiling only if another run of its
\* workflow was created, or came back by a retry, between its count and its insert.
THEOREM CeilingHolds == Spec => CeilingUnlessRaced
  <1>1. Init => CeilingInv
    <2> SUFFICES ASSUME Init PROVE CeilingInv
      OBVIOUS
    <2>1. \A w : InFlight(w) = {}
      BY DEF Init, InFlight, None
    <2> QED
      BY <2>1, FS_EmptySet DEF Init, CeilingInv, Counted
  <1>2. TypeOK /\ RowsInv /\ CeilingInv /\ [Next]_vars => CeilingInv'
    BY StepBelowCeiling DEF RowsInv
  <1>3. TypeOK /\ RowsInv /\ CeilingInv /\ [Next]_vars
          => \A r \in Req : run[r] = None /\ run'[r] = "created" /\ ~raced[r]
               => Cardinality(InFlight(WorkflowOf[r])') <= MaxInFlight
    <2> SUFFICES ASSUME TypeOK, RowsInv, CeilingInv, [Next]_vars,
                        NEW r \in Req, run[r] = None, run'[r] = "created", ~raced[r]
                 PROVE  Cardinality(InFlight(WorkflowOf[r])') <= MaxInFlight
      OBVIOUS
    <2>1. PlaceTells
      BY DEF RowsInv
    <2>2. CreateRun(r)
      BY <2>1, StepBelowCeiling DEF None
    <2>3. Cardinality(InFlight(WorkflowOf[r])) < MaxInFlight
      BY <2>2 DEF CeilingInv, CreateRun, Goto, Counted
    <2>4. Cardinality(InFlight(WorkflowOf[r])) \in Nat
      BY FS_CardinalityType DEF CeilingInv
    <2> QED
      BY <2>1, <2>2, <2>3, <2>4, OneMoreInFlight
  <1>4. AdmissionInv => TypeOK /\ RowsInv
    BY DEF AdmissionInv
  <1> QED
    BY <1>1, <1>2, <1>3, <1>4, AdmissionInvariant, PTL DEF Spec, CeilingUnlessRaced
=============================================================================
