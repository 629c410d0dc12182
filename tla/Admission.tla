----------------------------- MODULE Admission -----------------------------
(***************************************************************************)
(* How an outside event becomes a workflow execution: webhook ingress and  *)
(* its dedup, manual fire, the payloads of a poll, then admission - is the *)
(* workflow on, is it below its concurrency ceiling, is its owner below    *)
(* the hourly limit - and the hand-off to the run engine.  Both runtimes:  *)
(* the Worker's admit behind waitUntil, with the RateLimiter object, and   *)
(* the backend's event listener, with a counter in Redis.                  *)
(*                                                                         *)
(* Every request runs by itself; an await is where another one gets in.    *)
(* What the engines do with a run are modules RunEngine and NestEngine;    *)
(* here a run just ends at some time, and may come back.                   *)
(***************************************************************************)
EXTENDS Naturals, FiniteSets

CONSTANTS
  Req,          \* webhook deliveries, manual fires and poll payloads
  Workflow,     \* workflows of one user
  Key,          \* idempotency keys (header or payload fingerprint)
  WorkflowOf,   \* Req -> Workflow
  SourceOf,     \* Req -> {"webhook", "manual", "poll"}
  KeyOf,        \* Req -> Key, of the webhook deliveries
  Valid,        \* deliveries with a parsable body, a good signature, a WEBHOOK trigger
  MaxInFlight,  \* MAX_CONCURRENT_EXECUTIONS_PER_WORKFLOW
  MaxPerHour,   \* MAX_EXECUTIONS_PER_USER_PER_HOUR
  LastHour,     \* bound: the clock stops here
  MaxFaults     \* bound: lost isolates, calls that throw

ASSUME AdmissionAssumption ==
  /\ WorkflowOf \in [Req -> Workflow]
  /\ SourceOf \in [Req -> {"webhook", "manual", "poll"}]
  /\ KeyOf \in [Req -> Key]
  /\ Valid \subseteq Req
  /\ MaxInFlight \in Nat /\ MaxPerHour \in Nat \ {0} /\ LastHour \in Nat /\ MaxFaults \in Nat

VARIABLES
  runtime,   \* the one that is deployed
  active,    \* the workflows whose status is ACTIVE
  event,     \* the webhook_events row each request inserted: its status
  answer,    \* what its sender was told
  original,  \* the event a duplicate was told about
  at,        \* where each request is
  verdict,   \* the status its event will be marked with
  run,       \* the workflow_executions row it created
  hour,      \* the clock, in hours
  bucket,    \* the counters of the RateLimiter or of Redis, one an hour
  ttl,       \* the hours whose counter will expire in Redis
  faults,
  \* history: the hour whose budget the request used, and whether a run of its
  \* workflow was created or came back after it counted the runs in flight
  usedHour, raced

rows   == <<event, run>>
reply  == <<answer, original>>
limit  == <<hour, bucket, ttl, usedHour>>
vars   == <<runtime, active, rows, reply, at, verdict, limit, faults, raced>>

None  == "none"
Skips == {"SKIPPED", "SKIPPED_CONCURRENCY_LIMIT", "SKIPPED_RATE_LIMIT"}
Hours == 0..LastHour
NoHour == LastHour + 1

Init ==
  /\ runtime \in {"worker", "backend"}
  /\ active   = Workflow
  /\ event    = [r \in Req |-> None]
  /\ answer   = [r \in Req |-> None]
  /\ original = [r \in Req |-> r]
  /\ at       = [r \in Req |-> "arrive"]
  /\ verdict  = [r \in Req |-> "PROCESSED"]
  /\ run      = [r \in Req |-> None]
  /\ hour     = 0
  /\ bucket   = [h \in Hours |-> 0]
  /\ ttl      = {}
  /\ faults   = 0
  /\ usedHour = [r \in Req |-> NoHour]
  /\ raced    = [r \in Req |-> FALSE]

\* The runs of w that are PENDING or RUNNING.
InFlight(w) == {r \in Req : WorkflowOf[r] = w /\ run[r] \in {"created", "live"}}

\* The webhook events stored under r's workflow and key.
Stored(r) == {q \in Req : /\ event[q] # None
                          /\ SourceOf[q] = "webhook"
                          /\ WorkflowOf[q] = WorkflowOf[r]
                          /\ KeyOf[q] = KeyOf[r]}

Goto(r, from, to) ==
  /\ at[r] = from
  /\ at' = [at EXCEPT ![r] = to]

\* r's gates are behind it: what is left of them is the status its event will get,
\* PROCESSED again when that is done or lost.
Settle(r, status) ==
  /\ verdict' = [verdict EXCEPT ![r] = status]
  /\ raced' = [raced EXCEPT ![r] = FALSE]

----------------------------------------------------------------------------
(* Ingress *)

\* A delivery is checked: a JSON body, an active workflow, a WEBHOOK trigger, the signature.
ReceiveWebhook(r) ==
  /\ SourceOf[r] = "webhook"
  /\ IF r \in Valid /\ WorkflowOf[r] \in active
     THEN Goto(r, "arrive", "lookup") /\ UNCHANGED answer
     ELSE Goto(r, "arrive", "end") /\ answer' = [answer EXCEPT ![r] = "refused"]
  /\ UNCHANGED <<runtime, active, rows, original, verdict, limit, faults, raced>>

\* findEventByKey, before the insert.
LookUp(r) ==
  /\ IF Stored(r) = {}
     THEN Goto(r, "lookup", "insert") /\ UNCHANGED reply
     ELSE /\ Goto(r, "lookup", "end")
          /\ answer' = [answer EXCEPT ![r] = "duplicate"]
          /\ \E q \in Stored(r) : original' = [original EXCEPT ![r] = q]
  /\ UNCHANGED <<runtime, active, rows, verdict, limit, faults, raced>>

\* Mutant: no unique constraint behind the lookup.
InsertAlways(r) ==
  /\ Goto(r, "insert", "gate")
  /\ event' = [event EXCEPT ![r] = "RECEIVED"]
  /\ answer' = [answer EXCEPT ![r] = "accepted"]
  /\ UNCHANGED <<runtime, active, original, run, verdict, limit, faults, raced>>

\* createEvent: the unique constraint on (workflow, key) decides a race. The
\* sender is answered; admission goes on in the background.
InsertEvent(r) ==
  /\ IF Stored(r) = {}
     THEN /\ Goto(r, "insert", "gate")
          /\ event' = [event EXCEPT ![r] = "RECEIVED"]
          /\ answer' = [answer EXCEPT ![r] = "accepted"]
     ELSE Goto(r, "insert", "winner") /\ UNCHANGED <<event, answer>>
  /\ UNCHANGED <<runtime, active, original, run, verdict, limit, faults, raced>>

\* The loser of the race reports the winner's event.
ReportWinner(r) ==
  /\ Goto(r, "winner", "end")
  /\ answer' = [answer EXCEPT ![r] = "duplicate"]
  /\ \E q \in Stored(r) : original' = [original EXCEPT ![r] = q]
  /\ UNCHANGED <<runtime, active, rows, verdict, limit, faults, raced>>

\* Manual fire: an event without a key, so never a duplicate.
FireManually(r) ==
  /\ SourceOf[r] = "manual"
  /\ IF WorkflowOf[r] \in active
     THEN /\ Goto(r, "arrive", "gate")
          /\ event' = [event EXCEPT ![r] = "MANUAL"]
          /\ answer' = [answer EXCEPT ![r] = "accepted"]
     ELSE /\ Goto(r, "arrive", "end")
          /\ answer' = [answer EXCEPT ![r] = "refused"]
          /\ UNCHANGED event
  /\ UNCHANGED <<runtime, active, original, run, verdict, limit, faults, raced>>

\* One payload of a poll; pollOnce admits them one after the other.
FirePoll(r) ==
  /\ SourceOf[r] = "poll"
  /\ \A q \in Req : SourceOf[q] = "poll" /\ WorkflowOf[q] = WorkflowOf[r]
                      => at[q] \in {"arrive", "end"}
  /\ Goto(r, "arrive", "gate")
  /\ UNCHANGED <<runtime, active, rows, reply, verdict, limit, faults, raced>>

\* PollingWorker emits the payloads of a poll at once, each to a listener call.
EmitPoll(r) ==
  /\ SourceOf[r] = "poll"
  /\ Goto(r, "arrive", "gate")
  /\ UNCHANGED <<runtime, active, rows, reply, verdict, limit, faults, raced>>

----------------------------------------------------------------------------
(* Admission *)

Skip(r, from, why) ==
  /\ Goto(r, from, "mark")
  /\ Settle(r, why)

\* The workflow is read again: it may have been paused since.
GateActive(r) ==
  /\ IF WorkflowOf[r] \in active
     THEN Goto(r, "gate", "count") /\ UNCHANGED <<verdict, raced>>
     ELSE Skip(r, "gate", "SKIPPED")
  /\ UNCHANGED <<runtime, active, rows, reply, limit, faults>>

\* Mutant: only the runs that started are counted.
CountStarted(r) ==
  /\ IF Cardinality({q \in InFlight(WorkflowOf[r]) : run[q] = "live"}) >= MaxInFlight
     THEN Skip(r, "count", "SKIPPED_CONCURRENCY_LIMIT")
     ELSE Goto(r, "count", "consume") /\ UNCHANGED <<verdict, raced>>
  /\ UNCHANGED <<runtime, active, rows, reply, limit, faults>>

\* Mutant: the trigger over the ceiling is dropped without a mark.
DropSilently(r) ==
  /\ IF Cardinality(InFlight(WorkflowOf[r])) >= MaxInFlight
     THEN Goto(r, "count", "end")
     ELSE Goto(r, "count", "consume")
  /\ UNCHANGED <<runtime, active, rows, reply, verdict, limit, faults, raced>>

\* countInFlight against the ceiling.
GateCount(r) ==
  /\ IF Cardinality(InFlight(WorkflowOf[r])) >= MaxInFlight
     THEN Skip(r, "count", "SKIPPED_CONCURRENCY_LIMIT")
     ELSE Goto(r, "count", "consume") /\ UNCHANGED <<verdict, raced>>
  /\ UNCHANGED <<runtime, active, rows, reply, limit, faults>>

\* RateLimiter.consume, one call at a time: counted in the current hour, even when
\* that is one too many.
GateRate(r) ==
  /\ bucket' = [bucket EXCEPT ![hour] = @ + 1]
  /\ IF bucket[hour] + 1 <= MaxPerHour
     THEN /\ Goto(r, "consume", "create")
          /\ usedHour' = [usedHour EXCEPT ![r] = hour]
          /\ UNCHANGED <<verdict, raced>>
     ELSE Skip(r, "consume", "SKIPPED_RATE_LIMIT") /\ UNCHANGED usedHour
  /\ UNCHANGED <<runtime, active, rows, reply, hour, ttl, faults>>

\* Mutant: the first increment is taken for the second.
IncrKeepsKey(r) ==
  /\ bucket' = [bucket EXCEPT ![hour] = @ + 1]
  /\ IF bucket[hour] + 1 <= MaxPerHour
     THEN /\ Goto(r, "consume", "create")
          /\ usedHour' = [usedHour EXCEPT ![r] = hour]
          /\ UNCHANGED <<verdict, raced>>
     ELSE Skip(r, "consume", "SKIPPED_RATE_LIMIT") /\ UNCHANGED usedHour
  /\ UNCHANGED <<runtime, active, rows, reply, hour, ttl, faults>>

\* The backend's: INCR, which nobody gets between ...
Incr(r) ==
  /\ bucket' = [bucket EXCEPT ![hour] = @ + 1]
  /\ IF bucket[hour] + 1 <= MaxPerHour
     THEN /\ Goto(r, "consume", IF bucket[hour] = 0 THEN "expire" ELSE "create")
          /\ usedHour' = [usedHour EXCEPT ![r] = hour]
          /\ UNCHANGED <<verdict, raced>>
     ELSE Skip(r, "consume", "SKIPPED_RATE_LIMIT") /\ UNCHANGED usedHour
  /\ UNCHANGED <<runtime, active, rows, reply, hour, ttl, faults>>

\* ... and the EXPIRE of the first one, a call of its own.
Expire(r) ==
  /\ Goto(r, "expire", "create")
  /\ ttl' = ttl \cup {usedHour[r]}
  /\ UNCHANGED <<runtime, active, rows, reply, verdict, hour, bucket, usedHour, faults, raced>>

\* r's run is in flight from now on: the requests of its workflow that have
\* counted already have counted without it.
Races(r) ==
  raced' = [q \in Req |-> q # r /\ \/ raced[q]
                                   \/ /\ WorkflowOf[q] = WorkflowOf[r]
                                      /\ at[q] \in {"consume", "expire", "create"}]

\* createExecution: a PENDING row.
CreateRun(r) ==
  /\ Goto(r, "create", "launch")
  /\ run' = [run EXCEPT ![r] = "created"]
  /\ Races(r)
  /\ UNCHANGED <<runtime, active, event, reply, verdict, limit, faults>>

\* The hand-off: RUN_WORKFLOW.create, executionQueue.add. A row that was
\* cancelled meanwhile stays that.
HandOff(r) ==
  /\ Goto(r, "launch", "mark")
  /\ run' = [run EXCEPT ![r] = IF @ = "created" THEN "live" ELSE @]
  /\ UNCHANGED <<runtime, active, event, reply, verdict, limit, faults, raced>>

\* The create throws: the run is failed and the error rethrown, past the mark.
HandOffThrows(r) ==
  /\ faults < MaxFaults
  /\ faults' = faults + 1
  /\ Goto(r, "launch", "end")
  /\ run' = [run EXCEPT ![r] = "over"]
  /\ UNCHANGED <<runtime, active, event, reply, verdict, limit, raced>>

\* Mutant: markEvent's result is the default one.
MarkProcessed(r) ==
  /\ Goto(r, "mark", "end")
  /\ event' = IF event[r] = None THEN event ELSE [event EXCEPT ![r] = "PROCESSED"]
  /\ Settle(r, "PROCESSED")
  /\ UNCHANGED <<runtime, active, run, reply, limit, faults>>

\* markEvent: a poll has no event to mark.
Mark(r) ==
  /\ Goto(r, "mark", "end")
  /\ event' = IF event[r] = None THEN event ELSE [event EXCEPT ![r] = verdict[r]]
  /\ Settle(r, "PROCESSED")
  /\ UNCHANGED <<runtime, active, run, reply, limit, faults>>

----------------------------------------------------------------------------
(* The world around *)

\* The isolate dies, or the call r awaits throws (markEvent swallows that, the
\* others end the request): whatever was still to do is not done.
Crash(r) ==
  /\ at[r] \notin {"arrive", "end"}
  /\ faults < MaxFaults
  /\ faults' = faults + 1
  /\ at' = [at EXCEPT ![r] = "end"]
  /\ Settle(r, "PROCESSED")
  /\ UNCHANGED <<runtime, active, rows, reply, limit>>

\* The engine ends a run, or its user cancels one that is PENDING yet.
EndRun(r) ==
  /\ run[r] \in {"created", "live"}
  /\ run' = [run EXCEPT ![r] = "over"]
  /\ UNCHANGED <<runtime, active, event, reply, at, verdict, limit, faults, raced>>

\* A run that is over comes back: the operator's retry puts the row back to
\* PENDING and hands it to the engine, or the engine writes RUNNING over a row that
\* has ended. No gate is asked. (The Worker's retry of a row still in flight leaves
\* it in flight.)
RetryRun(r) ==
  /\ run[r] = "over"
  /\ run' = [run EXCEPT ![r] = "live"]
  /\ Races(r)
  /\ UNCHANGED <<runtime, active, event, reply, at, verdict, limit, faults>>

\* Pause and resume.
SetStatus(w) ==
  /\ active' = IF w \in active THEN active \ {w} ELSE active \cup {w}
  /\ UNCHANGED <<runtime, rows, reply, at, verdict, limit, faults, raced>>

NextHour ==
  /\ hour < LastHour
  /\ hour' = hour + 1
  /\ UNCHANGED <<runtime, active, rows, reply, at, verdict, bucket, ttl, usedHour, faults, raced>>

\* Mutant: the alarm forgets the current hour too.
ForgetAll ==
  /\ runtime = "worker"
  /\ \E h \in Hours : bucket[h] # 0
  /\ bucket' = [h \in Hours |-> 0]
  /\ UNCHANGED <<runtime, active, rows, reply, at, verdict, hour, ttl, usedHour, faults, raced>>

\* The RateLimiter's alarm forgets every hour but the current one.
ForgetPastHours ==
  /\ runtime = "worker"
  /\ \E h \in Hours \ {hour} : bucket[h] # 0
  /\ bucket' = [h \in Hours |-> IF h = hour THEN bucket[h] ELSE 0]
  /\ UNCHANGED <<runtime, active, rows, reply, at, verdict, hour, ttl, usedHour, faults, raced>>

\* A counter expires an hour after its first INCR: its own hour is over.
KeyExpires(h) ==
  /\ h \in ttl /\ h < hour
  /\ bucket' = [bucket EXCEPT ![h] = 0]
  /\ ttl' = ttl \ {h}
  /\ UNCHANGED <<runtime, active, rows, reply, at, verdict, hour, usedHour, faults, raced>>

----------------------------------------------------------------------------
(* The handlers of the Worker, and of the backend *)

Ingress(r) ==
  \/ ReceiveWebhook(r) \/ LookUp(r) \/ InsertEvent(r) \/ ReportWinner(r)
  \/ FireManually(r) \/ FirePoll(r)

Admit(r) ==
  \/ GateActive(r) \/ GateCount(r) \/ GateRate(r) \/ CreateRun(r) \/ HandOff(r)
  \/ HandOffThrows(r) \/ Mark(r)

\* WebhooksService: the same checks; then the event emitter, not awaited.
HandleWebhook(r) == ReceiveWebhook(r) \/ LookUp(r) \/ InsertEvent(r) \/ ReportWinner(r)
ManualFire(r)    == FireManually(r)

\* TriggeredListener: a queue.add that throws is a Crash, nothing fails the row.
HandleTriggered(r) ==
  \/ GateActive(r) \/ GateCount(r) \/ Incr(r) \/ Expire(r) \/ CreateRun(r) \/ HandOff(r) \/ Mark(r)

Worker(r)  == runtime = "worker" /\ (Ingress(r) \/ Admit(r))
Backend(r) == runtime = "backend" /\ (HandleWebhook(r) \/ ManualFire(r) \/ EmitPoll(r) \/ HandleTriggered(r))

Next ==
  \/ \E r \in Req : Worker(r) \/ Backend(r) \/ Crash(r) \/ EndRun(r) \/ RetryRun(r)
  \/ \E w \in Workflow : SetStatus(w)
  \/ NextHour
  \/ ForgetPastHours
  \/ \E h \in Hours : KeyExpires(h)

Spec == Init /\ [][Next]_vars

----------------------------------------------------------------------------
(* Properties *)

TypeOK ==
  /\ runtime \in {"worker", "backend"}
  /\ ttl \subseteq 0..NoHour
  /\ active \subseteq Workflow
  /\ event \in [Req -> {None, "RECEIVED", "MANUAL", "PROCESSED"} \cup Skips]
  /\ answer \in [Req -> {None, "accepted", "duplicate", "refused"}]
  /\ original \in [Req -> Req]
  /\ at \in [Req -> {"arrive", "lookup", "insert", "winner", "gate", "count",
                     "consume", "expire", "create", "launch", "mark", "end"}]
  /\ verdict \in [Req -> {"PROCESSED"} \cup Skips]
  /\ run \in [Req -> {None, "created", "live", "over"}]
  /\ hour \in Hours
  /\ bucket \in [Hours -> Nat]
  /\ faults \in 0..MaxFaults
  /\ usedHour \in [Req -> 0..NoHour]
  /\ raced \in [Req -> BOOLEAN]

\* "(workflow_id, idempotency_key) UNIQUE is the whole webhook dedup
\* guarantee": however deliveries of one key interleave, one of them at most
\* becomes a run.
OneRunPerKey ==
  \A q, r \in Req :
    /\ q # r
    /\ SourceOf[q] = "webhook" /\ SourceOf[r] = "webhook"
    /\ WorkflowOf[q] = WorkflowOf[r] /\ KeyOf[q] = KeyOf[r]
    => run[q] = None \/ run[r] = None

\* README: a duplicate is answered with the event it duplicates and has "no
\* side effects": no event, no run, nothing taken from the hourly budget.
DuplicateHasNoEffect ==
  \A r \in Req : answer[r] = "duplicate" =>
    /\ event[r] = None /\ run[r] = None /\ usedHour[r] = NoHour
    /\ original[r] \in Stored(r)

\* The delivery log tells the truth: an event marked SKIPPED* started nothing,
\* one marked PROCESSED has a run.
LogMatchesRuns ==
  \A r \in Req : /\ event[r] \in Skips => run[r] = None
                 /\ event[r] = "PROCESSED" => run[r] \in {"live", "over"}

\* "two concurrent triggers can't both slip under the limit": no hour gives out
\* more than its budget, whatever the alarm forgets meanwhile.
HourlyLimit ==
  \A h \in Hours : Cardinality({r \in Req : usedHour[r] = h}) <= MaxPerHour

\* Why those hold (the inductive invariant): where a request is tells what it
\* has stored and used so far ...
Fresh == {"arrive", "lookup", "insert", "winner"}
Started == {"gate", "count", "consume", "expire", "create", "launch", "mark"}

PlaceTells ==
  \A r \in Req :
    /\ at[r] \in Fresh => event[r] = None /\ usedHour[r] = NoHour /\ answer[r] = None
    /\ at[r] \in Started => event[r] \notin Skips \cup {"PROCESSED"} /\ answer[r] # "duplicate"
    /\ at[r] \in Fresh \cup {"gate", "count", "consume", "expire", "create"} => run[r] = None
    /\ at[r] = "launch" => run[r] \in {"created", "live", "over"}
    /\ verdict[r] \in Skips => at[r] \in {"mark", "end"} /\ run[r] = None
    /\ at[r] = "mark" /\ verdict[r] = "PROCESSED" => run[r] \in {"live", "over"}

\* ... a delivery goes on to a run only with an event of its own, and two of
\* one key do not both have one ...
DeliveryIsStored ==
  \A r \in Req : SourceOf[r] = "webhook" /\ (at[r] \in Started \/ run[r] # None) => event[r] # None
OneEventPerKey ==
  \A q, r \in Req : SourceOf[q] = "webhook" /\ q \in Stored(r) /\ event[r] # None
                      /\ SourceOf[r] = "webhook" => q = r

\* ... and the counter of the current hour counts what was used of it. (The
\* counters of past hours may be forgotten: nobody asks for them again.)
Used(h) == {r \in Req : usedHour[r] = h}
CounterCounts ==
  /\ \A h \in Hours : IsFiniteSet(Used(h)) /\ (h > hour => Used(h) = {})
  /\ Cardinality(Used(hour)) <= bucket[hour]

RowsInv == /\ PlaceTells
           /\ DeliveryIsStored
           /\ OneEventPerKey
           /\ DuplicateHasNoEffect
           /\ LogMatchesRuns
RateInv == CounterCounts /\ HourlyLimit

AdmissionInv == TypeOK /\ RowsInv /\ RateInv

\* The concurrency ceiling holds for a run nobody raced: a trigger starts one
\* above it only if, between its count and its insert, another run of the
\* workflow was created or came back by a retry - whatever is cancelled, ends
\* and comes back before the count or after the insert.
CeilingUnlessRaced ==
  [][\A r \in Req : run[r] = None /\ run'[r] = "created" /\ ~raced[r]
       => Cardinality(InFlight(WorkflowOf[r])') <= MaxInFlight]_vars

\* What an accepted trigger came to when its handlers are through with it: a run,
\* or an event that says why there is none - unless a process died or a call threw.
AcceptedIsDecided ==
  \A r \in Req : answer[r] = "accepted" /\ at[r] = "end" /\ faults = 0
    => run[r] \in {"live", "over"} \/ event[r] \in Skips

\* "EXPIRE is only set on the first increment in a bucket so the key self-cleans":
\* a counter in Redis that was used will expire, unless a process died between
\* the two calls.
CountersExpire ==
  \A h \in Hours : runtime = "backend" /\ bucket[h] # 0 /\ faults = 0
    => h \in ttl \/ \E r \in Req : at[r] = "expire" /\ usedHour[r] = h
=============================================================================
