------------------------------- MODULE Poller -------------------------------
(***************************************************************************)
(* The poller of one SCHEDULED trigger in the Worker: a Durable Object     *)
(* whose alarm is the timer and whose storage holds the last-seen state    *)
(* (durable/poller.ts), the requests that edit the trigger and then bring  *)
(* the poller in line, the 15-minute cron that re-arms it                  *)
(* (engine/polling.ts), and the endpoint it polls.                         *)
(*                                                                         *)
(* A Durable Object runs one alarm() at a time; an RPC (start, stop) gets  *)
(* in wherever alarm() awaits something outside of its own storage, and is *)
(* itself atomic.  What a payload becomes is module Admission.             *)
(***************************************************************************)
EXTENDS PollChange, FiniteSets

CONSTANTS
  Req,        \* requests that edit the trigger or its workflow
  Item,       \* items the endpoint may publish
  Config,     \* trigger configurations, of one endpoint: records of an interval and a changeMode
  ModeEdits,  \* TRUE: an edit may change the changeMode
  MaxFaults   \* bound: evicted objects, lost requests, failed polls and admits

ASSUME PollerAssumption ==
  /\ Config # {}
  /\ \A c \in Config : c.interval \in Nat \ {0} /\ c.changeMode \in Modes
  /\ ModeEdits \in BOOLEAN
  /\ MaxFaults \in Nat

VARIABLES
  trigger,  \* D1: the trigger row is "SCHEDULED", of another type, or "deleted"
  active,   \* D1: its workflow is ACTIVE
  config,   \* D1: its configuration
  remote,   \* what the endpoint answers
  req,      \* each request: where it is
  found,    \* each request: the interval it is about to start the poller with
  cron,     \* the cron's snapshot: the interval it will re-arm with
  \* the Durable Object's storage: its alarm, its config, its state
  alarm, interval, state,
  \* its running alarm(): where, the interval and changeMode it read, the
  \* response, the payloads still to admit
  tick, every, mode, body, payloads,
  faults,
  \* history: the payloads admitted, one admitted twice, the items polled so far
  fired, twice, polled

d1      == <<trigger, active, config>>
request == <<req, found>>
storage == <<alarm, interval, state>>
running == <<tick, every, mode, body, payloads>>
history == <<fired, twice, polled>>
vars    == <<d1, remote, request, cron, storage, running, faults, history>>

None == 0    \* no alarm, no config, nothing to start

\* "an enabled SCHEDULED trigger on an ACTIVE workflow"
Wanted == trigger = "SCHEDULED" /\ active

Init ==
  /\ trigger = "SCHEDULED" /\ active = TRUE
  /\ config \in Config
  /\ remote = <<>>
  /\ req = [r \in Req |-> "new"]
  /\ found = [r \in Req |-> None]
  /\ cron = None
  /\ alarm = None /\ interval = None /\ state = NoState
  /\ tick = "idle" /\ every = None /\ mode = "any" /\ body = <<>> /\ payloads = <<>>
  /\ faults = 0
  /\ fired = {} /\ twice = FALSE /\ polled = {}

----------------------------------------------------------------------------
(* The requests and the cron *)

ReqGoto(r, from, to) ==
  /\ req[r] = from
  /\ req' = [req EXCEPT ![r] = to]

\* POST /:id/trigger: the upsert keeps the row's id, whatever its type becomes.
SaveTrigger(r) ==
  /\ trigger # "deleted"
  /\ ReqGoto(r, "new", "sync")
  /\ trigger' \in {"SCHEDULED", "other"}
  /\ config' \in {c \in Config : ModeEdits \/ c.changeMode = config.changeMode}
  /\ UNCHANGED <<active, remote, found, cron, storage, running, faults, history>>

\* DELETE /:id/trigger. A trigger saved later has an id, and a poller, of its own.
DeleteTrigger(r) ==
  /\ trigger # "deleted"
  /\ ReqGoto(r, "new", "sync")
  /\ trigger' = "deleted"
  /\ UNCHANGED <<active, config, remote, found, cron, storage, running, faults, history>>

\* Pause, resume, archive, PATCH enabled.
SetStatus(r) ==
  /\ ReqGoto(r, "new", "lookup")
  /\ active' \in BOOLEAN
  /\ UNCHANGED <<trigger, config, remote, found, cron, storage, running, faults, history>>

\* syncWorkflowPoller: the workflow's trigger, if it has one.
FindTrigger(r) ==
  /\ ReqGoto(r, "lookup", IF trigger = "deleted" THEN "done" ELSE "sync")
  /\ UNCHANGED <<d1, remote, found, cron, storage, running, faults, history>>

\* syncTriggerPoller: the row as it is now ...
ReadTrigger(r) ==
  /\ ReqGoto(r, "sync", "call")
  /\ found' = [found EXCEPT ![r] = IF Wanted THEN config.interval ELSE None]
  /\ UNCHANGED <<d1, remote, cron, storage, running, faults, history>>

\* Mutant: every start begins with a new baseline.
StartAnew(i) ==
  /\ interval' = i
  /\ alarm' = IF alarm = None \/ interval # i THEN i ELSE alarm
  /\ state' = NoState

\* Poller.start: keeps a running alarm unless the interval changed.
Start(i) ==
  /\ interval' = i
  /\ alarm' = IF alarm = None \/ interval # i THEN i ELSE alarm
  /\ UNCHANGED state

\* Poller.stop: deleteAlarm, deleteAll.
Stop ==
  /\ alarm' = None
  /\ interval' = None
  /\ state' = NoState

\* ... and then the call: two requests may make theirs in the other order.
CallPoller(r) ==
  /\ ReqGoto(r, "call", "done")
  /\ IF found[r] # None THEN Start(found[r]) ELSE Stop
  /\ found' = [found EXCEPT ![r] = None]
  /\ UNCHANGED <<d1, remote, cron, running, faults, history>>

\* The request dies between its write and its call.
LoseRequest(r) ==
  /\ req[r] \in {"lookup", "sync", "call"}
  /\ faults < MaxFaults
  /\ faults' = faults + 1
  /\ req' = [req EXCEPT ![r] = "done"]
  /\ found' = [found EXCEPT ![r] = None]
  /\ UNCHANGED <<d1, remote, cron, storage, running, history>>

\* reconcilePollers: listActivePollingTriggers ...
CronList ==
  /\ cron = None
  /\ Wanted
  /\ cron' = config.interval
  /\ UNCHANGED <<d1, remote, request, storage, running, faults, history>>

\* Mutant: the cron only re-arms, it does not hand over the interval.
CronRearm ==
  /\ cron # None
  /\ cron' = None
  /\ alarm' = IF alarm = None THEN cron ELSE alarm
  /\ interval' = IF interval = None THEN cron ELSE interval
  /\ UNCHANGED <<d1, remote, request, state, running, faults, history>>

\* ... and a start for each. (A call that throws is logged; the cron is back.)
CronStart ==
  /\ cron # None
  /\ cron' = None
  /\ Start(cron)
  /\ UNCHANGED <<d1, remote, request, running, faults, history>>

----------------------------------------------------------------------------
(* alarm() *)

\* alarm() is not running: its locals are gone.
Returned == every' = None /\ mode' = "any" /\ body' = <<>> /\ payloads' = <<>>

\* The alarm goes off: the platform clears it and calls alarm(), which reads
\* its config. None: stop() was here, and the schedule ends.
Tick ==
  /\ tick = "idle"
  /\ alarm # None
  /\ alarm' = None
  /\ tick' = IF interval = None THEN "idle" ELSE "find"
  /\ every' = interval
  /\ UNCHANGED <<d1, remote, request, cron, interval, state, mode, body, payloads,
                 faults, history>>

TickGoto(from, to) == tick = from /\ tick' = to

\* pollOnce: findTriggerById; a trigger that is off ends the polling.
Find ==
  /\ TickGoto("find", IF Wanted THEN "fetch" ELSE "stop")
  /\ mode' = config.changeMode
  /\ UNCHANGED <<d1, remote, request, cron, storage, every, body, payloads, faults, history>>

\* fetchPollEndpoint: the response leaves the endpoint.
Fetch ==
  /\ TickGoto("fetch", "evaluate")
  /\ body' = remote
  /\ UNCHANGED <<d1, remote, request, cron, storage, every, mode, payloads, faults, history>>

\* Mutant: the state is written only when nothing is left to admit.
EvaluateKeepsState ==
  LET outcome == evaluatePoll(mode, body, state) IN
  /\ TickGoto("evaluate", IF outcome.kind = "changed" THEN "admit" ELSE "rearm")
  /\ state' = IF outcome.kind = "changed" THEN state ELSE outcome.state
  /\ payloads' = outcome.payloads
  /\ polled' = polled \cup Items(body)
  /\ UNCHANGED <<d1, remote, request, cron, alarm, interval, every, mode, body, faults,
                 fired, twice>>

\* Mutant: without a state everything is new.
EvaluateFromNothing ==
  LET outcome == evaluatePoll(mode, body, IF state = NoState THEN buildState(mode, <<>>) ELSE state)
  IN
  /\ TickGoto("evaluate", IF outcome.kind = "changed" THEN "admit" ELSE "rearm")
  /\ state' = outcome.state
  /\ payloads' = outcome.payloads
  /\ polled' = polled \cup Items(body)
  /\ UNCHANGED <<d1, remote, request, cron, alarm, interval, every, mode, body, faults,
                 fired, twice>>

\* store.read, evaluatePoll, store.write: no one gets in between, and the new
\* state is stored before any payload is admitted.
Evaluate ==
  LET outcome == evaluatePoll(mode, body, state) IN
  /\ TickGoto("evaluate", IF outcome.kind = "changed" THEN "admit" ELSE "rearm")
  /\ state' = outcome.state
  /\ payloads' = outcome.payloads
  /\ polled' = polled \cup Items(body)
  /\ UNCHANGED <<d1, remote, request, cron, alarm, interval, every, mode, body, faults,
                 fired, twice>>

\* admit the payloads, one after the other.
Admit ==
  /\ payloads # <<>>
  /\ TickGoto("admit", "admit")
  /\ payloads' = Tail(payloads)
  /\ fired' = fired \cup {payloads[1]}
  /\ twice' = (twice \/ payloads[1] \in fired)
  /\ UNCHANGED <<d1, remote, request, cron, storage, every, mode, body, faults, polled>>

\* All of them are: the poll is recorded.
AdmitDone ==
  /\ payloads = <<>>
  /\ TickGoto("admit", "rearm")
  /\ UNCHANGED <<d1, remote, request, cron, storage, every, mode, body, payloads, faults, history>>

\* D1 fails, the endpoint does, or admit throws: what is left of the poll is
\* dropped, the schedule goes on.
PollFails ==
  /\ tick \in {"find", "fetch", "admit"}
  /\ faults < MaxFaults
  /\ faults' = faults + 1
  /\ tick' = "rearm"
  /\ payloads' = <<>>
  /\ UNCHANGED <<d1, remote, request, cron, storage, every, mode, body, history>>

\* The next alarm, at the interval alarm() began with.
Rearm ==
  /\ TickGoto("rearm", "idle")
  /\ alarm' = every
  /\ Returned
  /\ UNCHANGED <<d1, remote, request, cron, interval, state, faults, history>>

\* keepPolling is false: this.stop(), even if start() was called meanwhile.
StopItself ==
  /\ TickGoto("stop", "idle")
  /\ Stop
  /\ Returned
  /\ UNCHANGED <<d1, remote, request, cron, faults, history>>

\* The object is evicted during alarm(): the platform calls alarm() again.
Evict ==
  /\ tick # "idle"
  /\ faults < MaxFaults
  /\ faults' = faults + 1
  /\ tick' = "idle"
  /\ alarm' = IF alarm = None THEN every ELSE alarm
  /\ Returned
  /\ UNCHANGED <<d1, remote, request, cron, interval, state, history>>

----------------------------------------------------------------------------
(* The endpoint *)

\* It has one more item, newest first.
Publish ==
  /\ remote' \in {<<x>> \o remote : x \in Item \ Items(remote)}
  /\ UNCHANGED <<d1, request, cron, storage, running, faults, history>>

----------------------------------------------------------------------------

Request(r) == FindTrigger(r) \/ ReadTrigger(r) \/ CallPoller(r)

Alarm ==
  Tick \/ Find \/ Fetch \/ Evaluate \/ Admit \/ AdmitDone \/ Rearm \/ StopItself

Next ==
  \/ \E r \in Req : SaveTrigger(r) \/ DeleteTrigger(r) \/ SetStatus(r)
                    \/ Request(r) \/ LoseRequest(r)
  \/ CronList \/ CronStart
  \/ Alarm \/ PollFails \/ Evict
  \/ Publish

\* Requests that were made, alarms and the cron go on; users and the endpoint
\* owe nothing.
Fairness ==
  /\ \A r \in Req : WF_vars(Request(r))
  /\ WF_vars(CronList) /\ WF_vars(CronStart)
  /\ WF_vars(Alarm)

Spec     == Init /\ [][Next]_vars
FairSpec == Spec /\ Fairness

----------------------------------------------------------------------------
(* Properties *)

Bodies == {<<>>} \cup UNION {[1..n -> Item] : n \in 1..Cardinality(Item)}

TypeOK ==
  /\ trigger \in {"SCHEDULED", "other", "deleted"} /\ active \in BOOLEAN /\ config \in Config
  /\ remote \in Bodies /\ body \in Bodies
  /\ req \in [Req -> {"new", "lookup", "sync", "call", "done"}]
  /\ found \in [Req -> Nat]
  /\ {cron, alarm, interval, every} \subseteq {None} \cup {c.interval : c \in Config}
  /\ state = NoState \/ \E m \in Modes, b \in Bodies : state = buildState(m, b)
  /\ tick \in {"idle", "find", "fetch", "evaluate", "admit", "rearm", "stop"}
  /\ mode \in Modes
  /\ Items(payloads) \subseteq Item \cup Bodies
  /\ faults \in 0..MaxFaults
  /\ fired \subseteq Item \cup Bodies /\ twice \in BOOLEAN /\ polled \subseteq Item

\* A detected change starts its runs once: the state goes to storage before the
\* first admit, so neither an eviction in the middle of the payloads nor a stop
\* and start around the poll detects it again. (The endpoint only adds items.)
FiresOnce == ~twice

\* "array_length fires once per *new* item", the other modes for a response
\* with news: nothing fires for what an earlier poll has seen already.
NothingOldFires ==
  [][tick = "evaluate" /\ tick' = "admit" =>
       IF mode = "array_length" THEN Items(payloads') \cap polled = {}
                                ELSE Items(body) \ polled # {}]_vars

\* However the edits, their late calls, a lost request and alarm()'s own late
\* stop interleave, the poller ends up polling at the trigger's interval, or
\* not at all when the trigger is not wanted.
FollowsTrigger ==
  /\ <>[]Wanted => <>[](interval = config.interval /\ (alarm # None \/ tick # "idle"))
  /\ <>[]~Wanted => <>[](alarm = None /\ tick = "idle")

\* No edit is in progress, and none that was can still stop the poller.
Quiet == Wanted /\ tick # "stop" /\ \A r \in Req : req[r] = "done"

\* What is published once the poller has its baseline starts a run, unless a
\* fault takes that poll.
NewsFires ==
  \A x \in Item :
    (Quiet /\ state # NoState /\ x \in Items(remote) /\ x \notin polled)
      ~> (faults > 0 \/ x \in fired \/ \E b \in fired \ Item : x \in Items(b))

=============================================================================
