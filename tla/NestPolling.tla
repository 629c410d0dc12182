------------------------------ MODULE NestPolling ------------------------------
(***************************************************************************)
(* The poller of one SCHEDULED trigger in the backend: the requests that   *)
(* edit the trigger and its workflow (triggers.service.ts,                 *)
(* workflows.service.ts), the BullMQ repeatable job they register          *)
(* (scheduler.service.ts), and the polls its processes run                 *)
(* (polling.worker.ts) over a state in Redis that expires.                 *)
(*                                                                         *)
(* One action is what a handler does between two awaits that touch         *)
(* Postgres, the queue or Redis. What a payload becomes is module          *)
(* Admission; the Worker's poller is module Poller.                        *)
(***************************************************************************)
EXTENDS PollChange, FiniteSets

CONSTANTS
  Handler,      \* requests and boots under way at one time
  Process,      \* backend processes: each runs one poll at a time
  Item,         \* items of the polled responses
  Config,       \* trigger configurations: records of an interval and a watch
  Feed,         \* source -> the items it may publish
  Deployment    \* bounds: the processes that are up; the edits and boots, and the faults
                \* (processes that die, polls that fail, states that expire), to come

\* What a trigger watches: a record of the changeMode and of the source, which
\* stands for the endpoint, the method, the headers and the stateKey.
Watches == {c.watch : c \in Config}
Sources == {v.source : v \in Watches}

ASSUME NestPollingAssumption ==
  /\ Config # {}
  /\ \A c \in Config : c.interval \in Nat \ {0} /\ c.watch.changeMode \in Modes
  /\ Feed \in [Sources -> SUBSET Item]
  /\ \A d \in Deployment : d.up \subseteq Process /\ d.requests \in Nat /\ d.faults \in Nat

VARIABLES
  trigger,  \* the trigger's row is "SCHEDULED", of another type, or "deleted"
  active,   \* its workflow is ACTIVE
  config,   \* its configuration
  jobs,     \* the repeatable jobs of its poller: their intervals
  remote,   \* what each source answers
  state,    \* Redis: the last state
  handler,  \* each handler: where it is and what it holds
  poll,     \* each process: where its poll is and what it holds
  requests, faults,   \* bounds: requests and faults still to come
  \* history, of payloads with the watch they were found under: those emitted,
  \* those emitted twice, those in a baseline or dropped with their process, those
  \* found again by comparing with the state of another watch; the watch the state
  \* is of; two polls at work on the state at once; and what may still be said of the
  \* schedule (Begin)
  fired, twice, excused, retold, origin, overlapped, schedule

row     == <<trigger, active, config>>
history == <<fired, twice, excused, retold, origin, overlapped>>
vars    == <<row, jobs, remote, state, handler, poll, requests, faults, history, schedule>>

\* The trigger has an enabled poller to register and its workflow is ACTIVE.
Wanted == trigger = "SCHEDULED" /\ active

\* A handler holds the type its trigger had, the keys it found, the interval
\* it is to add (0: none) and whether it deletes the row at the end.
Resting == [at |-> "rest", was |-> "none", keys |-> {}, add |-> 0, deletes |-> FALSE]

NoWatch == [changeMode |-> "none", source |-> "none"]

\* A poll holds the watch it found, the response, the last state and whose it is.
Idle == [at |-> "idle", watch |-> NoWatch, body |-> <<>>, last |-> NoState, origin |-> NoWatch,
         payloads |-> <<>>]

Init ==
  /\ trigger = "SCHEDULED" /\ active = TRUE
  /\ config \in Config
  /\ jobs = {config.interval}
  /\ remote = [e \in Sources |-> <<>>]
  /\ state = NoState
  /\ handler = [h \in Handler |-> Resting]
  /\ \E d \in Deployment :
       /\ poll = [p \in Process |-> IF p \in d.up THEN Idle ELSE [Idle EXCEPT !.at = "down"]]
       /\ requests = d.requests /\ faults = d.faults
  /\ fired = {} /\ twice = {} /\ excused = {} /\ retold = {} /\ origin = NoWatch
  /\ overlapped = FALSE
  /\ schedule = "exact"

----------------------------------------------------------------------------
(* Handlers *)

\* A request arrives. If another is under way, nothing is said of the schedule
\* until a boot that nobody disturbs.
Begin(h, with, boots) ==
  /\ handler[h] = Resting
  /\ requests > 0
  /\ requests' = requests - 1
  /\ handler' = [handler EXCEPT ![h] = with]
  /\ schedule' = IF \E g \in Handler \ {h} : handler[g] # Resting THEN "unknown"
                 ELSE IF boots /\ schedule # "exact" THEN "if wanted" ELSE schedule

Step(h, from, with) ==
  /\ handler[h].at = from
  /\ handler' = [handler EXCEPT ![h] = with]

\* upsert: the type the trigger has before ...
FindExisting(h) ==
  /\ trigger # "deleted"
  /\ Begin(h, [Resting EXCEPT !.at = "upsert", !.was = trigger], FALSE)
  /\ UNCHANGED <<row, jobs, remote, state, poll, faults, history>>

\* ... and then the row: register the poller, or take the one it had away. The
\* state in Redis stays, whatever the trigger watches from now on.
Upsert(h) ==
  \E type \in {"SCHEDULED", "other"}, c \in Config :
    /\ trigger # "deleted"
    /\ trigger' = type /\ config' = c
    /\ Step(h, "upsert",
            CASE type = "SCHEDULED"                                -> [handler[h] EXCEPT !.at = "read"]
              [] type = "other" /\ handler[h].was = "SCHEDULED"    -> [handler[h] EXCEPT !.at = "list"]
              [] type = "other" /\ handler[h].was # "SCHEDULED"    -> Resting)
    /\ UNCHANGED <<active, jobs, remote, state, poll, requests, faults, history, schedule>>

\* remove: the poller goes before the row does.
Remove(h) ==
  /\ trigger # "deleted"
  /\ Begin(h, [Resting EXCEPT !.at = IF trigger = "SCHEDULED" THEN "list" ELSE "delete",
                              !.deletes = TRUE], FALSE)
  /\ UNCHANGED <<row, jobs, remote, state, poll, faults, history>>

DeleteRow(h) ==
  /\ Step(h, "delete", Resting)
  /\ trigger' = "deleted"
  /\ UNCHANGED <<active, config, jobs, remote, state, poll, requests, faults, history, schedule>>

\* pause, remove and PATCH enabled = false of the workflow; resume and
\* enabled = true.
SetStatus(h) ==
  /\ active' \in BOOLEAN
  /\ Begin(h, [Resting EXCEPT !.at = IF active' THEN "registering" ELSE "unregistering"], FALSE)
  /\ UNCHANGED <<trigger, config, jobs, remote, state, poll, faults, history>>

\* registerWorkflowPoller, unregisterWorkflowPoller: the workflow's trigger.
FindTrigger(h) ==
  /\ handler[h].at \in {"registering", "unregistering"}
  /\ handler' = [handler EXCEPT ![h] =
       CASE trigger # "SCHEDULED"                                  -> Resting
         [] trigger = "SCHEDULED" /\ @.at = "registering"          -> [@ EXCEPT !.at = "read"]
         [] trigger = "SCHEDULED" /\ @.at = "unregistering"        -> [@ EXCEPT !.at = "list"]]
  /\ UNCHANGED <<row, jobs, remote, state, poll, requests, faults, history, schedule>>

\* onModuleInit: a process that starts registers the triggers that are wanted.
Boot(h) ==
  /\ Begin(h, IF Wanted THEN [Resting EXCEPT !.at = "read"] ELSE Resting, TRUE)
  /\ UNCHANGED <<row, jobs, remote, state, poll, faults, history>>

\* registerPoller: the row again ...
ReadTrigger(h) ==
  /\ Step(h, "read", [handler[h] EXCEPT !.at = "list",
                                        !.add = IF Wanted THEN config.interval ELSE 0])
  /\ UNCHANGED <<row, jobs, remote, state, poll, requests, faults, history, schedule>>

\* ... unregisterPoller: the repeatable jobs there are ...
ListJobs(h) ==
  /\ Step(h, "list", [handler[h] EXCEPT !.at = "remove", !.keys = jobs])
  /\ UNCHANGED <<row, jobs, remote, state, poll, requests, faults, history, schedule>>

AfterRemoval(h) ==
  CASE handler[h].add # 0                          -> [handler[h] EXCEPT !.at = "add", !.keys = {}]
    [] handler[h].add = 0 /\ handler[h].deletes    -> [handler[h] EXCEPT !.at = "delete", !.keys = {}]
    [] handler[h].add = 0 /\ ~handler[h].deletes   -> Resting

\* Mutant: a poller is removed when it is no longer wanted only.
RemoveUnlessAdding(h) ==
  /\ Step(h, "remove", AfterRemoval(h))
  /\ jobs' = IF handler[h].add # 0 THEN jobs ELSE jobs \ handler[h].keys
  /\ UNCHANGED <<row, remote, state, poll, requests, faults, history, schedule>>

\* ... are removed, by their keys: what was added since stays ...
RemoveJobs(h) ==
  /\ Step(h, "remove", AfterRemoval(h))
  /\ jobs' = jobs \ handler[h].keys
  /\ UNCHANGED <<row, remote, state, poll, requests, faults, history, schedule>>

\* ... and the new one is added. Its key has the interval in it.
AddJob(h) ==
  /\ Step(h, "add", Resting)
  /\ jobs' = jobs \cup {handler[h].add}
  /\ UNCHANGED <<row, remote, state, poll, requests, faults, history, schedule>>

\* The process dies with a handler in the middle, or a call of it fails.
LoseHandler(h) ==
  /\ handler[h] # Resting
  /\ faults > 0
  /\ faults' = faults - 1
  /\ handler' = [handler EXCEPT ![h] = Resting]
  /\ schedule' = "unknown"
  /\ UNCHANGED <<row, jobs, remote, state, poll, requests, history>>

----------------------------------------------------------------------------
(* PollingWorker.process *)

PollGoto(p, from, with) ==
  /\ poll[p].at = from
  /\ poll' = [poll EXCEPT ![p] = with]

\* A repeatable job is due (an earlier one may still be at work elsewhere), or
\* a stalled one is taken again: the trigger as it is now. One that is off is
\* skipped, its job stays.
Find(p) ==
  /\ \/ poll[p].at = "idle" /\ jobs # {}
     \/ poll[p].at = "stalled"
  /\ poll' = [poll EXCEPT ![p] = IF Wanted THEN [Idle EXCEPT !.at = "fetch", !.watch = config.watch]
                                           ELSE Idle]
  /\ UNCHANGED <<row, jobs, remote, state, handler, requests, faults, history, schedule>>

\* fetchPollEndpoint.
Fetch(p) ==
  /\ PollGoto(p, "fetch", [poll[p] EXCEPT !.at = "evaluate", !.body = remote[poll[p].watch.source]])
  /\ overlapped' = (overlapped \/ \E q \in Process \ {p} : poll[q].at \in {"evaluate", "write"})
  /\ UNCHANGED <<row, jobs, remote, state, handler, requests, faults, fired, twice, excused, retold,
                 origin, schedule>>

\* readLastState and, with what it answers, evaluatePoll.
Evaluate(p) ==
  /\ PollGoto(p, "evaluate", [poll[p] EXCEPT !.at = "write", !.last = state, !.origin = origin])
  /\ UNCHANGED <<row, jobs, remote, state, handler, requests, faults, history, schedule>>

\* What a response can start runs for: its items, or itself.
Told(v, b) == {v} \X (IF v.changeMode = "array_length" THEN Items(b) ELSE {b})

\* What p is to emit.
Payloads(p) == {poll[p].watch} \X Items(poll[p].payloads)

Pending == UNION {Payloads(p) : p \in Process}

\* p compares a response of its watch with a state of another.
Crosses(p) == poll[p].last # NoState /\ poll[p].origin # poll[p].watch

\* Mutant: the state is written when nothing was emitted only.
WriteUnlessChanged(p) ==
  LET v == poll[p].watch
      outcome == evaluatePoll(v.changeMode, poll[p].body, poll[p].last) IN
  /\ PollGoto(p, "write", [Idle EXCEPT !.at = "emit", !.watch = v, !.payloads = outcome.payloads])
  /\ IF outcome.kind = "changed" THEN UNCHANGED <<state, origin>>
                                 ELSE state' = outcome.state /\ origin' = v
  /\ excused' = IF outcome.kind = "baseline" \/ Crosses(p) THEN excused \cup Told(v, poll[p].body)
                                                          ELSE excused
  /\ retold' = IF Crosses(p) THEN retold \cup (({v} \X Items(outcome.payloads)) \cap (fired \cup Pending))
                            ELSE retold
  /\ UNCHANGED <<row, jobs, remote, handler, requests, faults, fired, twice, overlapped, schedule>>

\* writeState, with its lifetime, before anything is emitted.
Write(p) ==
  LET v == poll[p].watch
      outcome == evaluatePoll(v.changeMode, poll[p].body, poll[p].last) IN
  /\ PollGoto(p, "write", [Idle EXCEPT !.at = "emit", !.watch = v, !.payloads = outcome.payloads])
  /\ state' = outcome.state /\ origin' = v
  /\ excused' = IF outcome.kind = "baseline" \/ Crosses(p) THEN excused \cup Told(v, poll[p].body)
                                                          ELSE excused
  /\ retold' = IF Crosses(p) THEN retold \cup (({v} \X Items(outcome.payloads)) \cap (fired \cup Pending))
                            ELSE retold
  /\ UNCHANGED <<row, jobs, remote, handler, requests, faults, fired, twice, overlapped, schedule>>

\* Mutant: one run for a poll, as the other modes have it.
EmitFirst(p) ==
  /\ PollGoto(p, "emit", Idle)
  /\ fired' = IF poll[p].payloads = <<>> THEN fired
                                       ELSE fired \cup {<<poll[p].watch, poll[p].payloads[1]>>}
  /\ twice' = twice \cup (Payloads(p) \cap fired)
  /\ UNCHANGED <<row, jobs, remote, state, handler, requests, faults, excused, retold, origin,
                 overlapped, schedule>>

\* All payloads at once: emit() does not wait for their listener.
Emit(p) ==
  /\ PollGoto(p, "emit", Idle)
  /\ fired' = fired \cup Payloads(p)
  /\ twice' = twice \cup (Payloads(p) \cap fired)
  /\ UNCHANGED <<row, jobs, remote, state, handler, requests, faults, excused, retold, origin,
                 overlapped, schedule>>

\* The endpoint or Redis fails: logged, and the next tick tries again.
PollFails(p) ==
  /\ poll[p].at \in {"fetch", "evaluate", "write"}
  /\ faults > 0
  /\ faults' = faults - 1
  /\ poll' = [poll EXCEPT ![p] = Idle]
  /\ UNCHANGED <<row, jobs, remote, state, handler, requests, history, schedule>>

\* The process dies: the job stalls and is taken again, from its beginning.
Stall(p) ==
  /\ poll[p].at \notin {"down", "idle", "stalled"}
  /\ faults > 0
  /\ faults' = faults - 1
  /\ poll' = [poll EXCEPT ![p] = [Idle EXCEPT !.at = "stalled"]]
  /\ excused' = excused \cup Payloads(p)
  /\ UNCHANGED <<row, jobs, remote, state, handler, requests, fired, twice, retold, origin,
                 overlapped, schedule>>

\* A day without a poll that wrote: the next one is a baseline again.
StateExpires ==
  /\ state # NoState
  /\ faults > 0
  /\ faults' = faults - 1
  /\ state' = NoState /\ origin' = NoWatch
  /\ UNCHANGED <<row, jobs, remote, handler, poll, requests, fired, twice, excused, retold,
                 overlapped, schedule>>

\* A source has one more item, newest first.
Publish(e) ==
  /\ \E x \in Feed[e] \ Items(remote[e]) : remote' = [remote EXCEPT ![e] = <<x>> \o @]
  /\ UNCHANGED <<row, jobs, state, handler, poll, requests, faults, history, schedule>>

----------------------------------------------------------------------------

Edit(h) == FindExisting(h) \/ Remove(h) \/ SetStatus(h)

Handle(h) ==
  \/ Upsert(h) \/ DeleteRow(h) \/ FindTrigger(h)
  \/ ReadTrigger(h) \/ ListJobs(h) \/ RemoveJobs(h) \/ AddJob(h)

Poll(p) == Find(p) \/ Fetch(p) \/ Evaluate(p) \/ Write(p) \/ Emit(p)

Next ==
  \/ \E h \in Handler : Edit(h) \/ Boot(h) \/ Handle(h) \/ LoseHandler(h)
  \/ \E p \in Process : Poll(p) \/ PollFails(p) \/ Stall(p)
  \/ StateExpires
  \/ \E e \in Sources : Publish(e)

Spec == Init /\ [][Next]_vars

----------------------------------------------------------------------------
(* Properties *)

Bodies == {<<>>} \cup UNION {[1..n -> Item] : n \in 1..Cardinality(Item)}

TypeOK ==
  /\ trigger \in {"SCHEDULED", "other", "deleted"} /\ active \in BOOLEAN /\ config \in Config
  /\ jobs \subseteq {c.interval : c \in Config}
  /\ remote \in [Sources -> Bodies]
  /\ state = NoState \/ \E m \in Modes, b \in Bodies : state = buildState(m, b)
  /\ \A h \in Handler :
       /\ handler[h].at \in {"rest", "upsert", "registering", "unregistering", "read", "list",
                             "remove", "add", "delete"}
       /\ handler[h].keys \subseteq {c.interval : c \in Config}
       /\ handler[h].add \in {0} \cup {c.interval : c \in Config}
  /\ \A p \in Process :
       /\ poll[p].at \in {"down", "idle", "stalled", "fetch", "evaluate", "write", "emit"}
       /\ poll[p].body \in Bodies
       /\ poll[p].watch \in Watches \cup {NoWatch} /\ poll[p].origin \in Watches \cup {NoWatch}
  /\ requests \in Nat /\ faults \in Nat
  /\ fired \cup excused \cup twice \cup retold \subseteq Watches \X (Item \cup Bodies)
  /\ origin \in Watches \cup {NoWatch} /\ overlapped \in BOOLEAN
  /\ schedule \in {"exact", "if wanted", "unknown"}

AtRest == \A h \in Handler : handler[h] = Resting

\* However edits of the type, the interval and the status, deletions and boots
\* follow one another, a wanted trigger has one repeatable job, at its interval,
\* and another has none. Edits that race or are lost may break this (two
\* intervals, or none); a boot puts a wanted trigger right again.
ScheduleFollowsTrigger ==
  AtRest =>
    /\ Wanted /\ schedule # "unknown" => jobs = {config.interval}
    /\ ~Wanted /\ schedule = "exact" => jobs = {}

\* A change starts its runs once, through failed, stalled and repeated polls, a
\* state that expires and edits of what the trigger watches, with two exceptions:
\* two polls worked on the state at once (it is read long before it is written, and
\* nothing but the order of the ticks keeps two processes apart), or a poll found
\* it again by comparing with a state stored under another changeMode, stateKey or
\* endpoint, which an edit leaves in Redis.
FiresOnceUnlessRetold == overlapped \/ twice \subseteq retold

\* What a state of watch v has seen, and what payloads under v have shown of that.
Seen(st)     == IF st.comparison[1] = "array_length" THEN Items(st.items) ELSE {st.comparison[2]}
Shown(v, ps) == {IF v.changeMode = "specific_field" THEN FieldOf(t[2]) ELSE t[2] :
                   t \in {u \in ps : u[1] = v}}

\* What the stored state has seen was a baseline's or a crossing poll's, or its run
\* was started or is about to be, or went down with a process: no interleaving of
\* polls, edits, expiries and failures stores a change without emitting it.
NothingMissed ==
  state # NoState =>
    Seen(state) \subseteq Shown(origin, fired \cup excused \cup Pending)
=============================================================================
