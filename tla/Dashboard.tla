------------------------------ MODULE Dashboard ------------------------------
(***************************************************************************)
(* The builder page of the dashboard (views/workflows/WorkflowDetailPage   *)
(* and the panels it opens) as a cache over the API: four queries, the     *)
(* mutations the page offers, and the server they read and write, which    *)
(* the run engine and other clients change as well.                        *)
(*                                                                         *)
(* @tanstack/react-query is modelled as the page uses it: a query keeps    *)
(* its data while it fetches; invalidating one that has data cancels the   *)
(* fetch in flight and starts another, but one that is loading for the     *)
(* first time is left to finish; a cancelled fetch's answer is dropped.    *)
(* Every view is taken to be mounted; ['executions', ...] and              *)
(* ['execution', id] are one query, "run", since they are invalidated and  *)
(* polled alike. Texts, names and step settings are left out.              *)
(***************************************************************************)
EXTENDS Naturals, Sequences, FiniteSets, SequencesExt

CONSTANTS
  MaxClicks,      \* bound: mutations, one request each
  Menus,          \* what the user does in one behaviour: subsets of Kinds
  TriggerTypes,   \* what a trigger can be saved as
  FirstSteps,     \* the steps the workflow starts with
  MaxStep,        \* bound: the largest step id
  MaxRuns,        \* bound: runs started
  MaxElsewhere,   \* bound: edits by other clients
  MaxFailures,    \* bound: requests that fail or whose answer is lost
  Unknown         \* a query without data yet

\* The requests of the page that change something.
Kinds == {"reorder", "addStep", "removeStep", "save", "setOn", "fire", "cancel"}

Click  == 1..MaxClicks   \* in the order they are pressed
Step   == 1..MaxStep
Query  == {"workflow", "trigger", "actions", "run"}
Absent == "none"   \* no trigger, no run

ASSUME DashboardAssumption ==
  /\ Menus \subseteq SUBSET Kinds /\ "WEBHOOK" \in TriggerTypes
  /\ MaxClicks \in Nat /\ MaxRuns \in Nat /\ MaxElsewhere \in Nat /\ MaxFailures \in Nat
  /\ MaxStep \in Nat /\ FirstSteps \in Seq(Step)
  /\ Unknown \notin Seq(Step) /\ Unknown \notin TriggerTypes \cup {Absent, "ACTIVE", "PAUSED"}

VARIABLES
  menu,
  server,      \* the workflow's status, trigger and steps, accepted events, and the runs' statuses
  data,        \* the cache: what each query shows
  fetch,       \* each query: "idle", "sent", or "answered" with a value on its way
  click,       \* each mutation
  elsewhere, failures,
  \* history: queries whose data may be behind through no step of this page, and
  \* runs of this page's events that were admitted when nothing would look
  behind, missed

pageVars == <<menu, server, data, fetch, click, elsewhere, failures, behind, missed>>

Touched(kind) == CASE kind \in {"reorder", "addStep", "removeStep"} -> "actions"
                   [] kind = "save" -> "trigger"
                   [] kind = "setOn" -> "workflow"
                   [] OTHER -> "run"

InFlight(status) == status \in {"PENDING", "RUNNING"}

\* What the API answers to each query: no trigger is a 404, which the page takes
\* for an answer; of the runs it lists the last one, here with its number.
GetWorkflow == server.status
GetTrigger  == server.trigger
ListActions == server.steps
GetRun(n)   == [n |-> n, status |-> server.runs[n]]
ListLatest  == IF server.runs = <<>> THEN [n |-> 0, status |-> Absent] ELSE GetRun(Len(server.runs))

Value(q) == CASE q = "workflow" -> GetWorkflow
              [] q = "trigger"  -> GetTrigger
              [] q = "actions"  -> ListActions
              [] q = "run"      -> ListLatest

Idle == [at |-> "idle", value |-> Unknown]
Sent == [at |-> "sent", value |-> Unknown]

----------------------------------------------------------------------------
(* Queries *)

\* queryClient.invalidateQueries({ queryKey: [q, ...] }).
Invalidated(q, showing) ==
  IF showing = Unknown /\ fetch[q] # Idle THEN fetch ELSE [fetch EXCEPT ![q] = Sent]
Invalidate(q) == fetch' = Invalidated(q, data[q])

\* The API reads the rows.
Answer(q) ==
  /\ fetch[q].at = "sent"
  /\ fetch' = [fetch EXCEPT ![q] = [at |-> "answered", value |-> Value(q)]]
  /\ behind' = behind \ {q}
  /\ UNCHANGED <<menu, server, data, click, elsewhere, failures, missed>>

Arrive(q) ==
  /\ fetch[q].at = "answered"
  /\ data' = [data EXCEPT ![q] = fetch[q].value]
  /\ fetch' = [fetch EXCEPT ![q] = Idle]
  /\ UNCHANGED <<menu, server, click, elsewhere, failures, behind, missed>>

\* Runs that the page, showing `seen`, does not know of and will not ask for by itself.
Unseen(seen) == IF seen = Unknown THEN 1..Len(server.runs)
                ELSE IF InFlight(seen.status) THEN {}
                ELSE (seen.n + 1)..Len(server.runs)

\* What it shows, or will when the answer under way is in.
Coming == IF fetch["run"].at = "answered" THEN fetch["run"].value ELSE data["run"]

\* A fetch that fails for good, its retries included.
FetchFails(q) ==
  /\ fetch[q] # Idle /\ failures < MaxFailures
  /\ failures' = failures + 1
  /\ fetch' = [fetch EXCEPT ![q] = Idle]
  /\ behind' = behind \cup {q}
  /\ missed' = IF q = "run" THEN missed \cup Unseen(data["run"]) ELSE missed
  /\ UNCHANGED <<menu, server, data, click, elsewhere>>

\* Mutant of Poll: only a run that has started is polled.
PollStarted ==
  /\ data["run"] # Unknown /\ data["run"].status = "RUNNING" /\ fetch["run"] = Idle
  /\ fetch' = [fetch EXCEPT !["run"] = Sent]
  /\ UNCHANGED <<menu, server, data, click, elsewhere, failures, behind, missed>>

\* refetchInterval: while the run shown is in flight.
Poll ==
  /\ data["run"] # Unknown /\ InFlight(data["run"].status) /\ fetch["run"] = Idle
  /\ fetch' = [fetch EXCEPT !["run"] = Sent]
  /\ UNCHANGED <<menu, server, data, click, elsewhere, failures, behind, missed>>

\* The toast's Retry, Try again, the window's focus.
Refetch(q) ==
  /\ fetch[q] = Idle /\ (q \in behind \/ data[q] = Unknown)
  /\ fetch' = [fetch EXCEPT ![q] = Sent]
  /\ UNCHANGED <<menu, server, data, click, elsewhere, failures, behind, missed>>

----------------------------------------------------------------------------
(* What the user may press. A mutation is "sent", then "done", "refused" by *)
(* the API or "failed" on the way, then over once its callbacks have run.   *)
(* A panel closed and opened again is a new form, so only the switch, which *)
(* stays on the page, waits for its own answer.                             *)

New     == [at |-> "new"]
Over    == [at |-> "over"]
Pending(kind) == {c \in Click : click[c] \notin {New, Over} /\ click[c].kind = kind}

\* The queries that show what is on the server, or soon will.
Settled(q) ==
  /\ fetch[q] = Idle /\ q \notin behind
  /\ \A c \in Click : click[c] \in {New, Over} \/ Touched(click[c].kind) # q

\* The saves that another one now overlaps.
Overlapped(kind) == [c \in Click |-> IF kind = "save" /\ c \in Pending(kind) THEN [click[c] EXCEPT !.unsettled = TRUE]
                                  ELSE click[c]]

\* asked: the user confirmed. unsettled, of a save: the page was not up to date, or the
\* trigger was saved again, here or elsewhere, before the API came to the request.
Mutate(c, kind, arg, asked) ==
  /\ kind \in menu
  /\ click[c] = New /\ \A d \in 1..(c - 1) : click[d] # New
  /\ click' = [Overlapped(kind) EXCEPT ![c] =
       [at |-> "sent", kind |-> kind, arg |-> arg, asked |-> asked,
        unsettled |-> kind = "save" /\ ~Settled("trigger"),
        previous |-> IF kind = "reorder" THEN data["actions"] ELSE Unknown]]
  /\ UNCHANGED <<menu, server, elsewhere, failures, behind, missed>>

\* The places a step may be dragged from and to, or moved with its buttons: a
\* drop beyond the ends counts as one at the end, one where it was as none.
Drops(list) == {d \in (DOMAIN list) \X (DOMAIN list) : d[1] # d[2]}

\* The canvas's move(from, to).
Moved(list, from, to) == InsertAt(RemoveAt(list, from), to, list[from])

\* reorder.onMutate: the fetch of the list is cancelled, the new order shown at
\* once. A second reorder may start before the first is answered.
Reorder(c) ==
  /\ data["actions"] # Unknown
  /\ \E d \in Drops(data["actions"]) :
       LET ids == Moved(data["actions"], d[1], d[2])
       IN /\ Mutate(c, "reorder", ids, FALSE)
          /\ data' = [data EXCEPT !["actions"] = ids]
  /\ fetch' = [fetch EXCEPT !["actions"] = Idle]

\* StepDrawer.
AddStep(c) ==
  /\ data["actions"] # Unknown
  /\ Mutate(c, "addStep", Absent, FALSE)
  /\ UNCHANGED <<data, fetch>>

RemoveStep(c) ==
  /\ data["actions"] # Unknown
  /\ \E s \in ToSet(data["actions"]) : Mutate(c, "removeStep", s, FALSE)
  /\ UNCHANGED <<data, fetch>>

\* Mutant of AsksBefore: only a replacement by a schedule is thought of.
AsksBeforeSchedule(type) == data["trigger"] = "WEBHOOK" /\ type = "SCHEDULED"

\* TriggerEditor.save asks first when the trigger shown is a WEBHOOK and will
\* not be one any more.
AsksBefore(type) == data["trigger"] = "WEBHOOK" /\ type # "WEBHOOK"

\* The types the panel has a button for: a schedule can be saved again with other
\* settings, the others only when the trigger shown is of another type.
Offered == {type \in TriggerTypes : type = "SCHEDULED" \/ type # data["trigger"]}

Save(c) ==
  /\ data["trigger"] # Unknown
  /\ \E type \in Offered : Mutate(c, "save", type, AsksBefore(type))
  /\ UNCHANGED <<data, fetch>>

\* The switch.
SetOn(c) ==
  /\ data["workflow"] # Unknown /\ Pending("setOn") = {}
  /\ Mutate(c, "setOn", IF data["workflow"] = "ACTIVE" THEN "PAUSED" ELSE "ACTIVE", FALSE)
  /\ UNCHANGED <<data, fetch>>

\* SetupChecklist: the one thing there is a button for, once all is known.
NextItem == IF \E q \in Query : data[q] = Unknown THEN Absent
            ELSE IF data["trigger"] = Absent       THEN "trigger"
            ELSE IF data["actions"] = <<>>         THEN "steps"
            ELSE IF data["workflow"] # "ACTIVE"    THEN "on"
            ELSE IF data["run"].n = 0              THEN "test"
            ELSE Absent

\* The checklist's button, which waits for the same mutation.
TurnOn(c) ==
  /\ NextItem = "on" /\ Pending("setOn") = {}
  /\ Mutate(c, "setOn", "ACTIVE", FALSE)
  /\ UNCHANGED <<data, fetch>>

\* Without a trigger or while off, as far as the page knows.
TestRunBlocked == data["trigger"] \in {Unknown, Absent} \/ data["workflow"] # "ACTIVE"

\* Test run: the button of the page, or the checklist's.
Fire(c) ==
  /\ ~TestRunBlocked
  /\ server.events + Len(server.runs) + Cardinality(Pending("fire")) < MaxRuns
  /\ Mutate(c, "fire", Absent, FALSE)
  /\ UNCHANGED <<data, fetch>>

\* The run's page offers it while the run it shows is queued.
Cancel(c) ==
  /\ data["run"] # Unknown /\ data["run"].status = "PENDING"
  /\ Mutate(c, "cancel", data["run"].n, FALSE)
  /\ UNCHANGED <<data, fetch>>

----------------------------------------------------------------------------
(* The API applies a mutation, or refuses it (modules Editing, Admission)   *)

NewStep == CHOOSE s \in Step : s \notin server.used

Without(list, s) == RemoveAt(list, CHOOSE i \in DOMAIN list : list[i] = s)

Accepts(m) ==
  CASE m.kind = "reorder"    -> ToSet(m.arg) = ToSet(server.steps)
    [] m.kind = "addStep"    -> Cardinality(server.used) < MaxStep
    [] m.kind = "removeStep" -> m.arg \in ToSet(server.steps)
    [] m.kind = "fire"       -> server.status = "ACTIVE"
    [] m.kind = "cancel"     -> server.runs[m.arg] = "PENDING"
    [] OTHER                 -> TRUE

Applied(m) ==
  CASE m.kind = "reorder"    -> [server EXCEPT !.steps = m.arg]
    [] m.kind = "addStep"    -> [server EXCEPT !.steps = Append(@, NewStep), !.used = @ \cup {NewStep}]
    [] m.kind = "removeStep" -> [server EXCEPT !.steps = Without(@, m.arg)]
    [] m.kind = "save"       -> [server EXCEPT !.trigger = m.arg]
    [] m.kind = "setOn"      -> [server EXCEPT !.status = m.arg]
    [] m.kind = "fire"       -> [server EXCEPT !.events = @ + 1]
    [] m.kind = "cancel"     -> [server EXCEPT !.runs[m.arg] = "CANCELLED"]

Apply(c) ==
  /\ click[c].at = "sent"
  /\ IF Accepts(click[c])
     THEN server' = Applied(click[c]) /\ click' = [click EXCEPT ![c].at = "done"]
     ELSE server' = server /\ click' = [click EXCEPT ![c].at = "refused"]
  /\ UNCHANGED <<menu, data, fetch, elsewhere, failures, behind, missed>>

\* The request never arrives, or its answer is lost.
RequestFails(c) ==
  /\ click[c].at \in {"sent", "done"} /\ failures < MaxFailures
  /\ failures' = failures + 1
  /\ click' = [click EXCEPT ![c].at = "failed"]
  /\ behind' = IF click[c].at = "done" /\ click[c].kind # "reorder"
               THEN behind \cup {Touched(click[c].kind)} ELSE behind
  /\ missed' = IF click[c].at = "done" /\ click[c].kind = "fire" /\ fetch["run"].at # "sent"
               THEN missed \cup Unseen(Coming) ELSE missed
  /\ UNCHANGED <<menu, server, data, fetch, elsewhere>>

----------------------------------------------------------------------------
(* The callbacks *)

\* onSuccess of every mutation: what it changed is asked for again.
Succeed(c) ==
  /\ click[c].at = "done"
  /\ Invalidate(Touched(click[c].kind))
  /\ click' = [click EXCEPT ![c] = Over]
  \* a first load in flight is not started again, and may have been read before the run
  /\ missed' = IF click[c].kind = "fire" /\ data["run"] = Unknown /\ fetch["run"].at = "answered"
               THEN missed \cup Unseen(Coming) ELSE missed
  /\ UNCHANGED <<menu, server, data, elsewhere, failures, behind>>

\* Mutant of ReorderFails: the rollback is taken to be enough.
ReorderRollsBack(c) ==
  /\ click[c].at \in {"refused", "failed"} /\ click[c].kind = "reorder"
  /\ data' = [data EXCEPT !["actions"] = click[c].previous]
  /\ click' = [click EXCEPT ![c] = Over]
  /\ UNCHANGED <<menu, server, fetch, elsewhere, failures, behind, missed>>

\* reorder.onError and onSettled: the order from before, then a fetch.
ReorderFails(c) ==
  /\ click[c].at \in {"refused", "failed"} /\ click[c].kind = "reorder"
  /\ data' = [data EXCEPT !["actions"] = click[c].previous]
  /\ fetch' = Invalidated("actions", click[c].previous)
  /\ click' = [click EXCEPT ![c] = Over]
  /\ UNCHANGED <<menu, server, elsewhere, failures, behind, missed>>

\* cancel.onError: a 400 means it had started; look again.
CancelRefused(c) ==
  /\ click[c].at = "refused" /\ click[c].kind = "cancel"
  /\ Invalidate("run")
  /\ click' = [click EXCEPT ![c] = Over]
  /\ UNCHANGED <<menu, server, data, elsewhere, failures, behind, missed>>

\* The others: a toast, and what is shown stays.
Fail(c) ==
  /\ \/ click[c].at = "refused" /\ click[c].kind \notin {"reorder", "cancel"}
     \/ click[c].at = "failed" /\ click[c].kind # "reorder"
  /\ click' = [click EXCEPT ![c] = Over]
  /\ UNCHANGED <<menu, server, data, fetch, elsewhere, failures, behind, missed>>

----------------------------------------------------------------------------
(* Everybody else *)

\* The page will ask for the run after now.
WillLook == \/ fetch["run"].at = "sent"
            \/ Coming # Unknown /\ InFlight(Coming.status)
            \/ \E c \in Pending("fire") : click[c].at = "done"

\* Admission runs after the event was answered for: a run, or a refusal.
Admit ==
  /\ server.events > 0
  /\ server' = [server EXCEPT !.events = @ - 1, !.runs = Append(@, "PENDING")]
  /\ missed' = IF WillLook THEN missed ELSE missed \cup {Len(server.runs) + 1}
  /\ UNCHANGED <<menu, data, fetch, click, elsewhere, failures, behind>>

Refuse ==
  /\ server.events > 0
  /\ server' = [server EXCEPT !.events = @ - 1]
  /\ UNCHANGED <<menu, data, fetch, click, elsewhere, failures, behind, missed>>

RunStep(n) ==
  /\ InFlight(server.runs[n])
  /\ \E to \in (IF server.runs[n] = "PENDING" THEN {"RUNNING"} ELSE {"SUCCEEDED", "FAILED"}) :
       server' = [server EXCEPT !.runs[n] = to]
  /\ UNCHANGED <<menu, data, fetch, click, elsewhere, failures, behind, missed>>

\* Another tab or client of the same user.
EditElsewhere ==
  /\ elsewhere < MaxElsewhere
  /\ elsewhere' = elsewhere + 1
  /\ \E m \in {[kind |-> "addStep", arg |-> Absent]}
          \cup [kind : {"removeStep"}, arg : ToSet(server.steps)]
          \cup [kind : {"save"}, arg : TriggerTypes]
          \cup [kind : {"setOn"}, arg : {"ACTIVE", "PAUSED"}] :
       /\ m.kind \in menu /\ Accepts(m)
       /\ server' = Applied(m)
       /\ behind' = behind \cup {Touched(m.kind)}
       /\ click' = Overlapped(m.kind)
  /\ UNCHANGED <<menu, data, fetch, failures, missed>>

----------------------------------------------------------------------------
\* The page opens. Queries the menu cannot change are there already.
PageInit ==
  /\ menu \in Menus
  /\ \E status \in (IF "setOn" \in menu THEN {"ACTIVE", "PAUSED"} ELSE {"ACTIVE"}),
        trigger \in (IF "save" \in menu THEN TriggerTypes \cup {Absent} ELSE {"WEBHOOK"}) :
       server = [status |-> status, trigger |-> trigger, steps |-> FirstSteps,
                 used |-> ToSet(FirstSteps), events |-> 0, runs |-> <<>>]
  /\ data = [q \in Query |-> IF \E k \in menu : Touched(k) = q THEN Unknown ELSE Value(q)]
  /\ fetch = [q \in Query |-> IF \E k \in menu : Touched(k) = q THEN Sent ELSE Idle]
  /\ click = [c \in Click |-> New]
  /\ elsewhere = 0 /\ failures = 0 /\ behind = {} /\ missed = {}

Press(c) ==
  \/ Reorder(c) \/ AddStep(c) \/ RemoveStep(c) \/ Save(c) \/ SetOn(c) \/ TurnOn(c) \/ Fire(c) \/ Cancel(c)

Callback(c) == Succeed(c) \/ ReorderFails(c) \/ CancelRefused(c) \/ Fail(c)

PageNext ==
  \/ \E q \in Query : Answer(q) \/ Arrive(q) \/ FetchFails(q) \/ Refetch(q)
  \/ Poll
  \/ \E c \in Click : Press(c) \/ Apply(c) \/ RequestFails(c) \/ Callback(c)
  \/ Admit \/ Refuse \/ \E n \in DOMAIN server.runs : RunStep(n)
  \/ EditElsewhere

\* The network, the API, the timers and the run engine go on; users need not.
PageFairness ==
  /\ \A q \in Query : WF_pageVars(Answer(q)) /\ WF_pageVars(Arrive(q))
  /\ WF_pageVars(Poll)
  /\ \A c \in Click : WF_pageVars(Apply(c)) /\ WF_pageVars(Callback(c))
  /\ WF_pageVars(Admit \/ Refuse)
  /\ WF_pageVars(\E n \in DOMAIN server.runs : RunStep(n))

PageSpec == PageInit /\ [][PageNext]_pageVars /\ PageFairness

----------------------------------------------------------------------------
(* Properties *)

\* Whatever optimistic orders, rollbacks, racing fetches and mutations came
\* before, a query with nothing in flight shows what the server has, unless
\* another client changed it, its last fetch failed, or the answer of a
\* mutation other than a reorder was lost: those show the old data and fetch
\* nothing.
SettledIsTrue ==
  \A q \in Query \ {"run"} : Settled(q) /\ data[q] # Unknown => data[q] = Value(q)

\* No step of this page turns a WEBHOOK into another trigger, which discards
\* its secret, without the dialog, unless the page had not caught up: another
\* client made the webhook, or this page did and clicked on before the fetch
\* that follows the save.
WebhookNotLostUnasked ==
  [][\A c \in Click :
       /\ click[c].at = "sent" /\ click'[c].at # "sent"
       /\ server.trigger = "WEBHOOK" /\ server'.trigger # "WEBHOOK"
       => click[c].asked \/ click[c].unsettled]_pageVars

\* A test run that is admitted while the page is still going to look (the
\* fetch that follows the fire, or a run in flight it polls) is shown, and
\* followed to its end. Admitted later than that, nothing wakes the page.
TestRunIsFollowed ==
  \A n \in 1..MaxRuns :
    (n \in DOMAIN server.runs)
      ~> (n \in missed \/ (data["run"] # Unknown /\ data["run"].n >= n /\ ~InFlight(data["run"].status)))
=============================================================================
