---------------------------- MODULE ClientProofs ----------------------------
(***************************************************************************)
(* What holds of the two modules that have the browser in them: of the     *)
(* builder page (Dashboard), for any number of clicks, steps, runs and     *)
(* failures, and of the session (Sessions), for any number of tabs,        *)
(* requests, tokens and faults. The two have no variable in common.        *)
(***************************************************************************)
EXTENDS Dashboard, Sessions, FiniteSetTheorems, SequenceTheorems, TLAPS

----------------------------------------------------------------------------
(* The builder page: the inductive invariant *)

RunStatus == {"PENDING", "RUNNING", "SUCCEEDED", "FAILED", "CANCELLED"}
Switch    == {"ACTIVE", "PAUSED"}

\* What a query may show.
Shown(q) == CASE q = "workflow" -> Switch
              [] q = "trigger"  -> TriggerTypes \cup {Absent}
              [] q = "actions"  -> Seq(Step)
              [] q = "run"      -> [n : Nat, status : RunStatus \cup {Absent}]

\* What a mutation carries.
Carried(kind) == CASE kind = "reorder"    -> Seq(Step)
                   [] kind = "removeStep" -> Step
                   [] kind = "save"       -> TriggerTypes
                   [] kind = "setOn"      -> Switch
                   [] kind = "cancel"     -> Nat
                   [] OTHER               -> {Absent}

Started(kind) ==
  [at : {"sent", "done", "refused", "failed"}, kind : {kind}, arg : Carried(kind),
   asked : BOOLEAN, unsettled : BOOLEAN,
   previous : IF kind = "reorder" THEN Seq(Step) ELSE {Unknown}]

Server == [status : Switch, trigger : TriggerTypes \cup {Absent}, steps : Seq(Step),
           used : SUBSET Step, events : Nat, runs : Seq(RunStatus)]

PageTypeOK ==
  /\ menu \subseteq Kinds
  /\ server \in Server
  /\ data = [q \in Query |-> data[q]]
  /\ \A q \in Query : data[q] = Unknown \/ data[q] \in Shown(q)
  /\ fetch = [q \in Query |-> fetch[q]]
  /\ \A q \in Query : fetch[q] \in {Idle, Sent} \/ fetch[q] \in [at : {"answered"}, value : Shown(q)]
  /\ click = [c \in Click |-> click[c]]
  /\ \A c \in Click : click[c] \in {New, Over} \/ \E kind \in Kinds : click[c] \in Started(kind)

\* A mutation whose effect may be on one side only: the API's, until the fetch
\* that follows it, or of a reorder the page's, until it is answered.
OneSided(c, q) ==
  /\ click[c] \notin {New, Over} /\ (click[c].at = "done" \/ click[c].kind = "reorder")
  /\ Touched(click[c].kind) = q

\* A query that may be behind: one that a failure or another client left so, or
\* one with such a mutation.
Excused(q) == q \in behind \/ \E c \in Click : OneSided(c, q)

\* Otherwise what is on its way, or shown, is what the API would answer.
Agrees(q) ==
  /\ fetch[q].at = "answered" => fetch[q].value = Value(q)
  /\ fetch[q] = Idle /\ data[q] # Unknown => data[q] = Value(q)

InStep == \A q \in Query \ {"run"} : Excused(q) \/ Agrees(q)

\* What a mutation touches was shown when it was pressed, and is never unknown again.
Grounded ==
  \A c \in Click : click[c] \notin {New, Over} =>
    LET q == Touched(click[c].kind) IN q # "run" => data[q] # Unknown

\* Of two saves under way each knows that it is not alone.
SavesMeet ==
  \A c, d \in Pending("save") : c # d => click[c].unsettled

\* A save that need not ask takes no webhook away.
Harmless ==
  \A c \in Pending("save") :
    click[c].at = "sent" /\ ~click[c].asked /\ ~click[c].unsettled
      => server.trigger # "WEBHOOK" \/ click[c].arg = "WEBHOOK"

PageInv == PageTypeOK /\ InStep /\ Grounded /\ SavesMeet /\ Harmless

USE DEF Query, Kinds, Absent

----------------------------------------------------------------------------
(* Lists of steps *)

LEMMA RemoveAtIsList ==
  ASSUME NEW list \in Seq(Step), NEW i \in DOMAIN list
  PROVE  RemoveAt(list, i) \in Seq(Step) /\ Len(RemoveAt(list, i)) = Len(list) - 1
  <1>1. i \in 1..Len(list) /\ Len(list) \in Nat
    OBVIOUS
  <1>2. SubSeq(list, 1, i - 1) \in Seq(Step) /\ Len(SubSeq(list, 1, i - 1)) = i - 1
    BY <1>1
  <1>3. SubSeq(list, i + 1, Len(list)) \in Seq(Step) /\ Len(SubSeq(list, i + 1, Len(list))) = Len(list) - i
    BY <1>1
  <1> DEFINE before == SubSeq(list, 1, i - 1)
             after  == SubSeq(list, i + 1, Len(list))
  <1>4. RemoveAt(list, i) = before \o after
    BY DEF RemoveAt
  <1> HIDE DEF before, after
  <1>5. before \o after \in Seq(Step) /\ Len(before \o after) = Len(before) + Len(after)
    BY <1>2, <1>3 DEF before, after
  <1>6. (i - 1) + (Len(list) - i) = Len(list) - 1
    BY <1>1
  <1> QED
    BY <1>2, <1>3, <1>4, <1>5, <1>6 DEF before, after

LEMMA MovedIsList ==
  ASSUME NEW list \in Seq(Step), NEW d \in Drops(list)
  PROVE  Moved(list, d[1], d[2]) \in Seq(Step)
  <1>1. d[1] \in 1..Len(list) /\ d[2] \in 1..Len(list) /\ list[d[1]] \in Step
    BY DEF Drops
  <1> DEFINE rest == RemoveAt(list, d[1])
  <1>2. rest \in Seq(Step) /\ Len(rest) = Len(list) - 1
    BY <1>1, RemoveAtIsList
  <1> HIDE DEF rest
  <1>3. SubSeq(rest, 1, d[2] - 1) \in Seq(Step)
    BY <1>1, <1>2
  <1>4. SubSeq(rest, d[2], Len(rest)) \in Seq(Step)
    BY <1>1, <1>2
  <1>5. InsertAt(rest, d[2], list[d[1]]) \in Seq(Step)
    BY <1>1, <1>3, <1>4 DEF InsertAt
  <1> QED
    BY <1>5 DEF Moved, rest

LEMMA WithoutIsList ==
  ASSUME NEW list \in Seq(Step), NEW s \in ToSet(list)
  PROVE  Without(list, s) \in Seq(Step)
  <1>1. \E i \in DOMAIN list : list[i] = s
    BY DEF ToSet
  <1> QED
    BY <1>1, RemoveAtIsList DEF Without

\* There is a number left for a new step.
LEMMA NewStepIsStep ==
  ASSUME server \in Server, Cardinality(server.used) < MaxStep
  PROVE  NewStep \in Step
  <1>1. server.used \in SUBSET Step
    BY DEF Server
  <1>2. Cardinality(Step) = MaxStep /\ MaxStep \in Nat
    BY DashboardAssumption, FS_Interval DEF DashboardAssumption, Step
  <1>3. server.used # Step
    BY <1>2
  <1> QED
    BY <1>1, <1>3 DEF NewStep

----------------------------------------------------------------------------
(* The server *)

\* No answer is taken for one that is still to come.
LEMMA ValueIsShown ==
  ASSUME server \in Server, NEW q \in Query
  PROVE  Value(q) \in Shown(q)
  <1>1. CASE q = "run"
    <2>1. server.runs \in Seq(RunStatus)
      BY DEF Server
    <2>2. CASE server.runs = <<>>
      BY <1>1, <2>2 DEF Value, Shown, ListLatest
    <2>3. CASE server.runs # <<>>
      <3>1. Len(server.runs) \in DOMAIN server.runs /\ Len(server.runs) \in Nat
        BY <2>1, <2>3
      <3>2. server.runs[Len(server.runs)] \in RunStatus
        BY <2>1, <3>1
      <3> QED
        BY <1>1, <2>3, <3>1, <3>2 DEF Value, Shown, ListLatest, GetRun
    <2> QED
      BY <2>2, <2>3
  <1> QED
    BY <1>1 DEF Value, Shown, GetWorkflow, GetTrigger, ListActions, Server, Switch

LEMMA ShownIsKnown ==
  ASSUME NEW q \in Query \ {"run"}
  PROVE  Unknown \notin Shown(q)
  BY DashboardAssumption DEF DashboardAssumption, Shown, Switch

LEMMA OneRunChanged ==
  ASSUME NEW runs \in Seq(RunStatus), NEW n, NEW to \in RunStatus
  PROVE  [runs EXCEPT ![n] = to] \in Seq(RunStatus)
  <1>1. CASE n \in 1..Len(runs)
    BY <1>1, ExceptSeq
  <1>2. CASE n \notin 1..Len(runs)
    <2>1. [runs EXCEPT ![n] = to] = runs
      BY <1>2
    <2> QED
      BY <2>1
  <1> QED
    BY <1>1, <1>2

\* A request that the API accepts changes the row it is about, and no other.
LEMMA AppliedIsServer ==
  ASSUME server \in Server, NEW m, m.kind \in Kinds, m.arg \in Carried(m.kind), Accepts(m)
  PROVE  /\ Applied(m) \in Server
         /\ m.kind # "save" => Applied(m).trigger = server.trigger
         /\ m.kind = "save" => Applied(m).trigger = m.arg
         /\ Touched(m.kind) # "workflow" => Applied(m).status = server.status
         /\ Touched(m.kind) # "actions" => Applied(m).steps = server.steps
  <1>1. CASE m.kind = "reorder"
    BY <1>1 DEF Applied, Carried, Server, Touched
  <1>2. CASE m.kind = "addStep"
    <2>1. NewStep \in Step
      BY <1>2, NewStepIsStep DEF Accepts
    <2>2. Applied(m) = [server EXCEPT !.steps = Append(@, NewStep), !.used = @ \cup {NewStep}]
      BY <1>2 DEF Applied
    <2>3. Append(server.steps, NewStep) \in Seq(Step)
      BY <2>1 DEF Server
    <2>4. server.used \cup {NewStep} \in SUBSET Step
      BY <2>1 DEF Server
    <2>5. Applied(m) \in Server
      BY <2>2, <2>3, <2>4 DEF Server
    <2> QED
      BY <1>2, <2>2, <2>5 DEF Touched, Server
  <1>3. CASE m.kind = "removeStep"
    <2>1. Without(server.steps, m.arg) \in Seq(Step)
      BY <1>3, WithoutIsList DEF Accepts, Server
    <2> QED
      BY <1>3, <2>1 DEF Applied, Server, Touched
  <1>4. CASE m.kind = "save"
    BY <1>4 DEF Applied, Carried, Server, Touched
  <1>5. CASE m.kind = "setOn"
    BY <1>5 DEF Applied, Carried, Server, Touched
  <1>6. CASE m.kind = "fire"
    <2>1. Applied(m) = [server EXCEPT !.events = @ + 1]
      BY <1>6 DEF Applied
    <2> QED
      BY <1>6, <2>1 DEF Server, Touched
  <1>7. CASE m.kind = "cancel"
    <2>1. server.runs \in Seq(RunStatus) /\ "CANCELLED" \in RunStatus
      BY DEF Server, RunStatus
    <2>2. [server.runs EXCEPT ![m.arg] = "CANCELLED"] \in Seq(RunStatus)
      BY <2>1, OneRunChanged
    <2>3. Applied(m) = [server EXCEPT !.runs = [server.runs EXCEPT ![m.arg] = "CANCELLED"]]
      BY <1>7 DEF Applied
    <2> QED
      BY <1>7, <2>2, <2>3 DEF Server, Touched
  <1> QED
    BY <1>1, <1>2, <1>3, <1>4, <1>5, <1>6, <1>7

----------------------------------------------------------------------------
(* Mutations *)

Underway(c) == click[c] \notin {New, Over}
Answers     == {"done", "refused", "failed"}

LEMMA StartedIsUnderway ==
  ASSUME NEW kind, NEW r \in Started(kind)
  PROVE  r \notin {New, Over} /\ r.kind = kind /\ r.at \in Answers \cup {"sent"}
  BY DEF Started, New, Over, Answers

LEMMA UnderwayIsStarted ==
  ASSUME PageTypeOK, NEW c \in Click
  PROVE  /\ Underway(c) => click[c].kind \in Kinds /\ click[c] \in Started(click[c].kind)
         /\ click[c].at \in Answers \cup {"sent"} => Underway(c)
  <1>1. CASE Underway(c)
    <2>1. PICK kind \in Kinds : click[c] \in Started(kind)
      BY <1>1 DEF PageTypeOK, Underway
    <2>2. click[c].kind = kind
      BY <2>1, StartedIsUnderway
    <2> QED
      BY <1>1, <2>1, <2>2
  <1>2. CASE ~Underway(c)
    BY <1>2 DEF Underway, Answers, New, Over
  <1> QED
    BY <1>1, <1>2

\* The ways of a mutation in one step.
Marked(c)  == Underway(c) /\ click'[c] = [click[c] EXCEPT !.unsettled = TRUE]
Moves(c)   == Underway(c) /\ \E at \in Answers : click'[c] = [click[c] EXCEPT !.at = at]
Ends(c)    == Underway(c) /\ click'[c] = Over
Pressed(c) ==
  /\ click[c] = New
  /\ \E kind \in Kinds : click'[c] \in Started(kind) /\ (Touched(kind) # "run" => data[Touched(kind)] # Unknown)

LEMMA ChangedIsStarted ==
  ASSUME NEW kind, NEW r \in Started(kind)
  PROVE  /\ [r EXCEPT !.unsettled = TRUE] \in Started(kind)
         /\ \A at \in Answers : [r EXCEPT !.at = at] \in Started(kind)
  BY DEF Started, Answers

LEMMA SetAt ==
  ASSUME PageTypeOK, NEW c \in Click, Underway(c), NEW at \in Answers,
         click' = [click EXCEPT ![c].at = at]
  PROVE  /\ click'[c] \in Started(click[c].kind) /\ click'[c] \notin {New, Over}
         /\ click'[c].at = at /\ click'[c].kind = click[c].kind
         /\ \A d \in Click \ {c} : click'[d] = click[d]
  <1>1. click[c] \in Started(click[c].kind)
    BY UnderwayIsStarted
  <1> DEFINE new == [click[c] EXCEPT !.at = at]
  <1>2. click = [d \in Click |-> click[d]] /\ click' = [click EXCEPT ![c] = new]
    BY DEF PageTypeOK
  <1>3. new \in Started(click[c].kind)
    BY <1>1, ChangedIsStarted
  <1>4. new.at = at
    BY <1>1 DEF Started
  <1> HIDE DEF new
  <1>5. click'[c] = new /\ \A d \in Click \ {c} : click'[d] = click[d]
    BY <1>2
  <1> QED
    BY <1>3, <1>4, <1>5, StartedIsUnderway

LEMMA OverlappedClicks ==
  ASSUME NEW kind
  PROVE  /\ Overlapped(kind) = [d \in Click |-> Overlapped(kind)[d]]
         /\ \A d \in Click :
              Overlapped(kind)[d] = IF kind = "save" /\ Underway(d) /\ click[d].kind = "save"
                                    THEN [click[d] EXCEPT !.unsettled = TRUE] ELSE click[d]
  BY DEF Overlapped, Pending, Underway

LEMMA MutateStep ==
  ASSUME PageTypeOK, NEW c \in Click, NEW kind \in Kinds, NEW arg \in Carried(kind),
         NEW asked \in BOOLEAN, Mutate(c, kind, arg, asked),
         kind = "reorder" => data["actions"] \in Seq(Step)
  PROVE  /\ click[c] = New /\ click'[c] \in Started(kind)
         /\ click'[c].at = "sent" /\ click'[c].arg = arg /\ click'[c].asked = asked
         /\ click'[c].unsettled = (kind = "save" /\ ~Settled("trigger"))
         /\ \A d \in Click \ {c} : click'[d] = Overlapped(kind)[d]
         /\ click' = [d \in Click |-> click'[d]]
  <1> DEFINE new == [at |-> "sent", kind |-> kind, arg |-> arg, asked |-> asked,
                     unsettled |-> kind = "save" /\ ~Settled("trigger"),
                     previous |-> IF kind = "reorder" THEN data["actions"] ELSE Unknown]
  <1>1. click[c] = New /\ click' = [Overlapped(kind) EXCEPT ![c] = new]
    BY DEF Mutate
  <1>2. (kind = "save" /\ ~Settled("trigger")) \in BOOLEAN
    OBVIOUS
  <1>3. new \in Started(kind)
    BY <1>2 DEF Started
  <1> HIDE DEF new
  <1>4. click'[c] = new /\ \A d \in Click \ {c} : click'[d] = Overlapped(kind)[d]
    BY <1>1, OverlappedClicks
  <1>5. click' = [d \in Click |-> click'[d]]
    BY <1>1, OverlappedClicks
  <1>6. new.at = "sent" /\ new.arg = arg /\ new.asked = asked
    BY DEF new
  <1>7. new.unsettled = (kind = "save" /\ ~Settled("trigger"))
    BY DEF new
  <1> QED
    BY <1>1, <1>3, <1>4, <1>5, <1>6, <1>7

\* What is common to everything that can be pressed.
Mutates(c, kind, arg, asked) ==
  /\ Mutate(c, kind, arg, asked)
  /\ Touched(kind) # "run" => data[Touched(kind)] # Unknown
  /\ kind = "save" => asked = AsksBefore(arg)
  /\ kind # "reorder" => UNCHANGED <<data, fetch>>
  /\ kind = "reorder" =>
       /\ fetch' = [fetch EXCEPT !["actions"] = Idle]
       /\ \E list \in Seq(Step) : data' = [data EXCEPT !["actions"] = list]

LEMMA PressIsMutation ==
  ASSUME PageTypeOK, NEW c \in Click, Press(c)
  PROVE  \E kind \in Kinds : \E arg \in Carried(kind), asked \in BOOLEAN : Mutates(c, kind, arg, asked)
  <1>0. data["actions"] # Unknown => data["actions"] \in Seq(Step)
    BY DEF PageTypeOK, Shown
  <1>1. CASE Reorder(c)
    <2>1. data["actions"] \in Seq(Step) /\ data["actions"] # Unknown
      BY <1>0, <1>1 DEF Reorder
    <2>2. PICK d \in Drops(data["actions"]) :
            /\ Mutate(c, "reorder", Moved(data["actions"], d[1], d[2]), FALSE)
            /\ data' = [data EXCEPT !["actions"] = Moved(data["actions"], d[1], d[2])]
      BY <1>1 DEF Reorder
    <2>3. Moved(data["actions"], d[1], d[2]) \in Seq(Step)
      BY <2>1, MovedIsList
    <2>4. Mutates(c, "reorder", Moved(data["actions"], d[1], d[2]), FALSE)
      BY <1>1, <2>1, <2>2, <2>3 DEF Reorder, Mutates, Touched
    <2> QED
      BY <2>3, <2>4 DEF Carried
  <1>2. CASE AddStep(c)
    <2>1. Mutates(c, "addStep", Absent, FALSE)
      BY <1>2 DEF AddStep, Mutates, Touched
    <2>2. Absent \in Carried("addStep")
      BY DEF Carried
    <2> QED
      BY <2>1, <2>2
  <1>3. CASE RemoveStep(c)
    <2>1. PICK s \in ToSet(data["actions"]) : Mutate(c, "removeStep", s, FALSE)
      BY <1>3 DEF RemoveStep
    <2>2. s \in Step
      BY <1>0, <1>3 DEF RemoveStep, ToSet
    <2>3. Mutates(c, "removeStep", s, FALSE)
      BY <1>3, <2>1 DEF RemoveStep, Mutates, Touched
    <2> QED
      BY <2>2, <2>3 DEF Carried
  <1>4. CASE Save(c)
    <2>1. PICK type \in Offered : Mutate(c, "save", type, AsksBefore(type))
      BY <1>4 DEF Save
    <2>2. Mutates(c, "save", type, AsksBefore(type)) /\ AsksBefore(type) \in BOOLEAN
      BY <1>4, <2>1 DEF Save, Mutates, Touched, AsksBefore
    <2>3. type \in Carried("save")
      BY DEF Offered, Carried
    <2> QED
      BY <2>2, <2>3
  <1>5. CASE SetOn(c)
    <2> DEFINE to == IF data["workflow"] = "ACTIVE" THEN "PAUSED" ELSE "ACTIVE"
    <2>1. Mutates(c, "setOn", to, FALSE)
      BY <1>5 DEF SetOn, Mutates, Touched
    <2>2. to \in Carried("setOn")
      BY DEF Carried, Switch
    <2> QED
      BY <2>1, <2>2
  <1>6. CASE TurnOn(c)
    <2>1. data["workflow"] # Unknown
      BY <1>6 DEF TurnOn, NextItem
    <2>2. Mutates(c, "setOn", "ACTIVE", FALSE)
      BY <1>6, <2>1 DEF TurnOn, Mutates, Touched
    <2>3. "ACTIVE" \in Carried("setOn")
      BY DEF Carried, Switch
    <2> QED
      BY <2>2, <2>3
  <1>7. CASE Fire(c)
    <2>1. Mutates(c, "fire", Absent, FALSE)
      BY <1>7 DEF Fire, Mutates, Touched
    <2>2. Absent \in Carried("fire")
      BY DEF Carried
    <2> QED
      BY <2>1, <2>2
  <1>8. CASE Cancel(c)
    <2>1. data["run"] \in Shown("run")
      BY <1>8 DEF Cancel, PageTypeOK
    <2>2. data["run"].n \in Carried("cancel")
      BY <2>1 DEF Shown, Carried
    <2>3. Mutates(c, "cancel", data["run"].n, FALSE)
      BY <1>8 DEF Cancel, Mutates, Touched
    <2> QED
      BY <2>2, <2>3
  <1> QED
    BY <1>1, <1>2, <1>3, <1>4, <1>5, <1>6, <1>7, <1>8 DEF Press

----------------------------------------------------------------------------
(* What a step may do to the mutations, the server and the cache *)

LEMMA EditIsRequest ==
  ASSUME server \in Server, EditElsewhere
  PROVE  \E m : /\ m.kind \in Kinds /\ m.arg \in Carried(m.kind) /\ Accepts(m)
                /\ server' = Applied(m)
                /\ behind' = behind \cup {Touched(m.kind)}
                /\ click' = Overlapped(m.kind)
  <1> DEFINE Requests == {[kind |-> "addStep", arg |-> Absent]}
                 \cup [kind : {"removeStep"}, arg : ToSet(server.steps)]
                 \cup [kind : {"save"}, arg : TriggerTypes]
                 \cup [kind : {"setOn"}, arg : {"ACTIVE", "PAUSED"}]
  <1>1. PICK m \in Requests :
          /\ Accepts(m) /\ server' = Applied(m)
          /\ behind' = behind \cup {Touched(m.kind)}
          /\ click' = Overlapped(m.kind)
    BY DEF EditElsewhere
  <1>2. ToSet(server.steps) \subseteq Step
    BY DEF Server, ToSet
  <1>3. m.kind \in Kinds /\ m.arg \in Carried(m.kind)
    <2>1. CASE m = [kind |-> "addStep", arg |-> Absent]
      BY <2>1 DEF Carried
    <2>2. CASE m \in [kind : {"removeStep"}, arg : ToSet(server.steps)]
      BY <1>2, <2>2 DEF Carried
    <2>3. CASE m \in [kind : {"save"}, arg : TriggerTypes]
      BY <2>3 DEF Carried
    <2>4. CASE m \in [kind : {"setOn"}, arg : {"ACTIVE", "PAUSED"}]
      BY <2>4 DEF Carried, Switch
    <2> QED
      BY <2>1, <2>2, <2>3, <2>4
  <1> QED
    BY <1>1, <1>3

\* When nothing is pressed.
LEMMA OthersGoOn ==
  ASSUME PageTypeOK, [PageNext]_pageVars, ~\E c \in Click : Press(c)
  PROVE  /\ click' = [c \in Click |-> click'[c]]
         /\ \A c \in Click : click'[c] = click[c] \/ Marked(c) \/ Moves(c) \/ Ends(c)
  <1>0. click = [c \in Click |-> click[c]]
    BY DEF PageTypeOK
  <1>1. CASE click' = click
    BY <1>0, <1>1
  <1>2. ASSUME NEW c \in Click, Apply(c) \/ RequestFails(c)
        PROVE  Moves(c) /\ \E at \in Answers : click' = [click EXCEPT ![c].at = at]
    <2>1. click[c].at \in {"sent", "done"} /\ \E at \in Answers : click' = [click EXCEPT ![c].at = at]
      BY <1>2 DEF Apply, RequestFails, Answers
    <2>2. Underway(c)
      BY <2>1, UnderwayIsStarted DEF Answers
    <2> QED
      BY <1>0, <2>1, <2>2 DEF Moves
  <1>3. ASSUME NEW c \in Click, Callback(c)
        PROVE  Ends(c) /\ click' = [click EXCEPT ![c] = Over]
    <2>1. click[c].at \in Answers /\ click' = [click EXCEPT ![c] = Over]
      BY <1>3 DEF Callback, Succeed, ReorderFails, CancelRefused, Fail, Answers
    <2> QED
      BY <1>0, <2>1, UnderwayIsStarted DEF Ends
  <1>4. CASE EditElsewhere
    <2>1. PICK m : click' = Overlapped(m.kind)
      BY <1>4, EditIsRequest DEF PageTypeOK
    <2> QED
      BY <2>1, OverlappedClicks DEF Marked
  <1>5. CASE \/ \E q \in Query : Answer(q) \/ Arrive(q) \/ FetchFails(q) \/ Refetch(q)
             \/ Poll \/ Admit \/ Refuse \/ \E n \in DOMAIN server.runs : RunStep(n)
    BY <1>1, <1>5 DEF Answer, Arrive, FetchFails, Refetch, Poll, Admit, Refuse, RunStep
  <1>6. CASE \E c \in Click : Apply(c) \/ RequestFails(c)
    BY <1>0, <1>2, <1>6
  <1>7. CASE \E c \in Click : Callback(c)
    BY <1>0, <1>3, <1>7
  <1> QED
    BY <1>1, <1>4, <1>5, <1>6, <1>7 DEF PageNext, pageVars

LEMMA PressStep ==
  ASSUME PageTypeOK, NEW c \in Click, Press(c)
  PROVE  \E kind \in Kinds : \E arg \in Carried(kind), asked \in BOOLEAN :
           /\ Mutates(c, kind, arg, asked)
           /\ click[c] = New /\ click'[c] \in Started(kind)
           /\ click'[c].at = "sent" /\ click'[c].arg = arg /\ click'[c].asked = asked
           /\ click'[c].unsettled = (kind = "save" /\ ~Settled("trigger"))
           /\ \A d \in Click \ {c} : click'[d] = Overlapped(kind)[d]
           /\ click' = [d \in Click |-> click'[d]]
  <1>1. PICK kind \in Kinds : \E arg \in Carried(kind), asked \in BOOLEAN : Mutates(c, kind, arg, asked)
    BY PressIsMutation
  <1>2. PICK arg \in Carried(kind), asked \in BOOLEAN : Mutates(c, kind, arg, asked)
    BY <1>1
  <1>3. kind = "reorder" => data["actions"] \in Seq(Step)
    BY <1>2 DEF Mutates, Touched, PageTypeOK, Shown
  <1>4. Mutate(c, kind, arg, asked)
    BY <1>2 DEF Mutates
  <1> QED
    BY <1>2, <1>3, <1>4, MutateStep

LEMMA ClicksGoOn ==
  ASSUME PageTypeOK, [PageNext]_pageVars
  PROVE  /\ click' = [c \in Click |-> click'[c]]
         /\ \A c \in Click : click'[c] = click[c] \/ Marked(c) \/ Moves(c) \/ Ends(c) \/ Pressed(c)
  <1>1. ASSUME NEW c \in Click, Press(c)
        PROVE  /\ click' = [d \in Click |-> click'[d]]
               /\ \A d \in Click : click'[d] = click[d] \/ Marked(d) \/ Pressed(d)
    <2>1. PICK kind \in Kinds :
            /\ Touched(kind) # "run" => data[Touched(kind)] # Unknown
            /\ click[c] = New /\ click'[c] \in Started(kind)
            /\ \A d \in Click \ {c} : click'[d] = Overlapped(kind)[d]
            /\ click' = [d \in Click |-> click'[d]]
      BY <1>1, PressStep DEF Mutates
    <2>2. Pressed(c)
      BY <2>1 DEF Pressed
    <2> QED
      BY <2>1, <2>2, OverlappedClicks DEF Marked
  <1> QED
    BY <1>1, OthersGoOn

\* The run engine.
Engine == Admit \/ Refuse \/ \E n \in DOMAIN server.runs : RunStep(n)

LEMMA EngineStep ==
  ASSUME server \in Server, Engine
  PROVE  /\ server' \in Server
         /\ server'.status = server.status /\ server'.trigger = server.trigger /\ server'.steps = server.steps
  <1>0. server.runs \in Seq(RunStatus) /\ server.events \in Nat
    BY DEF Server
  <1>1. CASE Admit
    <2>1. Append(server.runs, "PENDING") \in Seq(RunStatus)
      BY <1>0 DEF RunStatus
    <2>2. server.events - 1 \in Nat
      BY <1>0, <1>1 DEF Admit
    <2>3. server' = [server EXCEPT !.events = @ - 1, !.runs = Append(@, "PENDING")]
      BY <1>1 DEF Admit
    <2> QED
      BY <2>1, <2>2, <2>3 DEF Server
  <1>2. CASE Refuse
    <2>1. server.events - 1 \in Nat
      BY <1>0, <1>2 DEF Refuse
    <2>2. server' = [server EXCEPT !.events = @ - 1]
      BY <1>2 DEF Refuse
    <2> QED
      BY <2>1, <2>2 DEF Server
  <1>3. CASE \E n \in DOMAIN server.runs : RunStep(n)
    <2>1. PICK n \in DOMAIN server.runs, to \in RunStatus : server' = [server EXCEPT !.runs[n] = to]
      BY <1>3 DEF RunStep, RunStatus
    <2>2. [server.runs EXCEPT ![n] = to] \in Seq(RunStatus)
      BY <1>0, OneRunChanged
    <2>3. server' = [server EXCEPT !.runs = [server.runs EXCEPT ![n] = to]]
      BY <2>1
    <2> QED
      BY <2>2, <2>3 DEF Server
  <1> QED
    BY <1>1, <1>2, <1>3 DEF Engine

LEMMA ApplyStep ==
  ASSUME PageTypeOK, NEW c \in Click, Apply(c)
  PROVE  /\ Underway(c) /\ click[c] \in Started(click[c].kind)
         /\ click[c].kind \in Kinds /\ click[c].arg \in Carried(click[c].kind)
         /\ \/ server' = server /\ click' = [click EXCEPT ![c].at = "refused"]
            \/ /\ Accepts(click[c]) /\ server' = Applied(click[c])
               /\ click' = [click EXCEPT ![c].at = "done"]
  <1>1. Underway(c)
    BY UnderwayIsStarted DEF Apply
  <1>2. click[c].kind \in Kinds /\ click[c] \in Started(click[c].kind)
    BY <1>1, UnderwayIsStarted
  <1>3. click[c].arg \in Carried(click[c].kind)
    BY <1>2 DEF Started
  <1> QED
    BY <1>1, <1>2, <1>3 DEF Apply

LEMMA ServerStep ==
  ASSUME PageTypeOK, [PageNext]_pageVars
  PROVE  server' \in Server
  <1>0. server \in Server
    BY DEF PageTypeOK
  <1>1. ASSUME NEW c \in Click, Apply(c) PROVE server' \in Server
    BY <1>0, <1>1, ApplyStep, AppliedIsServer
  <1>2. CASE Engine
    BY <1>0, <1>2, EngineStep
  <1>3. CASE EditElsewhere
    BY <1>0, <1>3, EditIsRequest, AppliedIsServer
  <1>4. ASSUME NEW c \in Click, Press(c) \/ RequestFails(c) \/ Callback(c) PROVE server' = server
    <2>1. CASE Press(c)
      BY <2>1, PressIsMutation DEF Mutates, Mutate
    <2> QED
      BY <1>4, <2>1 DEF RequestFails, Callback, Succeed, ReorderFails, CancelRefused, Fail
  <1>5. CASE (\E q \in Query : Answer(q) \/ Arrive(q) \/ FetchFails(q) \/ Refetch(q)) \/ Poll
    BY <1>0, <1>5 DEF Answer, Arrive, FetchFails, Refetch, Poll
  <1>6. CASE UNCHANGED pageVars
    BY <1>0, <1>6 DEF pageVars
  <1> QED
    BY <1>0, <1>1, <1>2, <1>3, <1>4, <1>5, <1>6 DEF PageNext, Engine

LEMMA CacheStep ==
  ASSUME PageTypeOK, [PageNext]_pageVars
  PROVE  /\ data' = [q \in Query |-> data'[q]] /\ fetch' = [q \in Query |-> fetch'[q]]
         /\ \A q \in Query :
              /\ data'[q] = data[q] \/ data'[q] \in Shown(q)
              /\ \/ fetch'[q] = fetch[q] \/ fetch'[q] \in {Idle, Sent}
                 \/ fetch'[q] \in [at : {"answered"}, value : Shown(q)]
  <1>0. data = [q \in Query |-> data[q]] /\ fetch = [q \in Query |-> fetch[q]]
    BY DEF PageTypeOK
  <1>1. CASE UNCHANGED <<data, fetch>>
    BY <1>0, <1>1
  <1>2. ASSUME NEW q \in Query, Answer(q)
        PROVE  data' = data /\ fetch' = [fetch EXCEPT ![q] = [at |-> "answered", value |-> Value(q)]]
    BY <1>2 DEF Answer
  <1>3. ASSUME NEW q \in Query, Arrive(q)
        PROVE  /\ data' = [data EXCEPT ![q] = fetch[q].value] /\ fetch[q].value \in Shown(q)
               /\ fetch' = [fetch EXCEPT ![q] = Idle]
    BY <1>3 DEF Arrive, PageTypeOK, Idle, Sent
  <1>4. ASSUME NEW q \in Query, FetchFails(q) \/ Refetch(q)
        PROVE  data' = data /\ (fetch' = [fetch EXCEPT ![q] = Idle] \/ fetch' = [fetch EXCEPT ![q] = Sent])
    BY <1>4 DEF FetchFails, Refetch
  <1>5. CASE Poll
    BY <1>0, <1>5 DEF Poll
  <1>6. ASSUME NEW c \in Click, Press(c)
        PROVE  \/ UNCHANGED <<data, fetch>>
               \/ /\ fetch' = [fetch EXCEPT !["actions"] = Idle]
                  /\ \E list \in Seq(Step) : data' = [data EXCEPT !["actions"] = list]
    BY <1>6, PressIsMutation DEF Mutates
  <1>7. ASSUME NEW c \in Click, Succeed(c) \/ CancelRefused(c)
        PROVE  data' = data /\ \E q \in Query : fetch' = fetch \/ fetch' = [fetch EXCEPT ![q] = Sent]
    BY <1>7 DEF Succeed, CancelRefused, Invalidate, Invalidated, Touched
  <1>8. ASSUME NEW c \in Click, ReorderFails(c)
        PROVE  /\ \E list \in Seq(Step) : data' = [data EXCEPT !["actions"] = list]
               /\ fetch' = [fetch EXCEPT !["actions"] = Sent]
    <2>1. click[c] \in Started("reorder")
      BY <1>8, UnderwayIsStarted DEF ReorderFails, Answers
    <2>2. click[c].previous \in Seq(Step)
      BY <2>1 DEF Started
    <2>3. click[c].previous # Unknown
      BY <2>2, DashboardAssumption DEF DashboardAssumption
    <2> QED
      BY <1>8, <2>2, <2>3 DEF ReorderFails, Invalidated
  <1>9. ASSUME NEW c \in Click, Apply(c) \/ RequestFails(c) \/ Fail(c) PROVE UNCHANGED <<data, fetch>>
    BY <1>9 DEF Apply, RequestFails, Fail
  <1>10. CASE Engine \/ EditElsewhere \/ UNCHANGED pageVars
    BY <1>1, <1>10 DEF Engine, Admit, Refuse, RunStep, EditElsewhere, pageVars
  <1>11. CASE \E q \in Query : Answer(q)
    <2>1. \A q \in Query : Value(q) \in Shown(q)
      BY ValueIsShown DEF PageTypeOK
    <2> QED
      BY <1>0, <1>2, <1>11, <2>1
  <1>12. CASE \E q \in Query : Arrive(q)
    BY <1>0, <1>3, <1>12
  <1>13. CASE \E q \in Query : FetchFails(q) \/ Refetch(q)
    BY <1>0, <1>4, <1>13
  <1>14. ASSUME NEW list \in Seq(Step), data' = [data EXCEPT !["actions"] = list],
                fetch' = [fetch EXCEPT !["actions"] = Idle] \/ fetch' = [fetch EXCEPT !["actions"] = Sent]
         PROVE  /\ data' = [q \in Query |-> data'[q]] /\ fetch' = [q \in Query |-> fetch'[q]]
                /\ \A q \in Query : /\ data'[q] = data[q] \/ data'[q] \in Shown(q)
                                    /\ fetch'[q] = fetch[q] \/ fetch'[q] \in {Idle, Sent}
    <2>1. Shown("actions") = Seq(Step)
      BY DEF Shown
    <2> QED
      BY <1>0, <1>14, <2>1
  <1>15. CASE \E c \in Click : Press(c)
    BY <1>1, <1>6, <1>14, <1>15
  <1>16. CASE \E c \in Click : Succeed(c) \/ CancelRefused(c)
    BY <1>0, <1>7, <1>16
  <1>17. CASE \E c \in Click : ReorderFails(c)
    BY <1>8, <1>14, <1>17
  <1>18. CASE \E c \in Click : Apply(c) \/ RequestFails(c) \/ Fail(c)
    BY <1>1, <1>9, <1>18
  <1> QED
    BY <1>5, <1>10, <1>11, <1>12, <1>13, <1>15, <1>16, <1>17, <1>18 DEF PageNext, Engine, Callback

LEMMA PageTypeStep ==
  ASSUME PageTypeOK, [PageNext]_pageVars
  PROVE  PageTypeOK'
  <1>1. menu' = menu
    <2>1. ASSUME NEW c \in Click, Press(c) PROVE menu' = menu
      BY <2>1, PressIsMutation DEF Mutates, Mutate
    <2> QED
      BY <2>1 DEF PageNext, pageVars, Answer, Arrive, FetchFails, Refetch, Poll, Apply, RequestFails,
                  Callback, Succeed, ReorderFails, CancelRefused, Fail, Admit, Refuse, RunStep, EditElsewhere
  <1>2. \A c \in Click : click'[c] \in {New, Over} \/ \E kind \in Kinds : click'[c] \in Started(kind)
    <2> SUFFICES ASSUME NEW c \in Click
                 PROVE  click'[c] \in {New, Over} \/ \E kind \in Kinds : click'[c] \in Started(kind)
      OBVIOUS
    <2>1. Underway(c) => click[c].kind \in Kinds /\ click[c] \in Started(click[c].kind)
      BY UnderwayIsStarted
    <2>2. CASE click'[c] = click[c]
      BY <2>2 DEF PageTypeOK
    <2>3. CASE Marked(c)
      BY <2>1, <2>3, ChangedIsStarted DEF Marked
    <2>4. CASE Moves(c)
      <3>1. PICK at \in Answers : click'[c] = [click[c] EXCEPT !.at = at]
        BY <2>4 DEF Moves
      <3>2. click[c].kind \in Kinds /\ click[c] \in Started(click[c].kind)
        BY <2>1, <2>4 DEF Moves
      <3>3. [click[c] EXCEPT !.at = at] \in Started(click[c].kind)
        BY <3>2, ChangedIsStarted
      <3> QED
        BY <3>1, <3>2, <3>3
    <2>5. CASE Ends(c)
      BY <2>5 DEF Ends
    <2>6. CASE Pressed(c)
      BY <2>6 DEF Pressed
    <2> QED
      BY <2>2, <2>3, <2>4, <2>5, <2>6, ClicksGoOn
  <1>3. \A q \in Query : data'[q] = Unknown \/ data'[q] \in Shown(q)
    BY CacheStep DEF PageTypeOK
  <1>4. \A q \in Query : fetch'[q] \in {Idle, Sent} \/ fetch'[q] \in [at : {"answered"}, value : Shown(q)]
    BY CacheStep DEF PageTypeOK
  <1>5. /\ data' = [q \in Query |-> data'[q]] /\ fetch' = [q \in Query |-> fetch'[q]]
        /\ click' = [c \in Click |-> click'[c]]
    BY ClicksGoOn, CacheStep
  <1>6. server' \in Server /\ menu' \subseteq Kinds
    BY <1>1, ServerStep DEF PageTypeOK
  <1> QED
    BY <1>2, <1>3, <1>4, <1>5, <1>6, Zenon DEF PageTypeOK

----------------------------------------------------------------------------
(* The other parts of the invariant, step by step *)

\* What has been shown is never taken back to unknown.
LEMMA KnownStays ==
  ASSUME PageTypeOK, [PageNext]_pageVars, NEW q \in Query \ {"run"}, data[q] # Unknown
  PROVE  data'[q] # Unknown
  BY CacheStep, ShownIsKnown

LEMMA GroundedStep ==
  ASSUME PageTypeOK, Grounded, [PageNext]_pageVars
  PROVE  Grounded'
  <1> SUFFICES ASSUME NEW c \in Click, click'[c] \notin {New, Over}, Touched(click'[c].kind) # "run"
               PROVE  data'[Touched(click'[c].kind)] # Unknown
    BY DEF Grounded
  <1>1. ASSUME NEW kind, Touched(kind) # "run", data[Touched(kind)] # Unknown
        PROVE  data'[Touched(kind)] # Unknown
    <2>1. Touched(kind) \in Query \ {"run"}
      BY <1>1 DEF Touched
    <2> QED
      BY <1>1, <2>1, KnownStays
  <1>2. CASE Underway(c) /\ click'[c].kind = click[c].kind
    BY <1>1, <1>2 DEF Grounded, Underway
  <1>3. CASE Pressed(c)
    <2>1. PICK kind \in Kinds : /\ click'[c] \in Started(kind)
                                /\ Touched(kind) # "run" => data[Touched(kind)] # Unknown
      BY <1>3 DEF Pressed
    <2>2. click'[c].kind = kind
      BY <2>1, StartedIsUnderway
    <2> QED
      BY <1>1, <2>1, <2>2
  <1>4. CASE Underway(c) /\ (Marked(c) \/ Moves(c))
    <2>1. click[c] \in Started(click[c].kind)
      BY <1>4, UnderwayIsStarted
    <2>2. click'[c].kind = click[c].kind
      <3>1. CASE Marked(c)
        BY <2>1, <3>1 DEF Marked, Started
      <3>2. CASE Moves(c)
        BY <2>1, <3>2 DEF Moves, Started
      <3> QED
        BY <1>4, <3>1, <3>2
    <2> QED
      BY <1>2, <1>4, <2>2
  <1>5. CASE click'[c] = click[c]
    BY <1>2, <1>5 DEF Underway
  <1>6. ~Ends(c)
    BY DEF Ends
  <1> QED
    BY <1>3, <1>4, <1>5, <1>6, ClicksGoOn DEF Marked, Moves

LEMMA OneSidedStays ==
  ASSUME PageTypeOK, NEW c \in Click, NEW q, OneSided(c, q), click'[c] = click[c] \/ Marked(c)
  PROVE  OneSided(c, q)'
  <1>1. Underway(c) /\ click[c] \in Started(click[c].kind)
    BY UnderwayIsStarted DEF OneSided, Underway
  <1>2. CASE click'[c] = click[c]
    BY <1>2 DEF OneSided
  <1>3. CASE Marked(c)
    <2>1. /\ click'[c] \in Started(click[c].kind)
          /\ click'[c].at = click[c].at /\ click'[c].kind = click[c].kind
      BY <1>1, <1>3, ChangedIsStarted DEF Marked, Started
    <2>2. click'[c] \notin {New, Over}
      BY <2>1, StartedIsUnderway
    <2> QED
      BY <2>1, <2>2 DEF OneSided
  <1> QED
    BY <1>2, <1>3

LEMMA ValueKept ==
  ASSUME NEW q \in Query \ {"run"},
         q = "workflow" => server'.status = server.status,
         q = "trigger" => server'.trigger = server.trigger,
         q = "actions" => server'.steps = server.steps
  PROVE  Value(q)' = Value(q)
  BY DEF Value, GetWorkflow, GetTrigger, ListActions

LEMMA AppliedKeepsOthers ==
  ASSUME server \in Server, NEW m, m.kind \in Kinds, m.arg \in Carried(m.kind), Accepts(m),
         server' = Applied(m), NEW q \in Query \ {"run"}, Touched(m.kind) # q
  PROVE  Value(q)' = Value(q)
  <1>1. q = "trigger" => m.kind # "save"
    BY DEF Touched
  <1> QED
    BY <1>1, AppliedIsServer, ValueKept

\* What agrees is left alone, or is asked for again.
LEMMA AgreesStays ==
  ASSUME NEW q \in Query, Agrees(q), Value(q)' = Value(q), data'[q] = data[q],
         fetch'[q] = fetch[q] \/ fetch'[q] = Sent
  PROVE  Agrees(q)'
  BY DEF Agrees, Sent, Idle

LEMMA InStepStep ==
  ASSUME PageTypeOK, InStep, Grounded, [PageNext]_pageVars
  PROVE  InStep'
  <1> SUFFICES ASSUME NEW q \in Query \ {"run"}
               PROVE  Excused(q)' \/ Agrees(q)'
    BY DEF InStep
  <1>0. /\ Excused(q) \/ Agrees(q)
        /\ server \in Server /\ data = [p \in Query |-> data[p]] /\ fetch = [p \in Query |-> fetch[p]]
    BY DEF InStep, PageTypeOK
  <1>1. server' = server => Value(q)' = Value(q)
    BY ValueKept
  <1>2. ASSUME NEW p \in Query, Answer(p) PROVE Excused(q)' \/ Agrees(q)'
    <2>1. /\ fetch' = [fetch EXCEPT ![p] = [at |-> "answered", value |-> Value(p)]]
          /\ behind' = behind \ {p} /\ server' = server /\ data' = data /\ click' = click
      BY <1>2 DEF Answer
    <2>2. CASE p = q
      <3>1. fetch'[q].at = "answered" /\ fetch'[q].value = Value(q) /\ fetch'[q] # Idle
        BY <1>0, <2>1, <2>2 DEF Idle
      <3> QED
        BY <1>1, <2>1, <3>1 DEF Agrees
    <2>3. CASE p # q
      <3>1. fetch'[q] = fetch[q]
        BY <1>0, <2>1, <2>3
      <3>2. Excused(q) => Excused(q)'
        BY <2>1, <2>3 DEF Excused, OneSided
      <3> QED
        BY <1>0, <1>1, <2>1, <3>1, <3>2, AgreesStays
    <2> QED
      BY <2>2, <2>3
  <1>3. ASSUME NEW p \in Query, Arrive(p) PROVE Excused(q)' \/ Agrees(q)'
    <2>1. /\ data' = [data EXCEPT ![p] = fetch[p].value] /\ fetch' = [fetch EXCEPT ![p] = Idle]
          /\ fetch[p].at = "answered" /\ server' = server /\ click' = click /\ behind' = behind
      BY <1>3 DEF Arrive
    <2>2. Excused(q) => Excused(q)'
      BY <2>1 DEF Excused, OneSided
    <2>3. CASE p = q /\ Agrees(q)
      <3>1. data'[q] = Value(q) /\ fetch'[q] = Idle
        BY <1>0, <2>1, <2>3 DEF Agrees
      <3> QED
        BY <1>1, <2>1, <3>1 DEF Agrees, Idle
    <2>4. CASE p # q /\ Agrees(q)
      <3>1. data'[q] = data[q] /\ fetch'[q] = fetch[q]
        BY <1>0, <2>1, <2>4
      <3> QED
        BY <1>1, <2>1, <2>4, <3>1, AgreesStays
    <2> QED
      BY <1>0, <2>2, <2>3, <2>4
  <1>4. ASSUME NEW p \in Query, FetchFails(p) PROVE Excused(q)' \/ Agrees(q)'
    <2>1. /\ fetch' = [fetch EXCEPT ![p] = Idle] /\ behind' = behind \cup {p}
          /\ server' = server /\ data' = data /\ click' = click
      BY <1>4 DEF FetchFails
    <2>2. Excused(q) \/ p = q => Excused(q)'
      BY <2>1 DEF Excused, OneSided
    <2>3. p # q => fetch'[q] = fetch[q]
      BY <1>0, <2>1
    <2> QED
      BY <1>0, <1>1, <2>1, <2>2, <2>3, AgreesStays
  <1>5. ASSUME UNCHANGED <<server, data, click, behind>>, fetch'[q] = fetch[q] \/ fetch'[q] = Sent
        PROVE  Excused(q)' \/ Agrees(q)'
    <2>1. Excused(q) => Excused(q)'
      BY <1>5 DEF Excused, OneSided
    <2> QED
      BY <1>0, <1>1, <1>5, <2>1, AgreesStays
  <1>6. CASE (\E p \in Query : Refetch(p)) \/ Poll \/ UNCHANGED pageVars
    BY <1>0, <1>5, <1>6 DEF Refetch, Poll, pageVars
  <1>7. ASSUME NEW c \in Click, Press(c) PROVE Excused(q)' \/ Agrees(q)'
    <2>1. PICK kind \in Kinds :
            /\ \E arg, asked : Mutates(c, kind, arg, asked)
            /\ click[c] = New /\ click'[c] \in Started(kind)
            /\ \A d \in Click \ {c} : click'[d] = Overlapped(kind)[d]
      BY <1>7, PressStep
    <2>2. PICK arg, asked : Mutates(c, kind, arg, asked)
      BY <2>1
    <2>5. server' = server /\ behind' = behind
      BY <2>2 DEF Mutates, Mutate
    <2>6. ASSUME NEW d \in Click, OneSided(d, q) PROVE Excused(q)'
      <3>1. d # c
        BY <2>1, <2>6 DEF OneSided
      <3>2. click'[d] = click[d] \/ Marked(d)
        BY <2>1, <3>1, OverlappedClicks DEF Marked
      <3> QED
        BY <2>6, <3>2, OneSidedStays DEF Excused
    <2>7. CASE kind = "reorder" /\ q = "actions"
      <3>1. click'[c] \notin {New, Over} /\ click'[c].kind = "reorder"
        BY <2>1, <2>7, StartedIsUnderway
      <3>2. OneSided(c, q)'
        BY <2>7, <3>1 DEF OneSided, Touched
      <3> QED
        BY <3>2 DEF Excused
    <2>8. CASE ~(kind = "reorder" /\ q = "actions")
      <3>1. data'[q] = data[q] /\ fetch'[q] = fetch[q]
        BY <1>0, <2>2, <2>8 DEF Mutates
      <3> QED
        BY <1>0, <1>1, <2>5, <2>6, <3>1, AgreesStays DEF Excused
    <2> QED
      BY <2>7, <2>8
  <1>8. ASSUME NEW c \in Click, Apply(c) PROVE Excused(q)' \/ Agrees(q)'
    <2>1. /\ Underway(c) /\ click[c] \in Started(click[c].kind)
          /\ click[c].kind \in Kinds /\ click[c].arg \in Carried(click[c].kind)
      BY <1>8, ApplyStep
    <2>2. UNCHANGED <<data, fetch, behind>> /\ click[c].at = "sent"
      BY <1>8 DEF Apply
    <2>3. \A d \in Click \ {c} : click'[d] = click[d]
      BY <1>8, <2>1, ApplyStep, SetAt DEF Answers
    <2>5. click'[c] \notin {New, Over} /\ click'[c].kind = click[c].kind
      BY <1>8, <2>1, ApplyStep, SetAt DEF Answers
    <2>6. Excused(q) => Excused(q)'
      <3>1. ASSUME NEW d \in Click, OneSided(d, q) PROVE OneSided(d, q)'
        <4>1. CASE d = c
          BY <2>2, <2>5, <3>1, <4>1 DEF OneSided
        <4>2. CASE d # c
          BY <2>3, <3>1, <4>2, OneSidedStays
        <4> QED
          BY <4>1, <4>2
      <3> QED
        BY <2>2, <3>1 DEF Excused
    <2>7. CASE server' = server
      BY <1>0, <1>1, <2>2, <2>6, <2>7, AgreesStays
    <2>8. CASE /\ Accepts(click[c]) /\ server' = Applied(click[c])
               /\ click' = [click EXCEPT ![c].at = "done"]
      <3>1. CASE Touched(click[c].kind) = q
        <4>1. click'[c].at = "done"
          BY <2>1, <2>8, SetAt DEF Answers
        <4>2. OneSided(c, q)'
          BY <2>5, <3>1, <4>1 DEF OneSided
        <4> QED
          BY <4>2 DEF Excused
      <3>2. CASE Touched(click[c].kind) # q
        <4>1. Value(q)' = Value(q)
          BY <1>0, <2>1, <2>8, <3>2, AppliedKeepsOthers
        <4> QED
          BY <1>0, <2>2, <2>6, <4>1, AgreesStays
      <3> QED
        BY <3>1, <3>2
    <2> QED
      BY <1>8, <2>7, <2>8, ApplyStep
  \* A callback is over with what it is about.
  <1>9. ASSUME NEW c \in Click, click' = [click EXCEPT ![c] = Over], ~OneSided(c, q),
               UNCHANGED behind, Excused(q)
        PROVE  Excused(q)'
    <2>1. \A d \in Click \ {c} : click'[d] = click[d]
      BY <1>9 DEF PageTypeOK
    <2> QED
      BY <1>9, <2>1, OneSidedStays DEF Excused
  <1>10. ASSUME NEW c \in Click, RequestFails(c) PROVE Excused(q)' \/ Agrees(q)'
    <2>1. /\ click[c].at \in {"sent", "done"} /\ click' = [click EXCEPT ![c].at = "failed"]
          /\ UNCHANGED <<server, data, fetch>> /\ behind \subseteq behind'
          /\ click[c].at = "done" /\ click[c].kind # "reorder" => Touched(click[c].kind) \in behind'
      BY <1>10 DEF RequestFails
    <2>2. Underway(c)
      BY <2>1, UnderwayIsStarted DEF Answers
    <2>3. /\ click'[c] \notin {New, Over} /\ click'[c].kind = click[c].kind
          /\ \A d \in Click \ {c} : click'[d] = click[d]
      BY <2>1, <2>2, SetAt DEF Answers
    <2>4. Excused(q) => Excused(q)'
      <3>1. ASSUME NEW d \in Click, OneSided(d, q) PROVE Excused(q)'
        <4>1. CASE d = c /\ click[c].kind = "reorder"
          BY <2>3, <3>1, <4>1 DEF OneSided, Excused
        <4>2. CASE d = c /\ click[c].kind # "reorder"
          BY <2>1, <3>1, <4>2 DEF OneSided, Excused
        <4>3. CASE d # c
          BY <2>3, <3>1, <4>3, OneSidedStays DEF Excused
        <4> QED
          BY <4>1, <4>2, <4>3
      <3> QED
        BY <2>1, <3>1 DEF Excused
    <2> QED
      BY <1>0, <1>1, <2>1, <2>4, AgreesStays
  <1>11. ASSUME NEW c \in Click, Succeed(c) PROVE Excused(q)' \/ Agrees(q)'
    <2>1. /\ click[c].at = "done" /\ click' = [click EXCEPT ![c] = Over]
          /\ fetch' = Invalidated(Touched(click[c].kind), data[Touched(click[c].kind)])
          /\ UNCHANGED <<server, data, behind>>
      BY <1>11 DEF Succeed, Invalidate
    <2>2. CASE Touched(click[c].kind) = q
      <3>1. data[q] # Unknown
        BY <2>1, <2>2, UnderwayIsStarted DEF Grounded, Underway, Answers
      <3>2. fetch'[q] = Sent
        BY <1>0, <2>1, <2>2, <3>1 DEF Invalidated
      <3> QED
        BY <3>2 DEF Agrees, Sent, Idle
    <2>3. CASE Touched(click[c].kind) # q
      <3>1. fetch'[q] = fetch[q]
        BY <1>0, <2>1, <2>3 DEF Invalidated
      <3>2. ~OneSided(c, q)
        BY <2>3 DEF OneSided
      <3> QED
        BY <1>0, <1>1, <1>9, <2>1, <3>1, <3>2, AgreesStays
    <2> QED
      BY <2>2, <2>3
  <1>12. ASSUME NEW c \in Click, ReorderFails(c) PROVE Excused(q)' \/ Agrees(q)'
    <2>1. /\ click[c].at \in {"refused", "failed"} /\ click[c].kind = "reorder"
          /\ data' = [data EXCEPT !["actions"] = click[c].previous]
          /\ fetch' = Invalidated("actions", click[c].previous)
          /\ click' = [click EXCEPT ![c] = Over]
          /\ UNCHANGED <<server, behind>>
      BY <1>12 DEF ReorderFails
    <2>2. click[c] \in Started("reorder")
      BY <2>1, UnderwayIsStarted DEF Answers
    <2>3. click[c].previous # Unknown
      BY <2>2, DashboardAssumption DEF DashboardAssumption, Started
    <2>4. fetch' = [fetch EXCEPT !["actions"] = Sent]
      BY <2>1, <2>3 DEF Invalidated
    <2>5. CASE q = "actions"
      <3>1. fetch'[q] = Sent
        BY <1>0, <2>4, <2>5
      <3> QED
        BY <3>1 DEF Agrees, Sent, Idle
    <2>6. CASE q # "actions"
      <3>1. fetch'[q] = fetch[q] /\ data'[q] = data[q]
        BY <1>0, <2>1, <2>4, <2>6
      <3>2. ~OneSided(c, q)
        BY <2>1, <2>6 DEF OneSided, Touched
      <3> QED
        BY <1>0, <1>1, <1>9, <2>1, <3>1, <3>2, AgreesStays
    <2> QED
      BY <2>5, <2>6
  <1>13. ASSUME NEW c \in Click, CancelRefused(c) PROVE Excused(q)' \/ Agrees(q)'
    <2>1. /\ click[c].kind = "cancel" /\ click' = [click EXCEPT ![c] = Over]
          /\ fetch' = Invalidated("run", data["run"])
          /\ UNCHANGED <<server, data, behind>>
      BY <1>13 DEF CancelRefused, Invalidate
    <2>2. fetch'[q] = fetch[q]
      BY <1>0, <2>1 DEF Invalidated
    <2>3. ~OneSided(c, q)
      BY <2>1 DEF OneSided, Touched
    <2> QED
      BY <1>0, <1>1, <1>9, <2>1, <2>2, <2>3, AgreesStays
  <1>14. ASSUME NEW c \in Click, Fail(c) PROVE Excused(q)' \/ Agrees(q)'
    <2>1. /\ click[c].kind # "reorder" /\ click[c].at \in {"refused", "failed"}
          /\ click' = [click EXCEPT ![c] = Over]
          /\ UNCHANGED <<server, data, fetch, behind>>
      BY <1>14 DEF Fail
    <2>2. ~OneSided(c, q)
      BY <2>1 DEF OneSided
    <2> QED
      BY <1>0, <1>1, <1>9, <2>1, <2>2, AgreesStays
  <1>15. ASSUME Engine PROVE Excused(q)' \/ Agrees(q)'
    <2>1. UNCHANGED <<data, fetch, click, behind>>
      BY <1>15 DEF Engine, Admit, Refuse, RunStep
    <2>2. Value(q)' = Value(q)
      BY <1>0, <1>15, EngineStep, ValueKept
    <2>3. Excused(q) => Excused(q)'
      BY <2>1 DEF Excused, OneSided
    <2> QED
      BY <1>0, <2>1, <2>2, <2>3, AgreesStays
  <1>16. ASSUME EditElsewhere PROVE Excused(q)' \/ Agrees(q)'
    <2>1. PICK m : /\ m.kind \in Kinds /\ m.arg \in Carried(m.kind) /\ Accepts(m)
                   /\ server' = Applied(m)
                   /\ behind' = behind \cup {Touched(m.kind)}
                   /\ click' = Overlapped(m.kind)
      BY <1>0, <1>16, EditIsRequest
    <2>2. UNCHANGED <<data, fetch>>
      BY <1>16 DEF EditElsewhere
    <2>3. \A d \in Click : click'[d] = click[d] \/ Marked(d)
      BY <2>1, OverlappedClicks DEF Marked
    <2>4. Excused(q) \/ q = Touched(m.kind) => Excused(q)'
      BY <2>1, <2>3, OneSidedStays DEF Excused
    <2>5. q # Touched(m.kind) => Value(q)' = Value(q)
      BY <1>0, <2>1, AppliedKeepsOthers
    <2> QED
      BY <1>0, <2>2, <2>4, <2>5, AgreesStays
  <1> QED
    BY <1>2, <1>3, <1>4, <1>6, <1>7, <1>8, <1>10, <1>11, <1>12, <1>13, <1>14, <1>15, <1>16
       DEF PageNext, Callback, Engine

LEMMA SaveGoesOn ==
  ASSUME PageTypeOK, NEW c \in Click, c \in Pending("save")',
         click'[c] = click[c] \/ Marked(c) \/ Moves(c) \/ Ends(c)
  PROVE  /\ c \in Pending("save")
         /\ click[c].unsettled => click'[c].unsettled
         /\ click'[c].asked = click[c].asked /\ click'[c].arg = click[c].arg
         /\ click'[c].at = "sent" => click[c].at = "sent"
  <1>0. click'[c] \notin {New, Over} /\ click'[c].kind = "save"
    BY DEF Pending
  <1>1. Underway(c) /\ click[c] \in Started(click[c].kind)
    BY <1>0, UnderwayIsStarted DEF Underway, Marked, Moves, Ends
  <1>2. CASE click'[c] = click[c]
    BY <1>0, <1>2 DEF Pending
  <1>3. CASE Marked(c)
    <2>1. /\ click'[c].kind = click[c].kind /\ click'[c].at = click[c].at /\ click'[c].unsettled
          /\ click'[c].asked = click[c].asked /\ click'[c].arg = click[c].arg
      BY <1>1, <1>3 DEF Marked, Started
    <2> QED
      BY <1>0, <1>1, <2>1 DEF Pending, Underway
  <1>4. CASE Moves(c)
    <2>1. PICK at \in Answers : click'[c] = [click[c] EXCEPT !.at = at]
      BY <1>4 DEF Moves
    <2>2. /\ click'[c].kind = click[c].kind /\ click'[c].at = at /\ click'[c].unsettled = click[c].unsettled
          /\ click'[c].asked = click[c].asked /\ click'[c].arg = click[c].arg
      BY <1>1, <2>1 DEF Started
    <2> QED
      BY <1>0, <1>1, <2>2 DEF Pending, Underway, Answers
  <1>5. ~Ends(c)
    BY <1>0 DEF Ends
  <1> QED
    BY <1>2, <1>3, <1>4, <1>5

LEMMA SavesMeetStep ==
  ASSUME PageTypeOK, SavesMeet, [PageNext]_pageVars
  PROVE  SavesMeet'
  <1> SUFFICES ASSUME NEW c \in Click, NEW d \in Click, c # d,
                      c \in Pending("save")', d \in Pending("save")'
               PROVE  click'[c].unsettled
    BY DEF SavesMeet, Pending
  <1>1. ASSUME NEW e \in Click, Press(e) PROVE click'[c].unsettled
    <2>1. PICK kind \in Kinds :
            /\ click[e] = New /\ click'[e] \in Started(kind)
            /\ click'[e].unsettled = (kind = "save" /\ ~Settled("trigger"))
            /\ \A b \in Click \ {e} : click'[b] = Overlapped(kind)[b]
      BY <1>1, PressStep
    <2>2. \A b \in Click \ {e} : click'[b] = click[b] \/ Marked(b)
      BY <2>1, OverlappedClicks DEF Marked
    <2>3. CASE c = e
      <3>1. kind = "save"
        BY <2>1, <2>3, StartedIsUnderway DEF Pending
      <3>2. d \in Pending("save")
        BY <2>2, <2>3, SaveGoesOn
      <3>3. ~Settled("trigger")
        BY <3>2 DEF Settled, Pending, Touched
      <3> QED
        BY <2>1, <2>3, <3>1, <3>3
    <2>4. CASE c # e
      <3>1. c \in Pending("save") /\ (click[c].unsettled => click'[c].unsettled)
        BY <2>2, <2>4, SaveGoesOn
      <3>2. CASE d = e
        <4>1. kind = "save"
          BY <2>1, <3>2, StartedIsUnderway DEF Pending
        <4>2. Underway(c) /\ click[c].kind = "save" /\ click[c] \in Started("save")
          BY <3>1, UnderwayIsStarted DEF Pending, Underway
        <4>3. click'[c] = [click[c] EXCEPT !.unsettled = TRUE]
          BY <2>1, <2>4, <4>1, <4>2, OverlappedClicks
        <4> QED
          BY <4>2, <4>3 DEF Started
      <3>3. CASE d # e
        BY <2>2, <3>1, <3>3, SaveGoesOn DEF SavesMeet
      <3> QED
        BY <3>2, <3>3
    <2> QED
      BY <2>3, <2>4
  <1>2. CASE ~\E e \in Click : Press(e)
    BY <1>2, OthersGoOn, SaveGoesOn DEF SavesMeet
  <1> QED
    BY <1>1, <1>2

\* The trigger changes when a save is applied, of this page or another.
LEMMA TriggerChange ==
  ASSUME PageTypeOK, [PageNext]_pageVars, server'.trigger # server.trigger
  PROVE  \/ \E c \in Click : /\ Apply(c) /\ c \in Pending("save")
                             /\ server'.trigger = click[c].arg
                             /\ click' = [click EXCEPT ![c].at = "done"]
         \/ click' = Overlapped("save")
  <1>0. server \in Server
    BY DEF PageTypeOK
  <1>1. ASSUME NEW c \in Click, Press(c) \/ RequestFails(c) \/ Callback(c) PROVE FALSE
    <2>1. CASE Press(c)
      BY <2>1, PressIsMutation DEF Mutates, Mutate
    <2> QED
      BY <1>1, <2>1 DEF RequestFails, Callback, Succeed, ReorderFails, CancelRefused, Fail
  <1>2. ~Engine
    BY <1>0, EngineStep
  <1>3. ASSUME NEW c \in Click, Apply(c)
        PROVE  /\ c \in Pending("save") /\ server'.trigger = click[c].arg
               /\ click' = [click EXCEPT ![c].at = "done"]
    <2>1. /\ Underway(c) /\ click[c].kind \in Kinds /\ click[c].arg \in Carried(click[c].kind)
          /\ Accepts(click[c]) /\ server' = Applied(click[c])
          /\ click' = [click EXCEPT ![c].at = "done"]
      BY <1>3, ApplyStep
    <2>2. click[c].kind = "save" /\ server'.trigger = click[c].arg
      BY <1>0, <2>1, AppliedIsServer
    <2> QED
      BY <2>1, <2>2 DEF Pending, Underway
  <1>4. CASE EditElsewhere
    <2>1. PICK m : /\ m.kind \in Kinds /\ m.arg \in Carried(m.kind) /\ Accepts(m)
                   /\ server' = Applied(m) /\ click' = Overlapped(m.kind)
      BY <1>0, <1>4, EditIsRequest
    <2>2. m.kind = "save"
      BY <1>0, <2>1, AppliedIsServer
    <2> QED
      BY <2>1, <2>2
  <1> QED
    BY <1>1, <1>2, <1>3, <1>4
       DEF PageNext, pageVars, Engine, Answer, Arrive, FetchFails, Refetch, Poll

LEMMA HarmlessStep ==
  ASSUME PageTypeOK, InStep, SavesMeet, Harmless, [PageNext]_pageVars
  PROVE  Harmless'
  <1> SUFFICES ASSUME NEW c \in Click, c \in Pending("save")', click'[c].at = "sent",
                      ~click'[c].asked, ~click'[c].unsettled, server'.trigger = "WEBHOOK"
               PROVE  click'[c].arg = "WEBHOOK"
    BY DEF Harmless, Pending
  <1>1. ASSUME server'.trigger = server.trigger,
               click'[c] = click[c] \/ Marked(c) \/ Moves(c) \/ Ends(c)
        PROVE  click'[c].arg = "WEBHOOK"
    BY <1>1, SaveGoesOn DEF Harmless
  <1>2. ASSUME NEW e \in Click, Press(e) PROVE click'[c].arg = "WEBHOOK"
    <2>1. PICK kind \in Kinds : \E arg \in Carried(kind), asked \in BOOLEAN :
            /\ Mutates(e, kind, arg, asked) /\ click'[e] \in Started(kind)
            /\ click'[e].arg = arg /\ click'[e].asked = asked
            /\ click'[e].unsettled = (kind = "save" /\ ~Settled("trigger"))
            /\ \A d \in Click \ {e} : click'[d] = Overlapped(kind)[d]
      BY <1>2, PressStep
    <2>2. server' = server
      BY <2>1 DEF Mutates, Mutate
    <2>3. CASE c # e
      <3>1. click'[c] = click[c] \/ Marked(c)
        BY <2>1, <2>3, OverlappedClicks DEF Marked
      <3> QED
        BY <1>1, <2>2, <3>1
    <2>4. CASE c = e
      <3>1. kind = "save"
        BY <2>1, <2>4, StartedIsUnderway DEF Pending
      <3>2. Settled("trigger") /\ ~AsksBefore(click'[c].arg) /\ data["trigger"] # Unknown
        BY <2>1, <2>4, <3>1 DEF Mutates, Touched
      <3>3. ~Excused("trigger") /\ fetch["trigger"] = Idle
        BY <3>2 DEF Settled, Excused, OneSided
      <3>4. data["trigger"] = server.trigger
        BY <3>2, <3>3 DEF InStep, Agrees, Value, GetTrigger
      <3> QED
        BY <2>2, <3>2, <3>4 DEF AsksBefore
    <2> QED
      BY <2>3, <2>4
  <1>3. CASE ~\E e \in Click : Press(e)
    <2>1. click'[c] = click[c] \/ Marked(c) \/ Moves(c) \/ Ends(c)
      BY <1>3, OthersGoOn
    <2>2. c \in Pending("save") /\ ~click[c].unsettled
      BY <2>1, SaveGoesOn
    <2>3. CASE server'.trigger = server.trigger
      BY <1>1, <2>1, <2>3
    <2>4. CASE \E e \in Click : /\ Apply(e) /\ e \in Pending("save")
                                /\ click' = [click EXCEPT ![e].at = "done"]
      <3>1. PICK e \in Click : Apply(e) /\ e \in Pending("save") /\ click' = [click EXCEPT ![e].at = "done"]
        BY <2>4
      <3>2. click'[e].at = "done"
        BY <3>1, SetAt DEF Answers, Pending, Underway
      <3>3. e # c
        BY <3>2
      <3> QED
        BY <2>2, <3>1, <3>3 DEF SavesMeet
    <2>5. CASE click' = Overlapped("save")
      <3>1. Underway(c) /\ click[c].kind = "save" /\ click[c] \in Started("save")
        BY <2>2, UnderwayIsStarted DEF Pending, Underway
      <3>2. click'[c] = [click[c] EXCEPT !.unsettled = TRUE]
        BY <2>5, <3>1, OverlappedClicks
      <3> QED
        BY <3>1, <3>2 DEF Started
    <2> QED
      BY <2>3, <2>4, <2>5, TriggerChange
  <1> QED
    BY <1>2, <1>3

----------------------------------------------------------------------------
(* The theorems *)

LEMMA PageInitInv ==
  ASSUME PageInit
  PROVE  PageInv
  <1>1. server \in Server
    <2>1. ToSet(FirstSteps) \in SUBSET Step /\ FirstSteps \in Seq(Step)
      BY DashboardAssumption DEF DashboardAssumption, ToSet
    <2>2. PICK status \in Switch, trigger \in TriggerTypes \cup {Absent} :
            server = [status |-> status, trigger |-> trigger, steps |-> FirstSteps,
                      used |-> ToSet(FirstSteps), events |-> 0, runs |-> <<>>]
      BY DashboardAssumption DEF DashboardAssumption, PageInit, Switch
    <2>3. <<>> \in Seq(RunStatus)
      OBVIOUS
    <2> QED
      BY <2>1, <2>2, <2>3 DEF Server
  <1>2. \A q \in Query : /\ data[q] = Unknown \/ (data[q] = Value(q) /\ fetch[q] = Idle)
                         /\ fetch[q] \in {Idle, Sent}
    <2> SUFFICES ASSUME NEW q \in Query
                 PROVE  /\ data[q] = Unknown \/ (data[q] = Value(q) /\ fetch[q] = Idle)
                        /\ fetch[q] \in {Idle, Sent}
      OBVIOUS
    <2> DEFINE loading == \E k \in menu : Touched(k) = q
    <2>1. data[q] = (IF loading THEN Unknown ELSE Value(q)) /\ fetch[q] = (IF loading THEN Sent ELSE Idle)
      BY DEF PageInit
    <2> HIDE DEF loading
    <2> QED
      BY <2>1
  <1>3. PageTypeOK
    <2>1. \A q \in Query : data[q] = Unknown \/ data[q] \in Shown(q)
      BY <1>1, <1>2, ValueIsShown
    <2>2. menu \subseteq Kinds
      BY DashboardAssumption DEF DashboardAssumption, PageInit
    <2>3. /\ data = [q \in Query |-> data[q]] /\ fetch = [q \in Query |-> fetch[q]]
          /\ click = [c \in Click |-> click[c]] /\ \A c \in Click : click[c] = New
      BY DEF PageInit
    <2> QED
      BY <1>1, <1>2, <2>1, <2>2, <2>3 DEF PageTypeOK
  <1>4. InStep
    BY <1>2 DEF InStep, Agrees, Idle, Sent
  <1>5. Grounded /\ SavesMeet /\ Harmless
    BY DEF PageInit, Grounded, SavesMeet, Harmless, Pending
  <1> QED
    BY <1>3, <1>4, <1>5 DEF PageInv

\* The invariant of the builder page, from which the rest follows: what it shows
\* or is about to show is behind only where a mutation, a failure or another
\* client accounts for it, and saves of the trigger that meet know of it.
THEOREM PageInvariant == PageSpec => []PageInv
  <1>1. PageInit => PageInv
    BY PageInitInv
  <1>2. PageInv /\ [PageNext]_pageVars => PageInv'
    BY PageTypeStep, InStepStep, GroundedStep, SavesMeetStep, HarmlessStep DEF PageInv
  <1> QED
    BY <1>1, <1>2, PTL DEF PageSpec

\* A query of the builder page with nothing in flight shows what the server has,
\* for any number of clicks, steps, runs and failures.
THEOREM SettledPageIsTrue == PageSpec => []SettledIsTrue
  <1>1. PageInv => SettledIsTrue
    <2> SUFFICES ASSUME PageInv, NEW q \in Query \ {"run"}, Settled(q), data[q] # Unknown
                 PROVE  data[q] = Value(q)
      BY DEF SettledIsTrue
    <2>1. ~Excused(q) /\ fetch[q] = Idle
      BY DEF Settled, Excused, OneSided
    <2> QED
      BY <2>1 DEF PageInv, InStep, Agrees
  <1> QED
    BY <1>1, PageInvariant, PTL

\* The dialog before a webhook's secret is discarded cannot be passed by, for any
\* number of clicks and of other clients' edits, while the page has caught up.
THEOREM WebhookIsAskedFor == PageSpec => WebhookNotLostUnasked
  <1> DEFINE Asks == \A c \in Click :
                       /\ click[c].at = "sent" /\ click'[c].at # "sent"
                       /\ server.trigger = "WEBHOOK" /\ server'.trigger # "WEBHOOK"
                       => click[c].asked \/ click[c].unsettled
  <1>1. PageInv /\ [PageNext]_pageVars => Asks
    <2> SUFFICES ASSUME PageInv, [PageNext]_pageVars, NEW c \in Click,
                        click[c].at = "sent", click'[c].at # "sent",
                        server.trigger = "WEBHOOK", server'.trigger # "WEBHOOK"
                 PROVE  click[c].asked \/ click[c].unsettled
      OBVIOUS
    <2>0. PageTypeOK /\ Underway(c) /\ click[c] \in Started(click[c].kind)
      BY UnderwayIsStarted DEF PageInv
    <2>1. CASE click' = Overlapped("save")
      <3>1. click'[c] = click[c] \/ click'[c] = [click[c] EXCEPT !.unsettled = TRUE]
        BY <2>1, OverlappedClicks
      <3>2. click'[c].at = click[c].at
        BY <2>0, <3>1 DEF Started
      <3> QED
        BY <3>2
    <2>2. CASE \E d \in Click : /\ Apply(d) /\ d \in Pending("save")
                                /\ server'.trigger = click[d].arg
                                /\ click' = [click EXCEPT ![d].at = "done"]
      <3>1. PICK d \in Click : /\ Apply(d) /\ d \in Pending("save")
                               /\ server'.trigger = click[d].arg
                               /\ click' = [click EXCEPT ![d].at = "done"]
        BY <2>2
      <3>2. c = d
        BY <2>0, <3>1, SetAt DEF Answers, Pending, Underway
      <3> QED
        BY <3>1, <3>2 DEF PageInv, Harmless
    <2> QED
      BY <2>0, <2>1, <2>2, TriggerChange
  <1> QED
    BY <1>1, PageInvariant, PTL DEF PageSpec, WebhookNotLostUnasked

HIDE DEF Query, Kinds, Absent

----------------------------------------------------------------------------
(* The session *)

USE SessionsAssumption DEF SessionsAssumption, None, Token
USE DEF vars, tokens, browser

Rows == {"none", "live", "revoked"}
CallRecord == [kind : {"free", "refresh", "signin", "signout"}, token : Nat, new : Nat,
               at : Final \cup {"begin", "spend", "issue", "revoke"}]

Typed ==
  /\ runtime \in {"worker", "backend"}
  /\ row \in [Token -> Rows] /\ session \in [Token -> Nat]
  /\ call \in [Call -> CallRecord]

\* Tokens are numbered in the order they are issued.
Numbered == \E k \in 0..MaxToken : Used = 1..k

\* A request holds tokens that were issued, and is at a place of its kind. The
\* token of a refresh is spent by the time there is an answer; in the Worker it
\* is before the next one is issued.
CallOK(c) ==
  /\ call[c].token \in Used \cup {None} /\ call[c].new \in Used \cup {None}
  /\ call[c].at \in {"spend", "revoke"} => call[c].kind = "refresh" /\ call[c].token # None
  /\ call[c].at = "begin" => call[c].kind \in {"refresh", "signout"} /\ call[c].token # None
  /\ call[c].at = "issue" => \/ call[c].kind = "signin" /\ call[c].token = None
                             \/ /\ call[c].kind = "refresh" /\ call[c].token # None
                                /\ runtime = "worker" => row[call[c].token] = "revoked"
  /\ call[c].at = "answered" /\ call[c].token # None => row[call[c].token] = "revoked"

\* What else has a token has an issued one, and what was answered is spent.
Issued ==
  /\ stored \in Used \cup {None}
  /\ \A n \in Used : session[n] \in Used
  /\ ended \subseteq Used
  /\ \A n \in answered \ {None} : n \in Used /\ row[n] = "revoked"

\* A refresh of the Worker that has spent its token and will issue the next one.
Holder(c) == call[c].at = "issue" /\ call[c].kind = "refresh"

\* In the Worker a session is one live token, or one such refresh, or over.
OneClaim ==
  runtime = "worker" =>
    /\ \A m, n \in Token : row[m] = "live" /\ row[n] = "live" /\ session[m] = session[n] => m = n
    /\ \A c \in Call, n \in Token :
         Holder(c) /\ row[n] = "live" => session[n] # session[call[c].token]
    /\ \A c, d \in Call :
         Holder(c) /\ Holder(d) /\ session[call[c].token] = session[call[d].token] => c = d
    /\ \A n \in Token : row[n] = "live" => session[n] \notin ended
    /\ \A c \in Call : Holder(c) => session[call[c].token] \notin ended

\* What a tab awaits is a request.
Awaiting == refreshing \in [Tab -> Call \cup {None}] /\ button \in [Tab -> Call \cup {None}]

SessionsInv == Typed /\ Numbered /\ Issued /\ OneClaim /\ \A c \in Call : CallOK(c)

----------------------------------------------------------------------------
(* Tokens and requests *)

\* The next token has no row yet, and follows those that have.
LEMMA FreshIsNew ==
  ASSUME Numbered, Fresh \in Token
  PROVE  /\ Fresh \notin Used /\ row[Fresh] = "none"
         /\ \E k \in 0..MaxToken : Used \cup {Fresh} = 1..k
  <1>1. PICK k \in 0..MaxToken : Used = 1..k
    BY DEF Numbered
  <1>2. Cardinality(1..k) = k
    BY <1>1, FS_Interval
  <1>3. Fresh = k + 1
    BY <1>1, <1>2 DEF Fresh
  <1>4. Fresh \notin Used /\ Used \cup {Fresh} = 1..(k + 1)
    BY <1>1, <1>3
  <1>5. row[Fresh] = "none"
    BY <1>4 DEF Used
  <1> QED
    BY <1>3, <1>4, <1>5

LEMMA FreeRecord == Free \in CallRecord
  BY DEF Free, CallRecord, Final

\* What Put and CallGoto do to the requests.
LEMMA PutEffect ==
  ASSUME Typed, NEW c \in Call, NEW state \in CallRecord, Put(c, state)
  PROVE  /\ call' \in [Call -> CallRecord]
         /\ call'[c] \in {state, Free} /\ \A d \in Call : d # c => call'[d] = call[d]
  BY FreeRecord DEF Put, Typed

LEMMA GotoEffect ==
  ASSUME Typed, NEW c \in Call, NEW from, NEW to \in Final \cup {"begin", "spend", "issue", "revoke"},
         CallGoto(c, from, to)
  PROVE  /\ call[c].at = from /\ call' \in [Call -> CallRecord]
         /\ \A d \in Call : d # c => call'[d] = call[d]
         /\ \/ call'[c] = Free
            \/ /\ call'[c].at = to /\ call'[c].kind = call[c].kind
               /\ call'[c].token = call[c].token /\ call'[c].new = call[c].new
  <1>1. call[c] \in CallRecord
    BY DEF Typed
  <1>2. [call[c] EXCEPT !.at = to] \in CallRecord
    BY <1>1 DEF CallRecord
  <1>3. /\ call' \in [Call -> CallRecord]
        /\ call'[c] \in {[call[c] EXCEPT !.at = to], Free} /\ \A d \in Call : d # c => call'[d] = call[d]
    BY <1>2, PutEffect DEF CallGoto
  <1> QED
    BY <1>1, <1>3 DEF CallGoto, CallRecord

\* Rows only come and are spent.
Ages ==
  /\ runtime' = runtime /\ Used \subseteq Used'
  /\ \A n \in Token : row[n] = "revoked" => row'[n] = "revoked"

LEMMA CallStays ==
  ASSUME Ages, Numbered, NEW c \in Call,
         (CallOK(c) /\ call'[c] = call[c]) \/ call'[c] = Free
  PROVE  CallOK(c)'
  <1>1. Used \subseteq Token
    BY DEF Used
  <1>2. CASE CallOK(c) /\ call'[c] = call[c]
    BY <1>1, <1>2 DEF CallOK, Ages
  <1>3. CASE call'[c] = Free
    BY <1>3 DEF CallOK, Free
  <1> QED
    BY <1>2, <1>3

\* A step that touches no row keeps the invariant if it keeps the requests'.
LEMMA RowsStay ==
  ASSUME SessionsInv, UNCHANGED <<runtime, row, session, ended>>,
         call' \in [Call -> CallRecord],
         \A d \in Call : CallOK(d)',
         runtime = "worker" => \A d \in Call : Holder(d)' => Holder(d) /\ call'[d].token = call[d].token,
         stored' \in Used \cup {None},
         \A n \in answered' \ {None} : n \in Used /\ row[n] = "revoked"
  PROVE  SessionsInv'
  <1>1. Used' = Used
    BY DEF Used
  <1>2. Typed' /\ Numbered' /\ Issued'
    BY <1>1 DEF SessionsInv, Typed, Numbered, Issued
  <1>3. OneClaim'
    BY DEF SessionsInv, OneClaim
  <1> QED
    BY <1>2, <1>3 DEF SessionsInv

\* A step of a tab: requests that are over are forgotten, or one is sent.
LEMMA TabStep ==
  ASSUME SessionsInv, UNCHANGED <<runtime, row, session, ended>>, call' \in [Call -> CallRecord],
         \A d \in Call : \/ call'[d] \in {call[d], Free}
                         \/ /\ call'[d].new = None /\ call'[d].token \in Used \cup {None}
                            /\ \/ call'[d].at = "issue" /\ call'[d].kind = "signin" /\ call'[d].token = None
                               \/ call'[d].at = "begin" /\ call'[d].kind \in {"refresh", "signout"} /\ call'[d].token # None
                               \/ call'[d].at = "refused",
         stored' \in Used \cup {None},
         \A n \in answered' \ {None} : n \in Used /\ row[n] = "revoked"
  PROVE  SessionsInv'
  <1>1. Used' = Used /\ Ages
    BY DEF Used, Ages
  <1>2. ASSUME NEW d \in Call PROVE CallOK(d)'
    <2>1. CASE call'[d] \in {call[d], Free}
      BY <1>1, <2>1, CallStays DEF SessionsInv
    <2>2. CASE call'[d] \notin {call[d], Free}
      BY <1>1, <2>2 DEF CallOK
    <2> QED
      BY <2>1, <2>2
  <1>3. ASSUME NEW d \in Call, Holder(d)' PROVE Holder(d) /\ call'[d].token = call[d].token
    <2>1. call'[d].at = "issue" /\ call'[d].kind = "refresh" /\ call'[d] # Free
      BY <1>3 DEF Holder, Free
    <2> QED
      BY <2>1 DEF Holder
  <1> QED
    BY <1>2, <1>3, RowsStay

\* What a tab sends.
LEMMA Sends ==
  ASSUME Typed, Issued, NEW c \in Call,
         Send(c, "refresh", stored) \/ Send(c, "signout", stored) \/ Send(c, "signin", None) \/ GuardRefuses(c),
         stored # None \/ Send(c, "signin", None)
  PROVE  /\ call' \in [Call -> CallRecord] /\ \A d \in Call : d # c => call'[d] = call[d]
         /\ call'[c].new = None /\ call'[c].token \in Used \cup {None}
         /\ \/ call'[c].at = "issue" /\ call'[c].kind = "signin" /\ call'[c].token = None
            \/ call'[c].at = "begin" /\ call'[c].kind \in {"refresh", "signout"} /\ call'[c].token # None
            \/ call'[c].at = "refused"
  <1>1. stored \in Nat /\ stored \in Used \cup {None}
    BY DEF Issued, Used
  <1>2. ASSUME NEW kind \in {"refresh", "signout", "signin"}, NEW token \in Nat, Send(c, kind, token)
        PROVE  /\ call' \in [Call -> CallRecord] /\ \A d \in Call : d # c => call'[d] = call[d]
               /\ call'[c].new = None /\ call'[c].token = token /\ call'[c].kind = kind
               /\ call'[c].at = IF kind = "signin" THEN "issue" ELSE "begin"
    BY <1>2 DEF Send, Typed, CallRecord
  <1>3. CASE GuardRefuses(c)
    BY <1>3 DEF GuardRefuses, Free, Typed, CallRecord, Final
  <1> QED
    BY <1>1, <1>2, <1>3

LEMMA Forgets ==
  ASSUME Typed, NEW C, Forget(C)
  PROVE  call' \in [Call -> CallRecord] /\ \A d \in Call : call'[d] \in {call[d], Free}
  BY FreeRecord DEF Forget, Typed

\* A row that is revoked was issued before: nothing else of the rows changes.
LEMMA Revokes ==
  ASSUME Typed, Numbered, Issued, NEW n \in Used, row' = [row EXCEPT ![n] = "revoked"],
         UNCHANGED <<runtime, session, stored, answered>>,
         call' \in [Call -> CallRecord], ended' \subseteq Used
  PROVE  /\ Used' = Used /\ Ages /\ row'[n] = "revoked"
         /\ \A m \in Token : row'[m] = "live" => m # n /\ row[m] = "live"
         /\ Typed' /\ Numbered' /\ Issued'
  <1>1. Used \subseteq Token /\ n \in Token /\ row[n] # "none"
    BY DEF Used
  <1>2. \A m \in Token : row'[m] = IF m = n THEN "revoked" ELSE row[m]
    BY <1>1 DEF Typed
  <1>3. Used' = Used
    BY <1>1, <1>2 DEF Used
  <1>4. Ages
    BY <1>2, <1>3 DEF Ages
  <1>5. Typed'
    BY <1>1 DEF Typed, Rows
  <1>6. Numbered' /\ Issued'
    BY <1>1, <1>2, <1>3 DEF Numbered, Issued
  <1> QED
    BY <1>1, <1>2, <1>3, <1>4, <1>5, <1>6

LEMMA AwaitingStep == Awaiting /\ [Next]_vars => Awaiting'
  BY ZenonT(60) DEF Awaiting, Next, Serve, Refresh, Find, Spend, Issue, RevokeOld, EndSession, LoseCall, Settle,
         RefreshSettled, ButtonSettled, ConnectionLost, Open, Leave, SignIn, Unauthorized, SignOut

----------------------------------------------------------------------------
(* The invariant *)

LEMMA InitInv == Init => SessionsInv
  <1> SUFFICES ASSUME Init PROVE SessionsInv
    OBVIOUS
  <1>1. Used = {} /\ \A n \in Token : row[n] = "none"
    BY DEF Init, Used
  <1>2. Numbered
    BY <1>1 DEF Numbered
  <1>3. Typed
    BY FreeRecord DEF Init, Typed, Rows
  <1>4. Issued
    BY <1>1 DEF Init, Issued
  <1>5. \A c \in Call : call[c] = Free
    BY DEF Init
  <1>6. (\A c \in Call : CallOK(c)) /\ OneClaim
    BY <1>1, <1>5 DEF CallOK, OneClaim, Holder, Free
  <1> QED
    BY <1>2, <1>3, <1>4, <1>6 DEF SessionsInv

LEMMA StepInv == Awaiting /\ SessionsInv /\ [Next]_vars => SessionsInv'
  <1> SUFFICES ASSUME Awaiting, SessionsInv, [Next]_vars PROVE SessionsInv'
    OBVIOUS
  <1> USE DEF SessionsInv
  <1>0. /\ stored \in Used \cup {None} /\ \A n \in answered \ {None} : n \in Used /\ row[n] = "revoked"
        /\ Used \subseteq Token
    BY DEF Issued, Used
  <1>1. ASSUME NEW c \in Call, Find(c) PROVE SessionsInv'
    <2> DEFINE to == IF ~Live(call[c].token) THEN "refused" ELSE IF runtime = "worker" THEN "spend" ELSE "issue"
    <2>1. call[c].kind = "refresh" /\ CallGoto(c, "begin", to)
      BY <1>1 DEF Find
    <2>2. to \in Final \cup {"begin", "spend", "issue", "revoke"}
      BY DEF Final
    <2> HIDE DEF to
    <2>3. /\ call[c].at = "begin" /\ call' \in [Call -> CallRecord]
          /\ \A d \in Call : d # c => call'[d] = call[d]
          /\ \/ call'[c] = Free
             \/ /\ call'[c].at = to /\ call'[c].kind = call[c].kind
                /\ call'[c].token = call[c].token /\ call'[c].new = call[c].new
      BY <2>1, <2>2, GotoEffect
    <2>4. UNCHANGED <<runtime, row, session, ended, stored, answered>>
      BY <1>1 DEF Find
    <2>5. Used' = Used /\ Ages
      BY <2>4 DEF Used, Ages
    <2>6. CallOK(c)'
      <3>1. call[c].token \in Used /\ call[c].new \in Used \cup {None}
        BY <2>3 DEF CallOK
      <3>2. CASE call'[c] = Free
        BY <2>5, <3>2, CallStays
      <3>3. CASE call'[c] # Free
        BY <1>0, <2>1, <2>3, <2>4, <2>5, <3>1, <3>3 DEF CallOK, to
      <3> QED
        BY <3>2, <3>3
    <2>7. \A d \in Call : CallOK(d)'
      BY <2>3, <2>5, <2>6, CallStays
    <2>8. runtime = "worker" => \A d \in Call : Holder(d)' => Holder(d) /\ call'[d].token = call[d].token
      BY <2>3 DEF Holder, Free, to
    <2> QED
      BY <1>0, <2>3, <2>4, <2>7, <2>8, RowsStay
  <1>2. ASSUME NEW c \in Call, LoseCall(c) PROVE SessionsInv'
    <2>1. [call[c] EXCEPT !.at = "lost"] \in CallRecord
      BY DEF Typed, CallRecord, Final
    <2>2. /\ call' \in [Call -> CallRecord] /\ \A d \in Call : d # c => call'[d] = call[d]
          /\ call'[c] \in {[call[c] EXCEPT !.at = "lost"], Free}
      BY <1>2, <2>1, PutEffect DEF LoseCall
    <2>3. UNCHANGED <<runtime, row, session, ended, stored, answered>>
      BY <1>2 DEF LoseCall
    <2>4. Used' = Used /\ Ages
      BY <2>3 DEF Used, Ages
    <2>5. CallOK(c)'
      <3>1. CASE call'[c] = Free
        BY <2>4, <3>1, CallStays
      <3>2. CASE call'[c] = [call[c] EXCEPT !.at = "lost"]
        <4>1. call'[c].at = "lost" /\ call'[c].token = call[c].token /\ call'[c].new = call[c].new
          BY <3>2 DEF Typed, CallRecord
        <4> QED
          BY <2>4, <4>1 DEF CallOK
      <3> QED
        BY <2>2, <3>1, <3>2
    <2>6. \A d \in Call : CallOK(d)'
      BY <2>2, <2>4, <2>5, CallStays
    <2>7. call'[c].at # "issue"
      BY <2>2 DEF Free, Typed, CallRecord
    <2>8. \A d \in Call : Holder(d)' => Holder(d) /\ call'[d].token = call[d].token
      BY <2>2, <2>7 DEF Holder
    <2> QED
      BY <1>0, <2>2, <2>3, <2>6, <2>8, RowsStay
  <1>3. ASSUME NEW t \in Tab, Open(t) \/ Unauthorized(t) \/ SignOut(t) \/ SignIn(t) PROVE SessionsInv'
    <2>1. /\ UNCHANGED <<runtime, row, session, ended, answered>> /\ stored' \in {stored, None}
      BY <1>3 DEF Open, Unauthorized, SignOut, SignIn, Clear
    <2>2. \/ call' = call
          \/ \E c \in Call : /\ \/ Send(c, "refresh", stored) \/ Send(c, "signout", stored)
                                \/ Send(c, "signin", None) \/ GuardRefuses(c)
                             /\ stored # None \/ Send(c, "signin", None)
      BY <1>3 DEF Open, Unauthorized, SignOut, SignIn
    <2>3. CASE call' = call
      BY <1>0, <2>1, <2>3, TabStep DEF Typed
    <2>4. ASSUME NEW c \in Call, stored # None \/ Send(c, "signin", None),
                 Send(c, "refresh", stored) \/ Send(c, "signout", stored) \/ Send(c, "signin", None) \/ GuardRefuses(c)
          PROVE  SessionsInv'
      BY <1>0, <2>1, <2>4, Sends, TabStep
    <2> QED
      BY <2>2, <2>3, <2>4
  <1>4. ASSUME NEW t \in Tab, Leave(t) \/ ConnectionLost(t) PROVE SessionsInv'
    <2>1. UNCHANGED <<runtime, row, session, ended, answered, stored>>
      BY <1>4 DEF Leave, ConnectionLost
    <2>2. \E C : Forget(C)
      BY <1>4 DEF Leave, ConnectionLost
    <2>3. call' \in [Call -> CallRecord] /\ \A d \in Call : call'[d] \in {call[d], Free}
      BY <2>2, Forgets
    <2> QED
      BY <1>0, <2>1, <2>3, TabStep
  <1>5. ASSUME NEW t \in Tab, RefreshSettled(t) \/ ButtonSettled(t) PROVE SessionsInv'
    <2>0. refreshing[t] \in Call \cup {None} /\ button[t] \in Call \cup {None}
      BY DEF Awaiting
    <2>1. UNCHANGED <<runtime, row, session, ended>> /\ \E C : Forget(C)
      BY <1>5 DEF RefreshSettled, ButtonSettled
    <2>2. call' \in [Call -> CallRecord] /\ \A d \in Call : call'[d] \in {call[d], Free}
      BY <2>1, Forgets
    <2>3. \E c \in Call : stored' \in {stored, None, call[c].new}
      BY <1>5, <2>0 DEF RefreshSettled, ButtonSettled, Signed, Clear
    <2>4. \A c \in Call : call[c].new \in Used \cup {None}
      BY DEF CallOK
    <2>5. stored' \in Used \cup {None}
      BY <1>0, <2>3, <2>4
    <2>6. answered' = answered \/ \E c \in Call : call[c].at = "answered" /\ answered' = answered \cup {call[c].token}
      BY <1>5, <2>0 DEF RefreshSettled, ButtonSettled
    <2>7. \A n \in answered' \ {None} : n \in Used /\ row[n] = "revoked"
      BY <1>0, <2>6 DEF CallOK
    <2> QED
      BY <2>1, <2>2, <2>5, <2>7, TabStep
  <1>6. ASSUME NEW c \in Call, Spend(c) PROVE SessionsInv'
    <2> DEFINE n == call[c].token
               to == IF Live(n) THEN "issue" ELSE "refused"
    <2>1. /\ CallGoto(c, "spend", to) /\ row' = [row EXCEPT ![n] = "revoked"]
          /\ UNCHANGED <<runtime, session, stored, answered, ended>>
      BY <1>6 DEF Spend
    <2>2. to \in Final \cup {"begin", "spend", "issue", "revoke"}
      BY DEF Final
    <2> HIDE DEF to
    <2>3. /\ call[c].at = "spend" /\ call' \in [Call -> CallRecord]
          /\ \A d \in Call : d # c => call'[d] = call[d]
          /\ \/ call'[c] = Free
             \/ /\ call'[c].at = to /\ call'[c].kind = call[c].kind
                /\ call'[c].token = call[c].token /\ call'[c].new = call[c].new
      BY <2>1, <2>2, GotoEffect
    <2>4. n \in Used /\ n # None /\ call[c].kind = "refresh" /\ call[c].new \in Used \cup {None}
      BY <2>3 DEF CallOK
    <2> HIDE DEF n
    <2>5. ended' \subseteq Used
      BY <2>1 DEF Issued
    <2>6. /\ Used' = Used /\ Ages /\ row'[n] = "revoked"
          /\ \A m \in Token : row'[m] = "live" => m # n /\ row[m] = "live"
          /\ Typed' /\ Numbered' /\ Issued'
      BY <2>1, <2>3, <2>4, <2>5, Revokes
    <2>7. CallOK(c)'
      <3>1. CASE call'[c] = Free
        BY <2>6, <3>1, CallStays
      <3>2. CASE call'[c] # Free
        BY <2>3, <2>4, <2>6, <3>2 DEF CallOK, to, n
      <3> QED
        BY <3>1, <3>2
    <2>8. \A d \in Call : CallOK(d)'
      BY <2>3, <2>6, <2>7, CallStays
    <2>9. \A d \in Call : Holder(d)' =>
             \/ Holder(d) /\ call'[d].token = call[d].token
             \/ d = c /\ row[n] = "live" /\ call'[d].token = n
      BY <2>3 DEF Holder, Free, to, Live, n
    <2>10. OneClaim'
      BY <1>0, <2>1, <2>4, <2>6, <2>9 DEF OneClaim
    <2> QED
      BY <2>6, <2>8, <2>10
  <1>7. ASSUME NEW c \in Call, RevokeOld(c) PROVE SessionsInv'
    <2> DEFINE n == call[c].token
    <2>1. /\ CallGoto(c, "revoke", "answered") /\ row' = [row EXCEPT ![n] = "revoked"]
          /\ UNCHANGED <<runtime, session, stored, answered, ended>>
      BY <1>7 DEF RevokeOld
    <2>2. "answered" \in Final
      BY DEF Final
    <2>3. /\ call[c].at = "revoke" /\ call' \in [Call -> CallRecord]
          /\ \A d \in Call : d # c => call'[d] = call[d]
          /\ \/ call'[c] = Free
             \/ /\ call'[c].at = "answered" /\ call'[c].kind = call[c].kind
                /\ call'[c].token = call[c].token /\ call'[c].new = call[c].new
      BY <2>1, <2>2, GotoEffect
    <2>4. n \in Used /\ n # None /\ call[c].kind = "refresh" /\ call[c].new \in Used \cup {None}
      BY <2>3 DEF CallOK
    <2> HIDE DEF n
    <2>5. ended' \subseteq Used
      BY <2>1 DEF Issued
    <2>6. /\ Used' = Used /\ Ages /\ row'[n] = "revoked"
          /\ \A m \in Token : row'[m] = "live" => m # n /\ row[m] = "live"
          /\ Typed' /\ Numbered' /\ Issued'
      BY <2>1, <2>3, <2>4, <2>5, Revokes
    <2>7. CallOK(c)'
      <3>1. CASE call'[c] = Free
        BY <2>6, <3>1, CallStays
      <3>2. CASE call'[c] # Free
        BY <2>3, <2>4, <2>6, <3>2 DEF CallOK, n
      <3> QED
        BY <3>1, <3>2
    <2>8. \A d \in Call : CallOK(d)'
      BY <2>3, <2>6, <2>7, CallStays
    <2>9. \A d \in Call : Holder(d)' => Holder(d) /\ call'[d].token = call[d].token
      BY <2>3 DEF Holder, Free
    <2>10. OneClaim'
      BY <1>0, <2>1, <2>6, <2>9 DEF OneClaim
    <2> QED
      BY <2>6, <2>8, <2>10
  <1>8. ASSUME NEW c \in Call, EndSession(c) PROVE SessionsInv'
    <2> DEFINE n == call[c].token
    <2>1. /\ CallGoto(c, "begin", "answered") /\ row' = [row EXCEPT ![n] = "revoked"]
          /\ UNCHANGED <<runtime, session, stored, answered>> /\ ended' = ended \cup Revoked(n)
      BY <1>8 DEF EndSession
    <2>2. "answered" \in Final
      BY DEF Final
    <2>3. /\ call[c].at = "begin" /\ call' \in [Call -> CallRecord]
          /\ \A d \in Call : d # c => call'[d] = call[d]
          /\ \/ call'[c] = Free
             \/ /\ call'[c].at = "answered" /\ call'[c].kind = call[c].kind
                /\ call'[c].token = call[c].token /\ call'[c].new = call[c].new
      BY <2>1, <2>2, GotoEffect
    <2>4. n \in Used /\ n # None /\ call[c].new \in Used \cup {None}
      BY <2>3 DEF CallOK
    <2> HIDE DEF n
    <2>5. ended' \subseteq Used
      BY <2>1, <2>4 DEF Issued, Revoked
    <2>6. /\ Used' = Used /\ Ages /\ row'[n] = "revoked"
          /\ \A m \in Token : row'[m] = "live" => m # n /\ row[m] = "live"
          /\ Typed' /\ Numbered' /\ Issued'
      BY <2>1, <2>3, <2>4, <2>5, Revokes
    <2>7. CallOK(c)'
      <3>1. CASE call'[c] = Free
        BY <2>6, <3>1, CallStays
      <3>2. CASE call'[c] # Free
        BY <2>3, <2>4, <2>6, <3>2 DEF CallOK, n
      <3> QED
        BY <3>1, <3>2
    <2>8. \A d \in Call : CallOK(d)'
      BY <2>3, <2>6, <2>7, CallStays
    <2>9. \A d \in Call : Holder(d)' => Holder(d) /\ call'[d].token = call[d].token
      BY <2>3 DEF Holder, Free
    <2>10. OneClaim'
      BY <1>0, <2>1, <2>4, <2>6, <2>9 DEF OneClaim, Revoked, Live
    <2> QED
      BY <2>6, <2>8, <2>10
  <1>9. ASSUME NEW c \in Call, Issue(c) PROVE SessionsInv'
    <2> DEFINE old     == call[c].token
               new     == Fresh
               refresh == call[c].kind = "refresh"
               of      == IF refresh THEN session[old] ELSE new
               at      == IF refresh /\ runtime = "backend" THEN "revoke" ELSE "answered"
               state   == [call[c] EXCEPT !.new = new, !.at = at]
    <2>1. /\ call[c].at = "issue" /\ new \in Token /\ Put(c, state)
          /\ row' = [row EXCEPT ![new] = "live"] /\ session' = [session EXCEPT ![new] = of]
          /\ UNCHANGED <<runtime, stored, answered, ended>>
      BY <1>9 DEF Issue, issueTokenPair
    <2>2. new \notin Used /\ row[new] = "none" /\ \E k \in 0..MaxToken : Used \cup {new} = 1..k
      BY <2>1, FreshIsNew
    <2>3. /\ state \in CallRecord /\ state.at = at /\ state.new = new
          /\ state.kind = call[c].kind /\ state.token = old
      <3>1. call[c] \in CallRecord /\ new \in Nat /\ at \in Final \cup {"begin", "spend", "issue", "revoke"}
        BY <2>1 DEF Typed, Final
      <3> HIDE DEF new, at
      <3> QED
        BY <3>1 DEF CallRecord
    <2>4. old \in Used \cup {None} /\ (refresh => old \in Used /\ session[old] \in Used)
      BY <2>1 DEF CallOK, Issued
    <2>4a. of \in Used \cup {new} /\ of \in Nat
      BY <1>0, <2>1, <2>4
    <2>4b. runtime = "worker" /\ refresh => row[old] = "revoked" /\ Holder(c)
      BY <2>1 DEF CallOK, Holder
    <2>4c. ~refresh => old = None
      BY <2>1 DEF CallOK
    <2> HIDE DEF new, state, of
    <2>5. /\ call' \in [Call -> CallRecord]
          /\ call'[c] \in {state, Free} /\ \A d \in Call : d # c => call'[d] = call[d]
      BY <2>1, <2>3, PutEffect
    <2>6. /\ \A m \in Token : row'[m] = IF m = new THEN "live" ELSE row[m]
          /\ \A m \in Token : session'[m] = IF m = new THEN of ELSE session[m]
      BY <2>1 DEF Typed
    <2>7. Used' = Used \cup {new}
      BY <2>1, <2>6 DEF Used
    <2>8. Ages
      BY <2>1, <2>2, <2>6, <2>7 DEF Ages
    <2>9. Typed' /\ Numbered'
      BY <2>1, <2>2, <2>4a, <2>5, <2>7 DEF Typed, Rows, Numbered
    <2>10. Issued'
      BY <1>0, <2>1, <2>2, <2>4a, <2>6, <2>7 DEF Issued
    <2>11. CallOK(c)'
      <3>1. CASE call'[c] = Free
        BY <2>8, <3>1, CallStays
      <3>2. CASE call'[c] = state
        BY <1>0, <2>1, <2>2, <2>3, <2>4, <2>4b, <2>4c, <2>6, <2>7, <3>2, SMTT(30) DEF CallOK, Typed
      <3> QED
        BY <2>5, <3>1, <3>2
    <2>12. \A d \in Call : CallOK(d)'
      BY <2>5, <2>8, <2>11, CallStays
    <2>13. \A d \in Call : Holder(d)' => d # c /\ Holder(d) /\ call'[d].token = call[d].token
      BY <2>3, <2>5 DEF Holder, Free
    <2>14. \A d \in Call : Holder(d) => call[d].token \in Used
      BY DEF Holder, CallOK
    <2>15. OneClaim'
      <3> SUFFICES ASSUME runtime = "worker" PROVE OneClaim'
        BY <2>1 DEF OneClaim
      <3>1. /\ \A n \in Token : row[n] = "live" => session[n] # of
            /\ \A d \in Call : d # c /\ Holder(d) => session[call[d].token] # of
            /\ of \notin ended
        <4>1. CASE refresh
          BY <1>0, <2>4, <2>4b, <4>1 DEF OneClaim, of
        <4>2. CASE ~refresh
          <5>1. of = new
            BY <4>2 DEF of
          <5>2. \A n \in Token : row[n] = "live" => n \in Used
            BY DEF Used
          <5> QED
            BY <2>2, <2>14, <5>1, <5>2 DEF Issued
        <4> QED
          BY <4>1, <4>2
      <3>2. \A n \in Token : row'[n] = "live" => n = new \/ (row[n] = "live" /\ n # new)
        BY <2>6
      <3>3. \A d \in Call : Holder(d)' => session'[call'[d].token] = session[call[d].token]
        BY <1>0, <2>2, <2>6, <2>13, <2>14
      <3>4. \A d \in Call : Holder(d)' => session[call[d].token] # of
        BY <2>13, <3>1
      <3>5. \A m, n \in Token : row'[m] = "live" /\ row'[n] = "live" /\ session'[m] = session'[n] => m = n
        BY <2>1, <2>6, <3>1, <3>2 DEF OneClaim
      <3>6. \A d \in Call, n \in Token : Holder(d)' /\ row'[n] = "live" => session'[n] # session'[call'[d].token]
        BY <2>1, <2>6, <2>13, <3>2, <3>3, <3>4 DEF OneClaim
      <3>7. \A d, e \in Call : Holder(d)' /\ Holder(e)' /\ session'[call'[d].token] = session'[call'[e].token] => d = e
        BY <2>13, <3>3 DEF OneClaim
      <3>8. \A n \in Token : row'[n] = "live" => session'[n] \notin ended'
        BY <2>1, <2>6, <3>1, <3>2 DEF OneClaim
      <3>9. \A d \in Call : Holder(d)' => session'[call'[d].token] \notin ended'
        BY <2>1, <2>13, <3>3 DEF OneClaim
      <3> QED
        BY <3>5, <3>6, <3>7, <3>8, <3>9 DEF OneClaim
    <2> QED
      BY <2>9, <2>10, <2>12, <2>15
  <1>10. CASE UNCHANGED vars
    BY <1>0, <1>10, TabStep DEF Typed
  <1> QED
    BY <1>1, <1>2, <1>3, <1>4, <1>5, <1>6, <1>7, <1>8, <1>9, <1>10 DEF Next, Serve, Refresh, Settle

----------------------------------------------------------------------------
(* What is stored *)

\* Without a fault every request is awaited, and what it answers is stored in
\* the end. Until then no one else knows the token it has issued, and a stored
\* token that is spent is that of a request.
Kept ==
  faults \in Nat /\ (faults = 0 =>
    /\ \A c \in Call : call[c] # Free => Awaited(c) /\ call[c].at # "lost"
    /\ \A c \in Call : call[c].new # None =>
         /\ row[call[c].new] = "live" /\ stored # call[c].new
         /\ \A d \in Call : call[d].token # call[c].new /\ (d # c => call[d].new # call[c].new)
    /\ \A c \in Call : call[c].kind = "signin" => call[c].token = None
    /\ stored = None \/ row[stored] = "live" \/ \E c \in Call : call[c].token = stored)

\* A step of the API's on an awaited request that issues nothing: it may spend its token.
LEMMA ServedKept ==
  ASSUME SessionsInv, Kept, NEW c \in Call, NEW to \in Final \cup {"begin", "spend", "issue", "revoke"}, to # "lost",
         CallGoto(c, call[c].at, to), call[c] # Free,
         row' = row \/ (call[c].token \in Used /\ row' = [row EXCEPT ![call[c].token] = "revoked"]),
         UNCHANGED <<stored, refreshing, button, faults>>
  PROVE  Kept'
  <1> SUFFICES ASSUME faults = 0 PROVE Kept'
    BY DEF Kept
  <1>1. call[c] \in CallRecord /\ call \in [Call -> CallRecord] /\ row \in [Token -> Rows] /\ Used \subseteq Token
    BY DEF SessionsInv, Typed, Used
  <1>2. Awaited(c)
    BY DEF Kept
  <1>3. call' = [call EXCEPT ![c] = [call[c] EXCEPT !.at = to]]
    BY <1>2 DEF CallGoto, Put
  <1>4. /\ call'[c].at = to /\ call'[c].new = call[c].new /\ call'[c].token = call[c].token
        /\ \A d \in Call : d # c => call'[d] = call[d]
    BY <1>1, <1>3 DEF CallRecord
  <1>5. \A d \in Call : /\ call'[d].new = call[d].new /\ call'[d].token = call[d].token
                        /\ call'[d].kind = call[d].kind
    BY <1>1, <1>3, <1>4 DEF CallRecord
  <1>5a. \A d \in Call : call'[d].kind = "signin" => call'[d].token = None
    BY <1>5 DEF Kept
  <1>6. \A d \in Call : call'[d] # Free => Awaited(d)' /\ call'[d].at # "lost"
    BY <1>2, <1>4 DEF Kept, Awaited
  <1>7. \A n \in Token : row'[n] = row[n] \/ n = call[c].token
    BY <1>1
  <1>8. ASSUME NEW d \in Call, call'[d].new # None
        PROVE  /\ row'[call'[d].new] = "live" /\ stored' # call'[d].new
               /\ \A e \in Call : call'[e].token # call'[d].new /\ (e # d => call'[e].new # call'[d].new)
    <2>1. call[d].new # None
      BY <1>5, <1>8
    <2>2. call[d].new \in Token
      BY <1>1, <2>1 DEF SessionsInv, CallOK
    <2>3. /\ row[call[d].new] = "live" /\ stored # call[d].new
          /\ \A e \in Call : call[e].token # call[d].new /\ (e # d => call[e].new # call[d].new)
      BY <2>1 DEF Kept
    <2>4. call'[d].new = call[d].new /\ row'[call[d].new] = row[call[d].new]
      BY <1>5, <1>7, <2>2, <2>3
    <2>5. \A e \in Call : call'[e].token # call[d].new /\ (e # d => call'[e].new # call[d].new)
      BY <1>5, <2>3
    <2> QED
      BY <2>3, <2>4, <2>5
  <1>9. stored' = None \/ row'[stored'] = "live" \/ \E d \in Call : call'[d].token = stored'
    <2>1. stored \in Token \cup {None}
      BY <1>1 DEF SessionsInv, Issued
    <2>2. stored = None \/ row[stored] = "live" \/ \E d \in Call : call[d].token = stored
      BY DEF Kept
    <2>3. stored # None => row'[stored] = row[stored] \/ stored = call[c].token
      BY <1>7, <2>1
    <2> QED
      BY <1>5, <2>2, <2>3
  <1> QED
    BY <1>5a, <1>6, <1>8, <1>9 DEF Kept

LEMMA IssuedKept ==
  ASSUME SessionsInv, Kept, NEW c \in Call, Issue(c) PROVE Kept'
  <1> SUFFICES ASSUME faults = 0 PROVE Kept'
    BY DEF Kept, Issue
  <1> DEFINE new == Fresh
             at  == IF call[c].kind = "refresh" /\ runtime = "backend" THEN "revoke" ELSE "answered"
  <1>1. /\ call[c].at = "issue" /\ new \in Token /\ Put(c, [call[c] EXCEPT !.new = new, !.at = at])
        /\ row' = [row EXCEPT ![new] = "live"]
        /\ UNCHANGED <<stored, refreshing, button, faults>>
    BY DEF Issue, issueTokenPair
  <1>2. new \notin Used /\ at \in {"revoke", "answered"} /\ Used \subseteq Token /\ new # None
    BY <1>1, FreshIsNew DEF SessionsInv, Used
  <1> HIDE DEF new, at
  <1>3. call[c] \in CallRecord /\ call \in [Call -> CallRecord] /\ row \in [Token -> Rows] /\ call[c] # Free
    BY <1>1 DEF SessionsInv, Typed, Free
  <1>4. Awaited(c)
    BY <1>3 DEF Kept
  <1>5. call' = [call EXCEPT ![c] = [call[c] EXCEPT !.new = new, !.at = at]]
    BY <1>1, <1>4 DEF Put
  <1>6. /\ call'[c].at = at /\ call'[c].new = new /\ call'[c].token = call[c].token /\ call'[c].kind = call[c].kind
        /\ \A d \in Call : d # c => call'[d] = call[d]
    BY <1>3, <1>5 DEF CallRecord
  <1>7. \A d \in Call : call[d].token # new /\ call[d].new # new
    BY <1>2 DEF SessionsInv, CallOK
  <1>8. stored \in Used \cup {None} /\ stored # new
    BY <1>2 DEF SessionsInv, Issued
  <1>9. \A n \in Token : row'[n] = IF n = new THEN "live" ELSE row[n]
    BY <1>3, <1>1
  <1>10. \A d \in Call : call'[d] # Free => Awaited(d)' /\ call'[d].at # "lost"
    BY <1>1, <1>2, <1>4, <1>6 DEF Kept, Awaited
  <1>11. ASSUME NEW d \in Call, call'[d].new # None
         PROVE  /\ row'[call'[d].new] = "live" /\ stored' # call'[d].new
                /\ \A e \in Call : call'[e].token # call'[d].new /\ (e # d => call'[e].new # call'[d].new)
    <2>1. \A e \in Call : call'[e].token = call[e].token
      BY <1>6
    <2>2. CASE d = c
      BY <1>1, <1>6, <1>7, <1>8, <1>9, <2>1, <2>2
    <2>3. CASE d # c
      <3>1. call'[d].new = call[d].new /\ call[d].new \in Token
        BY <1>2, <1>6, <1>11, <2>3 DEF SessionsInv, CallOK
      <3> QED
        BY <1>1, <1>6, <1>7, <1>9, <1>11, <2>1, <2>3, <3>1 DEF Kept
    <2> QED
      BY <2>2, <2>3
  <1>12. stored' = None \/ row'[stored'] = "live" \/ \E d \in Call : call'[d].token = stored'
    BY <1>1, <1>2, <1>6, <1>8, <1>9 DEF Kept
  <1>13. \A d \in Call : call'[d].kind = "signin" => call'[d].token = None
    BY <1>6 DEF Kept
  <1> QED
    BY <1>1, <1>6, <1>10, <1>11, <1>12, <1>13 DEF Kept

\* A tab sends a request, and awaits it.
LEMMA SentKept ==
  ASSUME SessionsInv, Awaiting, Kept, NEW t \in Tab,
         Open(t) \/ Unauthorized(t) \/ SignOut(t) \/ SignIn(t)
  PROVE  Kept'
  <1> SUFFICES ASSUME faults = 0 PROVE Kept'
    BY DEF Kept, Open, Unauthorized, SignOut, SignIn
  <1>1. /\ UNCHANGED <<row, faults>> /\ stored' \in {stored, None}
    BY DEF Open, Unauthorized, SignOut, SignIn, Clear
  <1>2. \/ UNCHANGED <<call, refreshing, button>>
        \/ \E c \in Call :
             /\ \/ Send(c, "refresh", stored) \/ Send(c, "signout", stored)
                \/ Send(c, "signin", None) \/ GuardRefuses(c)
             /\ \/ refreshing[t] = None /\ refreshing' = [refreshing EXCEPT ![t] = c] /\ button' = button
                \/ button[t] = None /\ button' = [button EXCEPT ![t] = c] /\ refreshing' = refreshing
    BY DEF Open, Unauthorized, SignOut, SignIn
  <1>3. CASE UNCHANGED <<call, refreshing, button>>
    BY <1>1, <1>3 DEF Kept, Awaited
  <1>4. ASSUME NEW c \in Call,
               \/ Send(c, "refresh", stored) \/ Send(c, "signout", stored)
               \/ Send(c, "signin", None) \/ GuardRefuses(c),
               \/ refreshing[t] = None /\ refreshing' = [refreshing EXCEPT ![t] = c] /\ button' = button
               \/ button[t] = None /\ button' = [button EXCEPT ![t] = c] /\ refreshing' = refreshing
        PROVE  Kept'
    <2>1. /\ call[c] = Free /\ call'[c].new = None /\ call'[c].at # "lost" /\ call'[c].token \in {stored, None}
          /\ call'[c].kind = "signin" => call'[c].token = None
          /\ \A d \in Call : d # c => call'[d] = call[d]
      <3>1. call[c] = Free /\ call \in [Call -> CallRecord]
        BY <1>4 DEF Send, GuardRefuses, FirstFree, SessionsInv, Typed
      <3>2. ASSUME NEW kind \in {"refresh", "signout", "signin"}, NEW token, Send(c, kind, token)
            PROVE  /\ call'[c].new = None /\ call'[c].at # "lost" /\ call'[c].token = token /\ call'[c].kind = kind
                   /\ \A d \in Call : d # c => call'[d] = call[d]
        BY <3>1, <3>2 DEF Send
      <3>3. CASE GuardRefuses(c)
        BY <3>1, <3>3 DEF GuardRefuses, Free
      <3> QED
        BY <1>4, <3>1, <3>2, <3>3
    <2>2. \A d \in Call : d = c \/ Awaited(d) => Awaited(d)'
      BY <1>4 DEF Awaited, Awaiting
    <2>3. \A d \in Call : call'[d] # Free => Awaited(d)' /\ call'[d].at # "lost"
      BY <2>1, <2>2 DEF Kept
    <2>4. ASSUME NEW d \in Call, call'[d].new # None
          PROVE  /\ row'[call'[d].new] = "live" /\ stored' # call'[d].new
                 /\ \A e \in Call : call'[e].token # call'[d].new /\ (e # d => call'[e].new # call'[d].new)
      BY <1>1, <2>1, <2>4 DEF Kept
    <2>5. stored' = None \/ row'[stored'] = "live" \/ \E d \in Call : call'[d].token = stored'
      <3>1. CASE stored = None \/ row[stored] = "live"
        BY <1>1, <3>1
      <3>2. ASSUME NEW d \in Call, call[d].token = stored, stored # None PROVE call'[d].token = stored
        <4>1. call[c].token = None
          BY <2>1 DEF Free
        <4>2. d # c
          BY <3>2, <4>1
        <4> QED
          BY <2>1, <3>2, <4>2
      <3> QED
        BY <1>1, <3>1, <3>2 DEF Kept
    <2> QED
      BY <1>1, <2>1, <2>3, <2>4, <2>5 DEF Kept
  <1> QED
    BY <1>2, <1>3, <1>4

\* A tab takes an answer: what it stores, if it stores anything, is live.
LEMMA SettledKept ==
  ASSUME SessionsInv, Awaiting, Kept, NEW t \in Tab, RefreshSettled(t) \/ ButtonSettled(t) PROVE Kept'
  <1> SUFFICES ASSUME faults = 0 PROVE Kept'
    BY DEF Kept, RefreshSettled, ButtonSettled
  <1>1. UNCHANGED <<row, faults>>
    BY DEF RefreshSettled, ButtonSettled
  <1>2. PICK c \in Call :
          /\ \/ refreshing[t] = c /\ refreshing' = [refreshing EXCEPT ![t] = None] /\ button' = button
             \/ button[t] = c /\ button' = [button EXCEPT ![t] = None] /\ refreshing' = refreshing
          /\ Forget({c}) /\ call[c].at \in Final
          /\ \/ stored' \in {None, call[c].new}
             \/ stored' = stored /\ call[c].kind = "signin"
    <2>1. refreshing[t] \in Call \cup {None} /\ button[t] \in Call \cup {None}
      BY DEF Awaiting
    <2>2. \A c \in Call : call[c].at # "lost"
      BY DEF Kept, Free
    <2> QED
      BY <2>1, <2>2 DEF RefreshSettled, ButtonSettled, Signed, Clear, Final
  <1>3. call'[c] = Free /\ \A d \in Call : d # c => call'[d] = call[d]
    BY <1>2 DEF Forget
  <1>4. \A d \in Call : d # c /\ Awaited(d) => Awaited(d)'
    BY <1>2 DEF Awaited, Awaiting
  <1>5. \A d \in Call : call'[d] # Free => Awaited(d)' /\ call'[d].at # "lost"
    BY <1>3, <1>4 DEF Kept
  <1>6. ASSUME NEW d \in Call, call'[d].new # None
        PROVE  /\ row'[call'[d].new] = "live" /\ stored' # call'[d].new
               /\ \A e \in Call : call'[e].token # call'[d].new /\ (e # d => call'[e].new # call'[d].new)
    <2>1. call'[c].new = None /\ call'[c].token = None
      BY <1>3 DEF Free
    <2>2. call'[d] = call[d] /\ call[d].new # None /\ d # c
      BY <1>3, <1>6, <2>1
    <2>3. /\ row[call[d].new] = "live" /\ stored # call[d].new
          /\ \A e \in Call : call[e].token # call[d].new /\ (e # d => call[e].new # call[d].new)
      BY <2>2 DEF Kept
    <2>4. stored' # call[d].new
      BY <1>2, <2>2, <2>3
    <2>5. \A e \in Call : call'[e].token # call[d].new /\ (e # d => call'[e].new # call[d].new)
      BY <1>3, <2>1, <2>2, <2>3
    <2> QED
      BY <1>1, <2>2, <2>3, <2>4, <2>5
  <1>7. stored' = None \/ row'[stored'] = "live" \/ \E d \in Call : call'[d].token = stored'
    <2>1. CASE stored' \in {None, call[c].new}
      BY <1>1, <2>1 DEF Kept
    <2>2. CASE stored' = stored /\ call[c].kind = "signin"
      BY <1>1, <1>3, <2>2 DEF Kept, Free
    <2> QED
      BY <1>2, <2>1, <2>2
  <1> QED
    BY <1>1, <1>3, <1>5, <1>6, <1>7 DEF Kept, Free

LEMMA StepKept == Awaiting /\ SessionsInv /\ Kept /\ [Next]_vars => Kept'
  <1> SUFFICES ASSUME Awaiting, SessionsInv, Kept, [Next]_vars PROVE Kept'
    OBVIOUS
  <1>1. ASSUME NEW c \in Call, Serve(c) PROVE Kept'
    <2>1. CASE Find(c)
      <3>1. \E to \in {"refused", "spend", "issue"} : CallGoto(c, "begin", to)
        BY <2>1 DEF Find
      <3>2. PICK to \in Final \cup {"begin", "spend", "issue", "revoke"} : to # "lost" /\ CallGoto(c, call[c].at, to)
        BY <3>1 DEF CallGoto, Final
      <3>3. call[c].at = "begin" /\ UNCHANGED <<row, stored, refreshing, button, faults>>
        BY <2>1 DEF Find, CallGoto
      <3> QED
        BY <3>2, <3>3, ServedKept DEF Free
    <2>2. CASE Spend(c) \/ RevokeOld(c) \/ EndSession(c)
      <3>1. \E to \in {"issue", "refused", "answered"} : CallGoto(c, call[c].at, to)
        BY <2>2 DEF Spend, RevokeOld, EndSession, CallGoto
      <3>2. PICK to \in Final \cup {"begin", "spend", "issue", "revoke"} : to # "lost" /\ CallGoto(c, call[c].at, to)
        BY <3>1 DEF Final
      <3>3. /\ call[c].at \in {"spend", "revoke", "begin"} /\ row' = [row EXCEPT ![call[c].token] = "revoked"]
            /\ UNCHANGED <<stored, refreshing, button, faults>>
        BY <2>2 DEF Spend, RevokeOld, EndSession, CallGoto
      <3>4. call[c].token \in Used
        BY <3>3 DEF SessionsInv, CallOK
      <3>5. /\ call[c] # Free /\ call[c].token \in Used /\ row' = [row EXCEPT ![call[c].token] = "revoked"]
            /\ UNCHANGED <<stored, refreshing, button, faults>>
        BY <3>3, <3>4 DEF Free
      <3> QED
        BY <3>2, <3>5, ServedKept
    <2> QED
      BY <1>1, <2>1, <2>2, IssuedKept DEF Serve, Refresh
  <1>2. ASSUME NEW c \in Call, LoseCall(c) PROVE Kept'
    BY <1>2 DEF LoseCall, Kept, Awaiting
  <1>3. ASSUME NEW t \in Tab, Leave(t) \/ ConnectionLost(t) PROVE Kept'
    BY <1>3 DEF Leave, ConnectionLost, Kept, Awaiting
  <1>4. CASE UNCHANGED vars
    BY <1>4 DEF Kept, Awaited
  <1> QED
    BY <1>1, <1>2, <1>3, <1>4, SentKept, SettledKept DEF Next, Settle

----------------------------------------------------------------------------
(* Theorems *)

\* What is left of the tokens, the requests and the tabs after any step is in
\* the invariant (session.ts refresh, logout; auth.service.ts refresh, logout).
THEOREM SessionsInvariant == Spec => [](Awaiting /\ SessionsInv)
  <1>1. Init => Awaiting
    BY DEF Init, Awaiting
  <1> QED
    BY <1>1, InitInv, StepInv, AwaitingStep, PTL DEF Spec

\* "when two refreshes race on one token, exactly one sees a change and
\* continues" (session.ts refresh): the Worker never has two live tokens of one
\* sign-in, however many requests hold one of them.
THEOREM OneTokenASession == Spec => []OneLivePerSession
  <1>1. SessionsInv => OneLivePerSession
    BY DEF SessionsInv, OneClaim, OneLivePerSession
  <1> QED
    BY <1>1, SessionsInvariant, PTL

\* A sign-out that found its token live ends the session in the Worker: a
\* refresh of it that is under way has nothing left to issue from (session.ts
\* logout).
THEOREM SignedOutForGood == Spec => []SignOutEndsSession
  <1>1. SessionsInv => SignOutEndsSession
    BY DEF SessionsInv, Typed, Rows, OneClaim, SignOutEndsSession
  <1> QED
    BY <1>1, SessionsInvariant, PTL

\* A token whose refresh was answered gets no second answer, in either runtime
\* (session.ts refresh; auth.service.ts refresh).
THEOREM AnsweredIsSpent == Spec => NoReplay
  <1>1. SessionsInv /\ [Next]_vars => [\A c \in Call : call[c].at = "begin" /\ call'[c].at \in {"spend", "issue"}
                                          => call[c].token \notin answered]_vars
    <2> SUFFICES ASSUME SessionsInv, [Next]_vars, NEW c \in Call,
                        call[c].at = "begin", call'[c].at \in {"spend", "issue"}
                 PROVE  call[c].token \notin answered
      OBVIOUS
    <2>1. call[c].token \in Used /\ call[c].token # None /\ Used \subseteq Token
      BY DEF SessionsInv, CallOK, Used
    <2>2. CASE Live(call[c].token)
      BY <2>1, <2>2 DEF SessionsInv, Issued, Live
    <2>3. CASE Find(c) /\ ~Live(call[c].token)
      <3>1. call'[c].at \in {"refused", "free"}
        BY <2>3 DEF Find, CallGoto, Put, Free, SessionsInv, Typed, CallRecord
      <3> QED
        BY <3>1
    <2>4. ASSUME NEW d \in Call, ~(d = c /\ Find(c)), Serve(d) \/ LoseCall(d) PROVE FALSE
      <3>1. d # c => call'[c] = call[c]
        BY <2>4 DEF Serve, Refresh, Find, Spend, Issue, RevokeOld, EndSession, LoseCall, CallGoto, Put,
                    SessionsInv, Typed
      <3>2. EndSession(c) \/ LoseCall(c)
        BY <2>4, <3>1 DEF Serve, Refresh, Spend, Issue, RevokeOld, CallGoto
      <3>3. call'[c].at \in {"answered", "lost", "free"}
        BY <3>2 DEF EndSession, LoseCall, CallGoto, Put, Free, SessionsInv, Typed, CallRecord
      <3> QED
        BY <3>3
    <2>5. ASSUME NEW t \in Tab, Settle(t) \/ ConnectionLost(t) \/ Open(t) \/ Leave(t) \/ SignIn(t) \/ Unauthorized(t) \/ SignOut(t)
          PROVE  FALSE
      <3>1. \/ call' = call
            \/ \E C : Forget(C)
            \/ \E d \in Call : \/ Send(d, "refresh", stored) \/ Send(d, "signout", stored)
                               \/ Send(d, "signin", None) \/ GuardRefuses(d)
        BY <2>5 DEF Settle, RefreshSettled, ButtonSettled, ConnectionLost, Open, Leave, SignIn, Unauthorized, SignOut
      <3>2. call[c] # Free
        BY DEF Free
      <3>3. call'[c] \in {call[c], Free}
        BY <3>1, <3>2 DEF Forget, Send, GuardRefuses, FirstFree, SessionsInv, Typed
      <3> QED
        BY <3>3 DEF Free
    <2> QED
      BY <2>2, <2>3, <2>4, <2>5 DEF Next
  <1> QED
    BY <1>1, SessionsInvariant, PTL DEF Spec, NoReplay

\* Whichever tabs refresh, sign in and sign out at once: when no request is left
\* under way, what localStorage holds is nothing or a live token, unless an answer
\* was lost (api-client.ts refreshSession, logout).
THEOREM LiveTokenStored == Spec => []StoredIsLive
  <1>1. Init => Kept
    BY DEF Init, Kept, Free
  <1>2. Awaiting /\ Kept => StoredIsLive
    <2> SUFFICES ASSUME Awaiting, Kept, faults = 0, \A t \in Tab : refreshing[t] = None /\ button[t] = None
                 PROVE  stored = None \/ row[stored] = "live"
      BY DEF StoredIsLive
    <2>1. \A c \in Call : call[c] = Free
      BY DEF Kept, Awaited
    <2> QED
      BY <2>1 DEF Kept, Free
  <1> QED
    BY <1>1, <1>2, StepKept, SessionsInvariant, PTL DEF Spec

=============================================================================
