----------------------------- MODULE EditingProofs -----------------------------
(***************************************************************************)
(* What holds of Editing for any users, workflows, steps and requests: the *)
(* secrets of triggers, deleted workflows, the order of steps, and copies. *)
(***************************************************************************)
EXTENDS Editing, FiniteSetTheorems, TLAPS

USE EditingAssumption DEF EditingAssumption, None
USE DEF vars, rows

----------------------------------------------------------------------------
(* The inductive invariant *)

TriggerRecord == [type : TriggerType \cup {None}, secret : Nat]
Places        == {"read", "readTrigger", "readSteps", "readLast", "write"}

Typed ==
  /\ owner \in [Flow -> User \cup {None}] /\ status \in [Flow -> WorkflowStatus]
  /\ trigger \in [Flow -> TriggerRecord] /\ secrets \in Nat
  /\ req = [r \in Request |-> req[r]]

\* A trigger, stored or read: WEBHOOK with a secret that was drawn, or none.
Sound(t) == t \in TriggerRecord /\ t.secret <= secrets /\ (t.type = "WEBHOOK" <=> t.secret # 0)

\* An id without a workflow has no trigger.
Stored(f) == Sound(trigger[f]) /\ (owner[f] = None => trigger[f] = NoTrigger)

AskOK(ask) ==
  /\ ask.op = "saveTrigger" => ask.type \in TriggerType
  /\ ask.op \in {"setStatus", "create"} => ask.to \in WorkflowStatus

\* A request in flight, on a workflow of its caller.
InForm(q) ==
  /\ q = [at |-> q.at, ask |-> q.ask, flow |-> q.flow, caller |-> q.caller, trigger |-> q.trigger, steps |-> q.steps]
  /\ q.at \in Places /\ q.flow \in Flow /\ q.caller \in User /\ AskOK(q.ask)
  /\ q.ask.op # "create" => owner[q.flow] = q.caller
  /\ q.at \in {"readTrigger", "readSteps", "readLast"} => q.ask.op = "clone"

Busy(r)  == req[r].at \in Places
Begun(r) == req[r] \in {Idle, Finished} \/ (InForm(req[r]) /\ Sound(req[r].trigger))

\* What it has read still holds when it writes, unless another edit came between.
UpToDate(r) ==
  Busy(r) /\ r \notin overlapped /\ req[r].at = "write" =>
    /\ req[r].ask.op = "saveTrigger" => req[r].trigger = trigger[req[r].flow]
    /\ req[r].ask.op = "setStatus" => status[req[r].flow] # "ARCHIVED"

\* A secret belongs to one workflow, that of whichever save still holds it as well.
Saves(r) == Busy(r) /\ req[r].ask.op = "saveTrigger"
Apart ==
  /\ \A f, g \in Flow : f # g /\ trigger[f].secret = trigger[g].secret => trigger[f].secret = 0
  /\ \A r \in Request, f \in Flow :
       Saves(r) /\ f # req[r].flow /\ trigger[f].secret = req[r].trigger.secret => trigger[f].secret = 0
  /\ \A r, s \in Request :
       Saves(r) /\ Saves(s) /\ req[r].flow # req[s].flow /\ req[r].trigger.secret = req[s].trigger.secret
         => req[r].trigger.secret = 0

EditInv ==
  /\ Typed /\ Apart /\ \A f \in Flow : Stored(f)
  /\ \A r \in Request : Begun(r) /\ UpToDate(r)

----------------------------------------------------------------------------
(* Steps *)

LEMMA InitInv == Init => EditInv
  <1> SUFFICES ASSUME Init PROVE EditInv
    OBVIOUS
  <1>1. NoTrigger \in TriggerRecord /\ NoTrigger.secret = 0 /\ NoTrigger.type # "WEBHOOK"
    BY DEF NoTrigger, TriggerRecord
  <1>2. \A r \in Request : req[r] = Idle /\ ~Busy(r)
    BY DEF Init, Busy, Idle, Places
  <1>3. Typed
    BY <1>1 DEF Init, Typed, WorkflowStatus
  <1>4. \A f \in Flow : Stored(f)
    BY <1>1 DEF Init, Stored, Sound
  <1>5. Apart
    BY <1>1, <1>2 DEF Init, Apart, Saves
  <1>6. \A r \in Request : Begun(r) /\ UpToDate(r)
    BY <1>2 DEF Begun, UpToDate
  <1> QED
    BY <1>3, <1>4, <1>5, <1>6 DEF EditInv

\* A step of request r.
LEMMA RequestStep ==
  ASSUME EditInv, NEW r \in Request, NEW q, req' = [req EXCEPT ![r] = q],
         owner' \in [Flow -> User \cup {None}], status' \in [Flow -> WorkflowStatus],
         trigger' \in [Flow -> TriggerRecord], secrets' \in Nat, secrets <= secrets',
         \A f \in Flow : owner[f] # None => owner'[f] = owner[f],
         Apart', \A f \in Flow : Stored(f)', Begun(r)', UpToDate(r)',
         \A s \in Request : s # r /\ Busy(s) /\ s \notin overlapped' =>
           /\ s \notin overlapped
           /\ req[s].ask.op # "create" => /\ trigger'[req[s].flow] = trigger[req[s].flow]
                                          /\ status'[req[s].flow] = status[req[s].flow]
  PROVE  EditInv' /\ req'[r] = q /\ \A s \in Request : s # r => req'[s] = req[s]
  <1>1. Typed /\ \A s \in Request : Begun(s) /\ UpToDate(s)
    BY DEF EditInv
  <1>2. req'[r] = q /\ \A s \in Request : s # r => req'[s] = req[s]
    BY <1>1 DEF Typed
  <1>3. Typed'
    BY <1>1 DEF Typed
  <1>4. ASSUME NEW s \in Request, s # r PROVE Begun(s)' /\ UpToDate(s)'
    <2>1. Begun(s) /\ UpToDate(s) /\ req'[s] = req[s]
      BY <1>1, <1>2, <1>4
    <2>2. Begun(s)'
      <3>1. CASE req[s] \in {Idle, Finished}
        BY <2>1, <3>1 DEF Begun
      <3>2. CASE InForm(req[s]) /\ Sound(req[s].trigger)
        <4>1. InForm(req[s])'
          BY <2>1, <3>2 DEF InForm
        <4>2. req[s].trigger.secret \in Nat /\ secrets \in Nat
          BY <1>1, <3>2 DEF Sound, TriggerRecord, Typed
        <4>3. Sound(req[s].trigger)'
          BY <2>1, <3>2, <4>2 DEF Sound
        <4> QED
          BY <4>1, <4>3 DEF Begun
      <3> QED
        BY <2>1, <3>1, <3>2 DEF Begun
    <2>3. UpToDate(s)'
      BY <1>4, <2>1 DEF UpToDate, Busy
    <2> QED
      BY <2>2, <2>3
  <1> QED
    BY <1>2, <1>3, <1>4 DEF EditInv

\* What a read has seen of the steps, and a clone of the trigger with them.
Informed(r, q) ==
  /\ q.steps \in {req[r].steps, PositionsOf(req[r].flow)}
  /\ q.ask.op = "clone" =>
       /\ q.at = "readSteps" => q.trigger = trigger[req[r].flow]
       /\ q.at = "readLast" => q.steps = PositionsOf(req[r].flow)
       /\ q.at = "write" =>
            \/ /\ req[r].at = "readSteps" /\ q.trigger = req[r].trigger
               /\ q.steps = PositionsOf(req[r].flow)
            \/ /\ req[r].at = "readLast" /\ q.steps = req[r].steps
               /\ q.trigger = trigger[req[r].flow]
  /\ q.at = "write" =>
       /\ q.ask.op \in {"updateStep", "deleteStep"} => q.ask.step \in StepsOf(req[r].flow)
       /\ q.ask.op = "reorder" => ToSet(q.ask.ids) = StepsOf(req[r].flow)

\* The row a request has after a read.
Reads(r, q) ==
  /\ q = [at |-> q.at, ask |-> q.ask, flow |-> q.flow, caller |-> q.caller, trigger |-> q.trigger, steps |-> q.steps]
  /\ q.at \in Places /\ q.ask = req[r].ask /\ q.flow = req[r].flow /\ q.caller = req[r].caller
  /\ q.trigger \in {req[r].trigger, trigger[req[r].flow]}
  /\ q.at \in {"readTrigger", "readSteps", "readLast"} => q.ask.op = "clone"
  /\ q.at = "write" => /\ q.ask.op = "saveTrigger" => q.trigger = trigger[q.flow]
                       /\ q.ask.op = "setStatus" => status[q.flow] # "ARCHIVED"
  /\ Informed(r, q)

LEMMA ReadInv ==
  ASSUME EditInv, NEW r \in Request, Busy(r), Read, NEW q, req' = [req EXCEPT ![r] = q],
         q = Finished \/ Reads(r, q)
  PROVE  EditInv'
  <1>1. Typed /\ Apart /\ Begun(r) /\ (\A f \in Flow : Stored(f)) /\ \A s \in Request : Begun(s)
    BY DEF EditInv
  <1>2. UNCHANGED <<owner, status, trigger, secrets>> /\ overlapped' = {s \in overlapped : req'[s] # Finished}
    BY DEF Read
  <1>3. req'[r] = q /\ \A s \in Request : s # r => req'[s] = req[s]
    BY <1>1 DEF Typed
  <1>4. req[r] \notin {Idle, Finished} /\ InForm(req[r]) /\ Sound(req[r].trigger)
    BY <1>1 DEF Begun, Busy, Places, Idle, Finished
  <1>5. q # Finished => InForm(q)' /\ Sound(q.trigger)'
    <2> SUFFICES ASSUME q # Finished PROVE InForm(q)' /\ Sound(q.trigger)'
      OBVIOUS
    <2>1. Sound(q.trigger)
      BY <1>1, <1>4 DEF Stored, InForm, Reads
    <2>2. InForm(q)
      BY <1>4 DEF InForm, Reads
    <2> QED
      BY <1>2, <2>1, <2>2 DEF InForm, Sound
  <1>6. Begun(r)'
    BY <1>3, <1>5 DEF Begun
  <1>7. UpToDate(r)'
    BY <1>2, <1>3 DEF UpToDate, Busy, Finished, Places, Reads
  <1>8. \A s \in Request : Saves(s)' => /\ Saves(s) /\ req'[s].flow = req[s].flow
                                        /\ \/ req'[s].trigger = req[s].trigger
                                           \/ s = r /\ req'[s].trigger = trigger[req[s].flow]
    BY <1>3 DEF Saves, Busy, Finished, Places, Reads
  <1>9. \A s \in Request : Saves(s) => req[s].flow \in Flow
    <2>1. \A s \in Request : Busy(s) => req[s] \notin {Idle, Finished} /\ InForm(req[s])
      BY <1>1 DEF Begun, Busy, Places, Idle, Finished
    <2> QED
      BY <2>1 DEF Saves, InForm
  <1>10. Apart'
    BY <1>1, <1>2, <1>8, <1>9 DEF Apart
  <1>11. \A s \in Request : s # r /\ Busy(s) /\ s \notin overlapped' => s \notin overlapped
    BY <1>2, <1>3 DEF Busy, Places, Finished
  <1>12. \A f \in Flow : Stored(f)'
    BY <1>1, <1>2 DEF Stored, Sound
  <1> QED
    BY <1>1, <1>2, <1>6, <1>7, <1>10, <1>11, <1>12, RequestStep DEF Typed

\* A write ends its request and touches one workflow: that of the request, or
\* one that is created. A secret it stores is new or the one it has read.
LEMMA WriteInv ==
  ASSUME EditInv, NEW r \in Request, Busy(r), req' = [req EXCEPT ![r] = Finished],
         NEW f \in Flow,
         \A s \in InFlight : s # r /\ s \notin overlapped' => s \notin overlapped /\ (req[s].flow # f \/ owner[f] = None),
         owner' \in [Flow -> User \cup {None}], status' \in [Flow -> WorkflowStatus], secrets' \in Nat,
         NEW t, trigger' = [trigger EXCEPT ![f] = t] \/ (trigger' = trigger /\ t = trigger[f]), secrets <= secrets',
         Sound(t)', owner'[f] = None => t = NoTrigger,
         \A g \in Flow : g # f => owner'[g] = owner[g] /\ status'[g] = status[g],
         owner[f] # None => owner'[f] = owner[f],
         \/ t.secret \in {0, trigger[f].secret} \/ t.secret > secrets
         \/ Saves(r) /\ f = req[r].flow /\ t.secret = req[r].trigger.secret
  PROVE  EditInv'
  <1>1. Typed /\ Apart /\ Begun(r) /\ (\A g \in Flow : Stored(g)) /\ \A s \in Request : Begun(s)
    BY DEF EditInv
  <1>2. req'[r] = Finished /\ \A s \in Request : s # r => req'[s] = req[s]
    BY <1>1 DEF Typed
  <1>3. t \in TriggerRecord /\ trigger' \in [Flow -> TriggerRecord] /\ trigger'[f] = t
        /\ \A g \in Flow : g # f => trigger'[g] = trigger[g]
    BY <1>1 DEF Sound, Typed
  <1>4. \A s \in Request : Busy(s) => /\ req[s] \notin {Idle, Finished} /\ InForm(req[s]) /\ Sound(req[s].trigger)
                                      /\ req[s].flow \in Flow
                                      /\ req[s].ask.op # "create" => owner[req[s].flow] # None
    BY <1>1 DEF Begun, Busy, Places, Idle, Finished, InForm
  <1>5. ~Busy(r)' /\ Begun(r)' /\ UpToDate(r)' /\ \A s \in Request : Saves(s)' => s # r /\ Saves(s)
    BY <1>2 DEF Busy, Begun, UpToDate, Finished, Places, Saves
  <1>6. \A g \in Flow : Stored(g)'
    <2> SUFFICES ASSUME NEW g \in Flow PROVE Stored(g)'
      OBVIOUS
    <2>1. CASE g = f
      BY <1>3, <2>1 DEF Stored
    <2>2. CASE g # f
      <3>1. Stored(g) /\ trigger'[g] = trigger[g] /\ trigger[g].secret \in Nat /\ secrets \in Nat /\ owner'[g] = owner[g]
        BY <1>1, <1>3, <2>2 DEF Typed, TriggerRecord
      <3> QED
        BY <3>1 DEF Stored, Sound
    <2> QED
      BY <2>1, <2>2
  <1>7. Apart'
    <2>1. \A g \in Flow : trigger[g].secret \in Nat /\ trigger[g].secret <= secrets
      BY <1>1 DEF Stored, Sound, TriggerRecord
    <2>2. \A s \in Request : Saves(s) => req[s].trigger.secret \in Nat /\ req[s].trigger.secret <= secrets
      BY <1>4 DEF Saves, Sound, TriggerRecord
    <2>3. secrets \in Nat /\ t.secret \in Nat
      BY <1>1, <1>3 DEF Typed, TriggerRecord
    <2>4. \A g \in Flow : g # f /\ trigger[g].secret = t.secret => t.secret = 0
      BY <1>1, <2>1, <2>3 DEF Apart
    <2>5. \A s \in Request : Saves(s) /\ s # r /\ req[s].flow # f /\ req[s].trigger.secret = t.secret => t.secret = 0
      BY <1>1, <2>2, <2>3 DEF Apart
    <2>6. \A g, h \in Flow : g # h /\ trigger'[g].secret = trigger'[h].secret => trigger'[g].secret = 0
      BY <1>1, <1>3, <2>4 DEF Apart
    <2>7. \A s \in Request, g \in Flow :
            Saves(s)' /\ g # req'[s].flow /\ trigger'[g].secret = req'[s].trigger.secret => trigger'[g].secret = 0
      BY <1>1, <1>2, <1>3, <1>5, <2>5 DEF Apart
    <2>8. \A s, u \in Request :
            Saves(s)' /\ Saves(u)' /\ req'[s].flow # req'[u].flow /\ req'[s].trigger.secret = req'[u].trigger.secret
              => req'[s].trigger.secret = 0
      BY <1>1, <1>2, <1>5 DEF Apart
    <2> QED
      BY <2>6, <2>7, <2>8 DEF Apart
  <1>8. ASSUME NEW s \in Request, s # r, Busy(s), s \notin overlapped'
        PROVE  /\ s \notin overlapped
               /\ req[s].ask.op # "create" => trigger'[req[s].flow] = trigger[req[s].flow] /\ status'[req[s].flow] = status[req[s].flow]
    <2>1. s \in InFlight /\ s \notin overlapped /\ (req[s].flow # f \/ owner[f] = None)
      BY <1>4, <1>8 DEF InFlight
    <2>2. req[s].ask.op # "create" => req[s].flow # f /\ req[s].flow \in Flow
      BY <1>4, <1>8, <2>1
    <2> QED
      BY <1>3, <2>1, <2>2
  <1>9. \A g \in Flow : owner[g] # None => owner'[g] = owner[g]
    OBVIOUS
  <1> QED
    BY <1>3, <1>5, <1>6, <1>7, <1>8, <1>9, RequestStep

LEMMA BeginInv ==
  ASSUME EditInv, NEW r \in Request, Begin(r) PROVE EditInv'
  <1>1. Typed /\ Apart /\ (\A f \in Flow : Stored(f)) /\ \A s \in Request : Begun(s)
    BY DEF EditInv
  <1>2. UNCHANGED <<owner, status, trigger, secrets, overlapped>> /\ req[r] = Idle
    BY DEF Begin
  <1>3a. PICK f \in Flow, u \in User :
          \E ask \in CreateRequests \cup StatusRequests \cup CloneRequests \cup StepRequests(f) \cup TriggerRequests(f) :
            /\ owner[f] # None
            /\ req' = [req EXCEPT ![r] = IF OwnerGuard(f, u, ask) THEN Asked(f, u, ask) ELSE Finished]
    BY DEF Begin
  <1>3. PICK ask \in CreateRequests \cup StatusRequests \cup CloneRequests \cup StepRequests(f) \cup TriggerRequests(f) :
          /\ owner[f] # None
          /\ req' = [req EXCEPT ![r] = IF OwnerGuard(f, u, ask) THEN Asked(f, u, ask) ELSE Finished]
    BY <1>3a
  <1>3b. PICK q : q = (IF OwnerGuard(f, u, ask) THEN Asked(f, u, ask) ELSE Finished) /\ req' = [req EXCEPT ![r] = q]
    BY <1>3
  <1>4. AskOK(ask)
    BY DEF AskOK, CreateRequests, StatusRequests, CloneRequests, StepRequests, TriggerRequests, WorkflowStatus
  <1>5. NoTrigger \in TriggerRecord /\ NoTrigger.secret = 0 /\ NoTrigger.type # "WEBHOOK"
    BY DEF NoTrigger, TriggerRecord
  <1>6. q # Finished => /\ q = Asked(f, u, ask) /\ OwnerGuard(f, u, ask)
                        /\ q.at \in Places /\ q.ask = ask /\ q.flow = f /\ q.caller = u /\ q.trigger = NoTrigger
                        /\ q.at = "write" => ask.op \notin {"saveTrigger", "setStatus"}
    BY <1>3b DEF Asked, Places
  <1>7. q # Finished => InForm(q)
    BY <1>3, <1>4, <1>6 DEF InForm, Asked, OwnerGuard, requireWorkflowOwner
  <1>8. req'[r] = q /\ \A s \in Request : s # r => req'[s] = req[s]
    BY <1>1, <1>3b DEF Typed
  <1>9. Begun(r)'
    <2>1. Sound(NoTrigger)'
      BY <1>1, <1>2, <1>5 DEF Sound, Typed
    <2>2. q # Finished => InForm(req[r])'
      BY <1>2, <1>7, <1>8 DEF InForm
    <2> QED
      BY <1>6, <1>8, <2>1, <2>2 DEF Begun
  <1>10. UpToDate(r)'
    BY <1>6, <1>8 DEF UpToDate, Busy, Finished, Places
  <1>11. Apart'
    <2>1. Saves(r)' => req'[r].trigger.secret = 0
      BY <1>5, <1>6, <1>8 DEF Saves, Busy, Finished, Places
    <2>2. \A s \in Request : s # r => (Saves(s)' <=> Saves(s)) /\ req'[s] = req[s]
      BY <1>8 DEF Saves, Busy
    <2> QED
      BY <1>1, <1>2, <2>1, <2>2 DEF Apart
  <1>12. \A g \in Flow : Stored(g)'
    BY <1>1, <1>2 DEF Stored, Sound
  <1>13. req' = [req EXCEPT ![r] = q]
    BY <1>3b
  <1>14. \A s \in Request : s # r /\ Busy(s) /\ s \notin overlapped' => s \notin overlapped
    BY <1>2
  <1> QED
    BY <1>1, <1>2, <1>9, <1>10, <1>11, <1>12, <1>13, <1>14, RequestStep DEF Typed

\* A read goes on to a place with what it has read, or ends the request.
LEMMA ReadsRow ==
  ASSUME EditInv, NEW r \in Request,
         Visible(r) \/ CloneTrigger(r) \/ CloneSteps(r) \/ ReadList(r) \/ FindStep(r) \/ FindTrigger(r)
  PROVE  /\ Busy(r) /\ Read
         /\ \E q : req' = [req EXCEPT ![r] = q] /\ (q = Finished \/ Reads(r, q))
  <1>1. Typed /\ Begun(r) /\ Read
    BY DEF EditInv, Visible, CloneTrigger, CloneSteps, ReadList, FindStep, FindTrigger
  <1>2. Busy(r) /\ InForm(req[r])
    <2>1. Busy(r)
      BY DEF Visible, CloneTrigger, CloneSteps, ReadList, FindStep, FindTrigger, At, Busy, Places
    <2> QED
      BY <1>1, <2>1 DEF Begun, Busy, Places, Idle, Finished
  <1> DEFINE Row(at, t, steps) == [at |-> at, ask |-> req[r].ask, flow |-> req[r].flow, caller |-> req[r].caller,
                                   trigger |-> t, steps |-> steps]
  <1>3. req[r] = Row(req[r].at, req[r].trigger, req[r].steps)
    BY <1>2 DEF InForm
  <1>3a. ASSUME NEW at, NEW t, NEW l
         PROVE  /\ [req[r] EXCEPT !.at = at, !.trigger = t] = Row(at, t, req[r].steps)
                /\ [req[r] EXCEPT !.at = at, !.steps = l] = Row(at, req[r].trigger, l)
    <2>1. PICK x : x = [req[r] EXCEPT !.at = at]
      OBVIOUS
    <2>2. x = Row(at, req[r].trigger, req[r].steps)
      BY <1>3, <2>1
    <2>3. PICK y : y = [x EXCEPT !.trigger = t]
      OBVIOUS
    <2>4. y = Row(at, t, req[r].steps)
      BY <2>2, <2>3
    <2>5. PICK z : z = [x EXCEPT !.steps = l]
      OBVIOUS
    <2>6. z = Row(at, req[r].trigger, l)
      BY <2>2, <2>5
    <2>7. /\ [req[r] EXCEPT !.at = at, !.trigger = t] = [[req[r] EXCEPT !.at = at] EXCEPT !.trigger = t]
          /\ [req[r] EXCEPT !.at = at, !.steps = l] = [[req[r] EXCEPT !.at = at] EXCEPT !.steps = l]
      BY Zenon
    <2> HIDE DEF Row
    <2> QED
      BY <2>1, <2>3, <2>4, <2>5, <2>6, <2>7, Zenon
  <1>3b. ASSUME NEW at, NEW t, NEW l
         PROVE  [req[r] EXCEPT !.at = at, !.trigger = t, !.steps = l] = Row(at, t, l)
    <2>1. PICK y : y = [req[r] EXCEPT !.at = at, !.trigger = t]
      OBVIOUS
    <2>2. y = Row(at, t, req[r].steps)
      BY <1>3a, <2>1, Zenon
    <2>3. [y EXCEPT !.steps = l] = Row(at, t, l)
      BY <2>2
    <2>4. [req[r] EXCEPT !.at = at, !.trigger = t, !.steps = l]
            = [[req[r] EXCEPT !.at = at, !.trigger = t] EXCEPT !.steps = l]
      BY Zenon
    <2> HIDE DEF Row
    <2> QED
      BY <2>1, <2>3, <2>4, Zenon
  <1> SUFFICES \E q : req' = [req EXCEPT ![r] = q] /\ (q = Finished \/ Reads(r, q))
    BY <1>1, <1>2
  <1>4. ASSUME NEW at \in Places, NEW t \in {req[r].trigger, trigger[req[r].flow]}, NEW steps,
               Informed(r, Row(at, t, steps)),
               at \in {"readTrigger", "readSteps", "readLast"} => req[r].ask.op = "clone",
               at = "write" => /\ req[r].ask.op = "saveTrigger" => t = trigger[req[r].flow]
                               /\ req[r].ask.op = "setStatus" => status[req[r].flow] # "ARCHIVED"
        PROVE  Reads(r, Row(at, t, steps))
    BY <1>4 DEF Reads
  <1>5. CASE Visible(r)
    <2>1. PICK at \in {"done", "readTrigger", "write"} :
            /\ Goto(r, at)
            /\ at = "readTrigger" => req[r].ask.op = "clone"
            /\ at = "write" => req[r].ask.op = "setStatus" /\ status[req[r].flow] # "ARCHIVED"
      BY <1>5 DEF Visible, At, Listed
    <2>2. [req[r] EXCEPT !.at = at] = Row(at, req[r].trigger, req[r].steps)
      BY <1>3
    <2>3. CASE at = "done"
      BY <2>1, <2>3 DEF Goto
    <2>4. CASE at # "done"
      <3>0. Informed(r, Row(at, req[r].trigger, req[r].steps))
        BY <2>1, <2>4 DEF Informed
      <3>1. Reads(r, Row(at, req[r].trigger, req[r].steps))
        BY <1>4, <2>1, <2>4, <3>0 DEF Places
      <3>2. req' = [req EXCEPT ![r] = Row(at, req[r].trigger, req[r].steps)]
        BY <2>1, <2>2, <2>4 DEF Goto
      <3> HIDE DEF Row
      <3> QED
        BY <3>1, <3>2
    <2> QED
      BY <2>3, <2>4
  <1>6. CASE FindStep(r)
    <2>1. CASE Goto(r, "done")
      BY <2>1 DEF Goto
    <2>2. CASE Goto(r, "write")
      <3>1. req[r].ask.op \in {"updateStep", "deleteStep"}
        BY <1>6 DEF FindStep, At
      <3>1a. req[r].ask.step \in StepsOf(req[r].flow)
        <4>1. req'[r].at = "write"
          <5>1. [req[r] EXCEPT !.at = "write"] = Row("write", req[r].trigger, req[r].steps)
            BY <1>3
          <5> QED
            BY <1>1, <2>2, <5>1 DEF Goto, Typed
        <4>2. ASSUME Goto(r, "done") PROVE FALSE
          BY <1>1, <4>1, <4>2 DEF Goto, Typed, Finished
        <4> QED
          BY <1>6, <4>2 DEF FindStep
      <3>1b. Informed(r, Row("write", req[r].trigger, req[r].steps))
        BY <3>1, <3>1a DEF Informed
      <3>2. Reads(r, Row("write", req[r].trigger, req[r].steps))
        BY <1>4, <3>1, <3>1b DEF Places
      <3>3. req' = [req EXCEPT ![r] = Row("write", req[r].trigger, req[r].steps)]
        <4>1. [req[r] EXCEPT !.at = "write"] = Row("write", req[r].trigger, req[r].steps)
          BY <1>3
        <4> QED
          BY <2>2, <4>1 DEF Goto
      <3> HIDE DEF Row
      <3> QED
        BY <3>2, <3>3
    <2> QED
      BY <1>6, <2>1, <2>2 DEF FindStep
  <1>7. CASE ReadList(r)
    <2> DEFINE list == PositionsOf(req[r].flow)
    <2>1. req[r].ask.op \in {"addStep", "reorder"}
      BY <1>7 DEF ReadList, At
    <2>2. \/ req' = [req EXCEPT ![r] = Finished]
          \/ /\ req[r].ask.op = "reorder" => ToSet(req[r].ask.ids) = DOMAIN list
             /\ req' = [req EXCEPT ![r] = [req[r] EXCEPT !.at = "write", !.steps = list]]
      BY <1>7, Zenon DEF ReadList
    <2>2a. DOMAIN list = StepsOf(req[r].flow)
      BY DEF PositionsOf
    <2>2b. ASSUME req[r].ask.op = "reorder" => ToSet(req[r].ask.ids) = DOMAIN list
           PROVE  Informed(r, Row("write", req[r].trigger, list))
      BY <2>1, <2>2a, <2>2b DEF Informed
    <2> HIDE DEF list
    <2>3. [req[r] EXCEPT !.at = "write", !.steps = list] = Row("write", req[r].trigger, list)
      BY <1>3a, Zenon
    <2>4. ASSUME req[r].ask.op = "reorder" => ToSet(req[r].ask.ids) = DOMAIN list
          PROVE  Reads(r, Row("write", req[r].trigger, list))
      BY <1>4, <2>1, <2>2b, <2>4 DEF Places
    <2> HIDE DEF Row
    <2> QED
      BY <2>2, <2>3, <2>4
  <1>8. CASE FindTrigger(r)
    <2> DEFINE t == trigger[req[r].flow]
    <2>1. req[r].ask.op \in {"saveTrigger", "deleteTrigger"}
      BY <1>8 DEF FindTrigger, At
    <2>2. \/ req' = [req EXCEPT ![r] = Finished]
          \/ req' = [req EXCEPT ![r] = [req[r] EXCEPT !.at = "write", !.trigger = t]]
      BY <1>8, Zenon DEF FindTrigger
    <2>3. [req[r] EXCEPT !.at = "write", !.trigger = t] = Row("write", t, req[r].steps)
      BY <1>3a, Zenon
    <2>3a. Informed(r, Row("write", t, req[r].steps))
      BY <2>1 DEF Informed
    <2>4. Reads(r, Row("write", t, req[r].steps))
      BY <1>4, <2>1, <2>3a DEF Places
    <2> HIDE DEF Row
    <2> QED
      BY <2>2, <2>3, <2>4
  <1>9. CASE CloneTrigger(r) \/ CloneSteps(r)
    <2>1. PICK at, t, l :
            /\ at \in {"readSteps", "readLast", "write"} /\ t \in {req[r].trigger, trigger[req[r].flow]}
            /\ req' = [req EXCEPT ![r].at = at, ![r].trigger = t, ![r].steps = l]
            /\ l \in {req[r].steps, PositionsOf(req[r].flow)}
            /\ at = "readSteps" => t = trigger[req[r].flow]
            /\ at = "readLast" => l = PositionsOf(req[r].flow)
            /\ at = "write" =>
                 \/ req[r].at = "readSteps" /\ t = req[r].trigger /\ l = PositionsOf(req[r].flow)
                 \/ req[r].at = "readLast" /\ l = req[r].steps /\ t = trigger[req[r].flow]
      <3>1. CASE CloneTrigger(r)
        <4>1. PICK last \in BOOLEAN :
                req' = [req EXCEPT ![r].at = IF last THEN "readLast" ELSE "readSteps",
                                   ![r].trigger = IF last THEN @ ELSE trigger[req[r].flow],
                                   ![r].steps = IF last THEN PositionsOf(req[r].flow) ELSE @]
          BY <3>1 DEF CloneTrigger
        <4>2. CASE last
          <5>1. req' = [req EXCEPT ![r].at = "readLast", ![r].trigger = req[r].trigger,
                                   ![r].steps = PositionsOf(req[r].flow)]
            BY <1>1, <4>1, <4>2 DEF Typed
          <5> WITNESS "readLast", req[r].trigger, PositionsOf(req[r].flow)
          <5> QED
            BY <5>1, Zenon
        <4>3. CASE ~last
          <5>1. req' = [req EXCEPT ![r].at = "readSteps", ![r].trigger = trigger[req[r].flow],
                                   ![r].steps = req[r].steps]
            BY <1>1, <4>1, <4>3 DEF Typed
          <5> WITNESS "readSteps", trigger[req[r].flow], req[r].steps
          <5> QED
            BY <5>1, Zenon
        <4> QED
          BY <4>2, <4>3
      <3>2. CASE CloneSteps(r)
        BY <1>1, <3>2 DEF CloneSteps, Typed
      <3> QED
        BY <1>9, <3>1, <3>2
    <2>2. req[r].ask.op = "clone"
      BY <1>2, <1>9 DEF CloneTrigger, CloneSteps, InForm
    <2>3. [req[r] EXCEPT !.at = at, !.trigger = t, !.steps = l] = Row(at, t, l)
      BY <1>3b, Zenon
    <2>4. req' = [req EXCEPT ![r] = Row(at, t, l)]
      BY <1>1, <2>1, <2>3 DEF Typed
    <2>4a. Informed(r, Row(at, t, l))
      BY <2>1, <2>2 DEF Informed
    <2>5. Reads(r, Row(at, t, l))
      BY <1>4, <2>1, <2>2, <2>4a DEF Places
    <2> HIDE DEF Row
    <2> QED
      BY <2>4, <2>5
  <1> QED
    BY <1>5, <1>6, <1>7, <1>8, <1>9

LEMMA ReadsInv ==
  ASSUME EditInv, NEW r \in Request,
         Visible(r) \/ CloneTrigger(r) \/ CloneSteps(r) \/ ReadList(r) \/ FindStep(r) \/ FindTrigger(r)
  PROVE  EditInv'
  BY ReadsRow, ReadInv

\* A write that leaves the workflows and the triggers alone.
LEMMA StepWriteInv ==
  ASSUME EditInv, NEW r \in Request,
         AddStep(r) \/ UpdateStep(r) \/ DeleteStep(r) \/ SetPositions(r)
  PROVE  EditInv'
  <1>1. UNCHANGED <<owner, status, trigger, secrets>> /\ Wrote(r) /\ Busy(r)
    BY DEF AddStep, UpdateStep, DeleteStep, SetPositions, At, Busy, Places
  <1>2. Typed /\ InForm(req[r]) /\ \A f \in Flow : Stored(f)
    BY <1>1 DEF EditInv, Begun, Busy, Places, Idle, Finished
  <1>3. req[r].flow \in Flow
    BY <1>2 DEF InForm
  <1>4. PICK f, t : f \in Flow /\ f = req[r].flow /\ t = trigger[f]
    BY <1>3
  <1>5. Sound(t)' /\ (owner'[f] = None => t = NoTrigger)
    BY <1>1, <1>2, <1>4 DEF Stored, Sound
  <1>6. req' = [req EXCEPT ![r] = Finished]
        /\ \A s \in InFlight : s # r /\ s \notin overlapped' => s \notin overlapped /\ (req[s].flow # f \/ owner[f] = None)
    BY <1>1, <1>4 DEF Wrote, Ends
  <1>7. /\ owner' \in [Flow -> User \cup {None}] /\ status' \in [Flow -> WorkflowStatus]
        /\ secrets' \in Nat /\ secrets <= secrets'
        /\ \A g \in Flow : g # f => owner'[g] = owner[g] /\ status'[g] = status[g]
        /\ owner[f] # None => owner'[f] = owner[f]
    BY <1>1, <1>2, <1>4 DEF Typed
  <1>8. /\ f \in Flow /\ Busy(r) /\ Sound(t)' /\ (owner'[f] = None => t = NoTrigger)
        /\ trigger' = [trigger EXCEPT ![f] = t] \/ (trigger' = trigger /\ t = trigger[f])
    BY <1>1, <1>4, <1>5
  <1>9. t.secret \in {0, trigger[f].secret} \/ t.secret > secrets
    BY <1>4, <1>5
  <1> QED
    BY <1>6, <1>7, <1>8, <1>9, WriteInv, ZenonT(60)

LEMMA SetStatusInv ==
  ASSUME EditInv, NEW r \in Request, SetStatus(r) PROVE EditInv'
  <1>1. UNCHANGED <<owner, trigger, secrets>> /\ Wrote(r) /\ Busy(r) /\ req[r].ask.op = "setStatus"
    BY DEF SetStatus, At, Busy, Places
  <1>2. Typed /\ InForm(req[r]) /\ \A f \in Flow : Stored(f)
    BY <1>1 DEF EditInv, Begun, Busy, Places, Idle, Finished
  <1>3. req[r].flow \in Flow /\ req[r].ask.to \in WorkflowStatus
    BY <1>1, <1>2 DEF InForm, AskOK
  <1>4. PICK f, t : f \in Flow /\ f = req[r].flow /\ t = trigger[f]
    BY <1>3
  <1>5. Sound(t)' /\ (owner'[f] = None => t = NoTrigger)
    BY <1>1, <1>2, <1>4 DEF Stored, Sound
  <1>6. status' \in [Flow -> WorkflowStatus] /\ \A g \in Flow : g # f => status'[g] = status[g]
    BY <1>2, <1>3, <1>4 DEF SetStatus, Typed
  <1>7. req' = [req EXCEPT ![r] = Finished]
        /\ \A s \in InFlight : s # r /\ s \notin overlapped' => s \notin overlapped /\ (req[s].flow # f \/ owner[f] = None)
    BY <1>1, <1>4 DEF Wrote, Ends
  <1>8. /\ owner' \in [Flow -> User \cup {None}] /\ status' \in [Flow -> WorkflowStatus]
        /\ secrets' \in Nat /\ secrets <= secrets'
        /\ \A g \in Flow : g # f => owner'[g] = owner[g] /\ status'[g] = status[g]
        /\ owner[f] # None => owner'[f] = owner[f]
    BY <1>1, <1>2, <1>4, <1>6 DEF Typed
  <1>9. /\ f \in Flow /\ Busy(r) /\ Sound(t)' /\ (owner'[f] = None => t = NoTrigger)
        /\ trigger' = [trigger EXCEPT ![f] = t] \/ (trigger' = trigger /\ t = trigger[f])
    BY <1>1, <1>4, <1>5
  <1>10. t.secret \in {0, trigger[f].secret} \/ t.secret > secrets
    BY <1>4, <1>5
  <1> QED
    BY <1>7, <1>8, <1>9, <1>10, WriteInv, ZenonT(60)

\* The id a creation or a clone takes.
LEMMA Fresh ==
  ASSUME Typed, NEW u \in User, NEW as \in WorkflowStatus, InsertFlow(u, as)
  PROVE  /\ FreshFlow \in Flow /\ owner[FreshFlow] = None
         /\ owner' \in [Flow -> User \cup {None}] /\ status' \in [Flow -> WorkflowStatus]
         /\ owner'[FreshFlow] # None
         /\ \A g \in Flow : g # FreshFlow => owner'[g] = owner[g] /\ status'[g] = status[g]
  <1>1. FreshFlow \in Flow /\ owner[FreshFlow] = None
    BY DEF InsertFlow, FreshFlow
  <1>2. owner' = [owner EXCEPT ![FreshFlow] = u] /\ status' = [status EXCEPT ![FreshFlow] = as]
    BY DEF InsertFlow
  <1> QED
    BY <1>1, <1>2 DEF Typed

LEMMA CreateFlowInv ==
  ASSUME EditInv, NEW r \in Request, CreateFlow(r) PROVE EditInv'
  <1>1. UNCHANGED <<trigger, secrets>> /\ Ends(r, {}) /\ Busy(r) /\ req[r].ask.op = "create"
        /\ InsertFlow(req[r].caller, req[r].ask.to)
    BY DEF CreateFlow, At, Busy, Places
  <1>2. Typed /\ InForm(req[r]) /\ \A f \in Flow : Stored(f)
    BY <1>1 DEF EditInv, Begun, Busy, Places, Idle, Finished
  <1>3. req[r].caller \in User /\ req[r].ask.to \in WorkflowStatus
    BY <1>1, <1>2 DEF InForm, AskOK
  <1>4. PICK f, t : f \in Flow /\ f = FreshFlow /\ t = trigger[f]
    BY <1>1, <1>2, <1>3, Fresh
  <1>5. Sound(t)'
    BY <1>1, <1>2, <1>4 DEF Stored, Sound
  <1>6. /\ owner[f] = None /\ owner' \in [Flow -> User \cup {None}] /\ status' \in [Flow -> WorkflowStatus]
        /\ owner'[f] # None /\ \A g \in Flow : g # f => owner'[g] = owner[g] /\ status'[g] = status[g]
    BY <1>1, <1>2, <1>3, <1>4, Fresh
  <1>7. req' = [req EXCEPT ![r] = Finished]
        /\ \A s \in InFlight : s # r /\ s \notin overlapped' => s \notin overlapped /\ (req[s].flow # f \/ owner[f] = None)
    BY <1>1, <1>6 DEF Ends
  <1>8. /\ owner' \in [Flow -> User \cup {None}] /\ status' \in [Flow -> WorkflowStatus]
        /\ secrets' \in Nat /\ secrets <= secrets'
        /\ \A g \in Flow : g # f => owner'[g] = owner[g] /\ status'[g] = status[g]
        /\ owner[f] # None => owner'[f] = owner[f]
    BY <1>1, <1>2, <1>4, <1>6 DEF Typed
  <1>9. /\ f \in Flow /\ Busy(r) /\ Sound(t)' /\ (owner'[f] = None => t = NoTrigger)
        /\ trigger' = [trigger EXCEPT ![f] = t] \/ (trigger' = trigger /\ t = trigger[f])
    BY <1>1, <1>2, <1>3, Fresh, <1>4, <1>5, <1>6
  <1>10. t.secret \in {0, trigger[f].secret} \/ t.secret > secrets
    BY <1>4, <1>5
  <1> QED
    BY <1>7, <1>8, <1>9, <1>10, WriteInv, ZenonT(60)

LEMMA CloneFlowInv ==
  ASSUME EditInv, NEW r \in Request, CloneFlow(r) PROVE EditInv'
  <1>1. Ends(r, {}) /\ Busy(r) /\ InsertFlow(req[r].caller, "DRAFT") /\ secrets' = secrets + 1
        /\ trigger' = [trigger EXCEPT ![FreshFlow] = CopyTrigger(req[r].trigger)]
    BY DEF CloneFlow, At, Busy, Places
  <1>2. Typed /\ InForm(req[r]) /\ Sound(req[r].trigger)
    BY <1>1 DEF EditInv, Begun, Busy, Places, Idle, Finished
  <1>3. req[r].caller \in User /\ "DRAFT" \in WorkflowStatus
    BY <1>2 DEF InForm, WorkflowStatus
  <1>4. PICK f, t : f \in Flow /\ f = FreshFlow /\ t = CopyTrigger(req[r].trigger)
    BY <1>1, <1>2, <1>3, Fresh
  <1>5. Sound(t)' /\ (t.secret = 0 \/ t.secret > secrets)
    <2>1. PICK q \in TriggerRecord : q = req[r].trigger /\ Sound(q)
      BY <1>2 DEF Sound
    <2>2. secrets \in Nat /\ q.secret \in Nat /\ secrets + 1 \in Nat
      BY <1>2, <2>1 DEF Typed, TriggerRecord
    <2>3. CASE q.type = "WEBHOOK"
      <3>1. t = [q EXCEPT !.secret = secrets + 1]
        BY <1>4, <2>1, <2>3 DEF CopyTrigger
      <3>2. t \in TriggerRecord /\ t.type = "WEBHOOK" /\ t.secret = secrets + 1
        BY <2>1, <2>2, <2>3, <3>1 DEF TriggerRecord
      <3> QED
        BY <1>1, <2>2, <3>2 DEF Sound
    <2>4. CASE q.type # "WEBHOOK"
      <3>1. t = q
        BY <1>4, <2>1, <2>4 DEF CopyTrigger
      <3> QED
        BY <1>1, <2>1, <2>2, <2>4, <3>1 DEF Sound
    <2> QED
      BY <2>3, <2>4
  <1>6. /\ owner[f] = None /\ owner' \in [Flow -> User \cup {None}] /\ status' \in [Flow -> WorkflowStatus]
        /\ owner'[f] # None /\ \A g \in Flow : g # f => owner'[g] = owner[g] /\ status'[g] = status[g]
    BY <1>1, <1>2, <1>3, <1>4, Fresh
  <1>7. secrets' \in Nat /\ secrets <= secrets'
    BY <1>1, <1>2 DEF Typed
  <1>8. req' = [req EXCEPT ![r] = Finished]
        /\ \A s \in InFlight : s # r /\ s \notin overlapped' => s \notin overlapped /\ (req[s].flow # f \/ owner[f] = None)
    BY <1>1, <1>6 DEF Ends
  <1>9. /\ owner' \in [Flow -> User \cup {None}] /\ status' \in [Flow -> WorkflowStatus]
        /\ secrets' \in Nat /\ secrets <= secrets'
        /\ \A g \in Flow : g # f => owner'[g] = owner[g] /\ status'[g] = status[g]
        /\ owner[f] # None => owner'[f] = owner[f]
    BY <1>1, <1>2, <1>4, <1>6, <1>7 DEF Typed
  <1>10. /\ f \in Flow /\ Busy(r) /\ Sound(t)' /\ (owner'[f] = None => t = NoTrigger)
         /\ trigger' = [trigger EXCEPT ![f] = t] \/ (trigger' = trigger /\ t = trigger[f])
    BY <1>1, <1>2, <1>3, Fresh, <1>4, <1>5, <1>6
  <1>11. t.secret \in {0, trigger[f].secret} \/ t.secret > secrets
    BY <1>4, <1>5
  <1> QED
    BY <1>8, <1>9, <1>10, <1>11, WriteInv, ZenonT(60)

LEMMA UpsertTriggerInv ==
  ASSUME EditInv, NEW r \in Request, UpsertTrigger(r) PROVE EditInv'
  <1>1. UNCHANGED <<owner, status>> /\ Wrote(r) /\ Busy(r) /\ Saves(r) /\ secrets' = secrets + 1
        /\ req[r].ask.op = "saveTrigger"
        /\ trigger' = [trigger EXCEPT ![req[r].flow] = [type |-> req[r].ask.type, secret |-> SecretFor(r)]]
    BY DEF UpsertTrigger, At, Busy, Places, Saves
  <1>2. Typed /\ InForm(req[r]) /\ Sound(req[r].trigger)
    BY <1>1 DEF EditInv, Begun, Busy, Places, Idle, Finished
  <1>3. req[r].flow \in Flow /\ req[r].ask.type \in TriggerType /\ owner[req[r].flow] # None
    BY <1>1, <1>2 DEF InForm, AskOK
  <1>4. PICK f, t : f \in Flow /\ f = req[r].flow /\ t = [type |-> req[r].ask.type, secret |-> SecretFor(r)]
    BY <1>3
  <1>5. secrets \in Nat /\ req[r].trigger \in TriggerRecord /\ req[r].trigger.secret \in Nat
    BY <1>2 DEF Typed, Sound, TriggerRecord
  <1>6. /\ SecretFor(r) \in Nat /\ SecretFor(r) <= secrets + 1
        /\ req[r].ask.type = "WEBHOOK" <=> SecretFor(r) # 0
        /\ SecretFor(r) = 0 \/ SecretFor(r) > secrets \/ SecretFor(r) = req[r].trigger.secret
    BY <1>2, <1>5 DEF SecretFor, Sound
  <1>7. Sound(t)'
    BY <1>1, <1>3, <1>4, <1>6 DEF Sound, TriggerRecord, TriggerType
  <1>8. secrets' \in Nat /\ secrets <= secrets'
    BY <1>1, <1>5
  <1>9. t.secret \in {0, trigger[f].secret} \/ t.secret > secrets \/ t.secret = req[r].trigger.secret
    BY <1>4, <1>6
  <1> QED
    BY <1>1, <1>2, <1>3, <1>4, <1>7, <1>8, <1>9, WriteInv, ZenonT(60) DEF Wrote, Ends, Typed

LEMMA DeleteTriggerInv ==
  ASSUME EditInv, NEW r \in Request, DeleteTrigger(r) PROVE EditInv'
  <1>1. UNCHANGED <<owner, status, secrets>> /\ Wrote(r) /\ Busy(r)
        /\ trigger' = [trigger EXCEPT ![req[r].flow] = NoTrigger]
    BY DEF DeleteTrigger, At, Busy, Places
  <1>2. Typed /\ InForm(req[r])
    BY <1>1 DEF EditInv, Begun, Busy, Places, Idle, Finished
  <1>3. req[r].flow \in Flow
    BY <1>2 DEF InForm
  <1>4. PICK f, t : f \in Flow /\ f = req[r].flow /\ t = NoTrigger
    BY <1>3
  <1>5. Sound(t)' /\ t.secret = 0
    BY <1>1, <1>2, <1>4 DEF Sound, NoTrigger, TriggerRecord, Typed
  <1>6. req' = [req EXCEPT ![r] = Finished]
        /\ \A s \in InFlight : s # r /\ s \notin overlapped' => s \notin overlapped /\ (req[s].flow # f \/ owner[f] = None)
    BY <1>1, <1>4 DEF Wrote, Ends
  <1>7. /\ owner' \in [Flow -> User \cup {None}] /\ status' \in [Flow -> WorkflowStatus]
        /\ secrets' \in Nat /\ secrets <= secrets'
        /\ \A g \in Flow : g # f => owner'[g] = owner[g] /\ status'[g] = status[g]
        /\ owner[f] # None => owner'[f] = owner[f]
    BY <1>1, <1>2, <1>4 DEF Typed
  <1>8. /\ f \in Flow /\ Busy(r) /\ Sound(t)' /\ (owner'[f] = None => t = NoTrigger)
        /\ trigger' = [trigger EXCEPT ![f] = t] \/ (trigger' = trigger /\ t = trigger[f])
    BY <1>1, <1>4, <1>5
  <1>9. t.secret \in {0, trigger[f].secret} \/ t.secret > secrets
    BY <1>4, <1>5
  <1> QED
    BY <1>6, <1>7, <1>8, <1>9, WriteInv, ZenonT(60)

LEMMA StepInv == EditInv /\ [Next]_vars => EditInv'
  <1> SUFFICES ASSUME EditInv, [Next]_vars PROVE EditInv'
    OBVIOUS
  <1>1. CASE Next
    <2>1. PICK r \in Request :
            \/ Begin(r) \/ Visible(r) \/ CloneTrigger(r) \/ CloneSteps(r) \/ ReadList(r) \/ FindStep(r) \/ FindTrigger(r)
            \/ CreateFlow(r) \/ SetStatus(r) \/ CloneFlow(r)
            \/ AddStep(r) \/ UpdateStep(r) \/ DeleteStep(r) \/ SetPositions(r)
            \/ UpsertTrigger(r) \/ DeleteTrigger(r)
      BY <1>1 DEF Next
    <2> QED
      BY <2>1, BeginInv, ReadsInv, CreateFlowInv, SetStatusInv, CloneFlowInv, StepWriteInv, UpsertTriggerInv,
         DeleteTriggerInv
  <1>2. CASE UNCHANGED vars
    <2>1. Typed' /\ Apart'
      BY <1>2 DEF EditInv, Typed, Apart, Saves, Busy
    <2>2. \A f \in Flow : Stored(f)'
      BY <1>2 DEF EditInv, Stored, Sound
    <2>3. \A r \in Request : Begun(r)' /\ UpToDate(r)'
      BY <1>2 DEF EditInv, Begun, InForm, Sound, UpToDate, Busy
    <2> QED
      BY <2>1, <2>2, <2>3 DEF EditInv
  <1> QED
    BY <1>1, <1>2

----------------------------------------------------------------------------
(* The order of steps, and copies *)

StepRows == {Unborn, Gone} \cup StepRow

Stepped ==
  /\ step \in [Step -> StepRows]
  /\ \E n \in Nat : \A s \in Step : step[s].pos <= n
  /\ \A s \in Step : step[s].flow # None => owner[step[s].flow] # None

\* OrderIsTotal for one workflow, without the function.
Ordered(f) ==
  \A s, t \in Step : step[s].flow = f /\ step[t].flow = f /\ step[s].pos = step[t].pos => s = t

\* Positions that were read: of finitely many steps, so there is a last one.
Seen(list) ==
  /\ DOMAIN list \subseteq Step /\ \A s \in DOMAIN list : list[s] \in Nat
  /\ \E n \in Nat : \A s \in DOMAIN list : list[s] <= n

\* A step once found in a workflow is still of it or deleted: no request takes
\* one to another workflow.
StillOf(s, f) == s \in Step /\ (step[s] = Gone \/ step[s].flow = f)

Aimed(r) ==
  /\ req[r].ask.op \in {"addStep", "updateStep"} => req[r].ask.order \in {Unset} \cup Nat
  /\ req[r].ask.op \in {"updateStep", "deleteStep"} /\ req[r].at = "write"
       => StillOf(req[r].ask.step, req[r].flow)
  /\ req[r].ask.op = "reorder" =>
       /\ req[r].ask.ids \in Seq(Step)
       /\ req[r].at = "write" => \A s \in ToSet(req[r].ask.ids) : StillOf(s, req[r].flow)

\* What a clone has read still holds, unless an edit came between.
CopyUpToDate(r) ==
  req[r].ask.op = "clone" /\ r \notin overlapped =>
    /\ req[r].at \in {"readSteps", "write"} => req[r].trigger = trigger[req[r].flow]
    /\ req[r].at \in {"readLast", "write"} => req[r].steps = PositionsOf(req[r].flow)

Tracks(r) == Busy(r) => Seen(req[r].steps) /\ Aimed(r) /\ CopyUpToDate(r)

StepsInv ==
  /\ Stepped
  /\ \A f \in Flow : f \in tangled \/ Ordered(f)
  /\ \A r \in Request : Tracks(r)

LEMMA OrderedIs == ASSUME NEW f PROVE Ordered(f) <=> IsInjective(PositionsOf(f))
  BY DEF Ordered, PositionsOf, StepsOf, IsInjective

\* What may become of a row.
Ages(s) ==
  \/ step'[s] = step[s] \/ step[s] = Unborn \/ step'[s] = Gone
  \/ step[s] \in StepRow /\ step'[s] \in StepRow /\ step'[s].flow = step[s].flow

LEMMA StillOfStays ==
  ASSUME NEW s, NEW f \in Flow, StillOf(s, f), Ages(s) PROVE StillOf(s, f)'
  BY DEF StillOf, Ages, Gone, Unborn, StepRow

\* A workflow none of whose steps a step touches.
Untouched(f) ==
  \A s \in Step : step[s].flow = f \/ step'[s].flow = f => step'[s] = step[s]

LEMMA UntouchedStays ==
  ASSUME NEW f, Untouched(f) PROVE PositionsOf(f)' = PositionsOf(f) /\ (Ordered(f) => Ordered(f)')
  <1>1. StepsOf(f)' = StepsOf(f)
    BY DEF Untouched, StepsOf
  <1>2. \A s \in StepsOf(f) : step'[s].pos = step[s].pos
    BY DEF Untouched, StepsOf
  <1>3. PositionsOf(f)' = PositionsOf(f)
    BY <1>1, <1>2 DEF PositionsOf
  <1> QED
    BY <1>3 DEF Untouched, Ordered

\* A request in flight is of a workflow that there is, unless it creates one.
LEMMA BusyFlow ==
  ASSUME EditInv, NEW r \in Request, Busy(r)
  PROVE  /\ InForm(req[r]) /\ Sound(req[r].trigger) /\ req[r].flow \in Flow /\ r \in InFlight
         /\ req[r].ask.op # "create" => owner[req[r].flow] # None
  BY DEF EditInv, Begun, Busy, Places, Idle, Finished, InForm, InFlight

\* A step of request r.
LEMMA StepsFrame ==
  ASSUME EditInv, StepsInv, NEW r \in Request, NEW q, req' = [req EXCEPT ![r] = q],
         Stepped', \A f \in Flow : f \in tangled' \/ Ordered(f)',
         \A s \in Step : Ages(s), Tracks(r)',
         \A s \in Request : s # r /\ Busy(s) /\ s \notin overlapped' =>
           /\ s \notin overlapped
           /\ req[s].ask.op = "clone" =>
               \A g \in Flow : g = req[s].flow => trigger'[g] = trigger[g] /\ PositionsOf(g)' = PositionsOf(g)
  PROVE  StepsInv'
  <1>1. \A s \in Request : s # r => req'[s] = req[s]
    BY DEF EditInv, Typed
  <1>2. ASSUME NEW s \in Request, s # r, Busy(s)' PROVE Seen(req[s].steps)' /\ Aimed(s)' /\ CopyUpToDate(s)'
    <2>1. Busy(s) /\ req'[s] = req[s] /\ req[s].flow \in Flow
      BY <1>1, <1>2, BusyFlow DEF Busy
    <2>2. Seen(req[s].steps) /\ Aimed(s) /\ CopyUpToDate(s)
      BY <2>1 DEF StepsInv, Tracks
    <2>3. \A x : StillOf(x, req[s].flow) => StillOf(x, req[s].flow)'
      BY <2>1, StillOfStays DEF StillOf
    <2>4. Seen(req[s].steps)'
      BY <2>1, <2>2 DEF Seen
    <2>5. Aimed(s)'
      BY <2>1, <2>2, <2>3 DEF Aimed
    <2>6. CopyUpToDate(s)'
      BY <1>2, <2>1, <2>2 DEF CopyUpToDate
    <2> QED
      BY <2>4, <2>5, <2>6
  <1>3. \A s \in Request : Tracks(s)'
    BY <1>2 DEF Tracks
  <1> QED
    BY <1>3 DEF StepsInv

\* A step that leaves the rows of steps alone.
LEMMA SameSteps ==
  ASSUME EditInv, EditInv', StepsInv, step' = step, \A f \in Flow : owner[f] # None => owner'[f] # None
  PROVE  /\ Stepped' /\ \A f \in Flow : Ordered(f) => Ordered(f)'
         /\ \A s \in Step : Ages(s)
         /\ \A f : PositionsOf(f)' = PositionsOf(f)
  <1>1. \A s \in Step : step[s].flow # None => step[s].flow \in Flow
    BY DEF StepsInv, Stepped, StepRows, Unborn, Gone, StepRow
  <1>2. Stepped'
    BY <1>1 DEF StepsInv, Stepped
  <1> QED
    BY <1>2 DEF Ordered, Ages, PositionsOf, StepsOf

\* A write on the workflow of its request.
LEMMA WriteSteps ==
  ASSUME EditInv, EditInv', StepsInv, NEW r \in Request, NEW g \in Flow, g = req[r].flow, Busy(r), req[r].ask.op # "create",
         Wrote(r),
         owner' = owner, \A f \in Flow : f # g => trigger'[f] = trigger[f],
         step' \in [Step -> StepRows], \E n \in Nat : \A s \in Step : step'[s].pos <= n,
         \A s \in Step : Ages(s) /\ (step'[s] = step[s] \/ step'[s].flow \in {g, None}),
         \A s \in Step : step'[s] = step[s] \/ step[s].flow \in {g, None},
         \A f \in Flow : f # g /\ f \in tangled => f \in tangled',
         g \in tangled' \/ Ordered(g)'
  PROVE  StepsInv'
  <1>1. g \in Flow /\ owner[g] # None /\ None \notin Flow
    BY BusyFlow
  <1>2. req' = [req EXCEPT ![r] = Finished]
        /\ \A s \in InFlight : s # r /\ s \notin overlapped' => s \notin overlapped /\ req[s].flow # g
    BY DEF Wrote, Ends
  <1>3. \A f \in Flow \ {g} : Untouched(f)
    BY <1>1 DEF Untouched
  <1>4. Stepped'
    BY <1>1 DEF StepsInv, Stepped
  <1>5. \A f \in Flow : f \in tangled' \/ Ordered(f)'
    <2> SUFFICES ASSUME NEW f \in Flow, f # g PROVE f \in tangled' \/ Ordered(f)'
      OBVIOUS
    <2>1. f \in tangled \/ Ordered(f)
      BY DEF StepsInv
    <2> QED
      BY <1>3, <2>1, UntouchedStays
  <1>6. Tracks(r)'
    BY <1>2 DEF Tracks, Busy, Finished, Places, EditInv, Typed
  <1>7. \A s \in Request : s # r /\ Busy(s) /\ s \notin overlapped' =>
          /\ s \notin overlapped
          /\ \A f \in Flow : f = req[s].flow => trigger'[f] = trigger[f] /\ PositionsOf(f)' = PositionsOf(f)
    BY <1>2, <1>3, UntouchedStays, BusyFlow
  <1> QED
    BY <1>2, <1>4, <1>5, <1>6, <1>7, StepsFrame

LEMMA InitSteps == Init => StepsInv
  <1> SUFFICES ASSUME Init PROVE StepsInv
    OBVIOUS
  <1>1. step = InitialStep /\ owner = InitialOwner
    BY DEF Init
  <1>2. step \in [Step -> StepRows]
    BY <1>1, InitialSteps DEF StepRows
  <1>3. \E n \in Nat : \A s \in Step : step[s].pos <= n
    <2>1. CASE Step = {}
      BY <2>1
    <2>2. CASE \E t \in Step : \A s \in Step : InitialStep[s].pos <= InitialStep[t].pos
      <3>1. PICK t \in Step : \A s \in Step : step[s].pos <= step[t].pos
        BY <1>1, <2>2
      <3>2. CASE step[t].pos \in Nat
        BY <3>1, <3>2
      <3>3. CASE step[t].pos = -1
        <4>1. \A s \in Step : step[s].pos \in Int
          BY <1>2 DEF StepRows, Unborn, Gone, StepRow
        <4>2. \A s \in Step : step[s].pos <= 0
          BY <3>1, <3>3, <4>1
        <4> QED
          BY <4>2
      <3> QED
        BY <1>1, <3>2, <3>3, InitialSteps DEF Unborn, StepRow
    <2> QED
      BY <2>1, <2>2, InitialSteps
  <1>4. \A s \in Step : step[s].flow # None => owner[step[s].flow] # None
    BY <1>1, InitialSteps DEF Unborn
  <1>5. \A f \in Flow : Ordered(f)
    <2> SUFFICES ASSUME NEW f \in Flow, NEW s \in Step, NEW t \in Step,
                        step[s].flow = f, step[t].flow = f, step[s].pos = step[t].pos
                 PROVE  s = t
      BY DEF Ordered
    <2>1. step[s] # Unborn
      BY DEF Unborn
    <2>2. step[s] \in StepRow /\ step[t] \in StepRow
      BY <1>1, InitialSteps DEF Unborn
    <2>3. step[s] = step[t]
      BY <2>2 DEF StepRow
    <2> QED
      BY <1>1, <2>1, <2>3, InitialSteps
  <1>6. \A r \in Request : Tracks(r)
    BY DEF Init, Tracks, Busy, Idle, Places
  <1> QED
    BY <1>2, <1>3, <1>4, <1>5, <1>6 DEF StepsInv, Stepped

\* The positions of a workflow, as a read takes them.
LEMMA ListSeen == ASSUME StepsInv, NEW f \in Flow PROVE Seen(PositionsOf(f))
  BY DEF StepsInv, Stepped, Seen, PositionsOf, StepsOf, StepRows, StepRow, Unborn, Gone

\* A client gives a reorder finitely many ids.
LEMMA IdsAreSteps ==
  ASSUME StepsInv, NEW f \in Flow, NEW ids \in SetToSeqs(StepsOf(f)) \cup {<<s>> : s \in Known}
  PROVE  ids \in Seq(Step)
  <1>1. CASE ids \in SetToSeqs(StepsOf(f))
    <2>1. StepsOf(f) \in SUBSET Step
      BY DEF StepsOf
    <2>2. Cardinality(StepsOf(f)) \in Nat
      BY <2>1, FS_Subset, FS_CardinalityType
    <2>3. ids \in [1..Cardinality(StepsOf(f)) -> StepsOf(f)]
      BY <1>1 DEF SetToSeqs
    <2> QED
      BY <2>1, <2>2, <2>3
  <1>2. CASE ids \in {<<s>> : s \in Known}
    BY <1>2 DEF Known
  <1> QED
    BY <1>1, <1>2

LEMMA BeginSteps ==
  ASSUME EditInv, EditInv', StepsInv, NEW r \in Request, Begin(r) PROVE StepsInv'
  <1>1. UNCHANGED <<owner, trigger, step, overlapped, tangled>>
    BY DEF Begin
  <1>2. PICK f \in Flow, u \in User :
          \E ask \in CreateRequests \cup StatusRequests \cup CloneRequests \cup StepRequests(f) \cup TriggerRequests(f) :
            req' = [req EXCEPT ![r] = IF OwnerGuard(f, u, ask) THEN Asked(f, u, ask) ELSE Finished]
    BY DEF Begin
  <1>3. PICK ask \in CreateRequests \cup StatusRequests \cup CloneRequests \cup StepRequests(f) \cup TriggerRequests(f) :
          req' = [req EXCEPT ![r] = IF OwnerGuard(f, u, ask) THEN Asked(f, u, ask) ELSE Finished]
    BY <1>2
  <1>4. PICK q : q = (IF OwnerGuard(f, u, ask) THEN Asked(f, u, ask) ELSE Finished) /\ req' = [req EXCEPT ![r] = q]
    BY <1>3
  <1>5. req'[r] = q
    BY <1>4 DEF EditInv, Typed
  <1>6. q # Finished => /\ q.ask = ask /\ q.steps = <<>>
                        /\ q.at \in {"read", "write"} /\ (q.at = "write" => ask.op \in {"create", "addStep"})
    BY <1>4 DEF Asked
  <1>7. /\ ask.op \in {"addStep", "updateStep"} => ask.order \in {Unset} \cup Nat
        /\ ask.op = "reorder" => ask.ids \in Seq(Step)
    <2>1. ask.op = "reorder" => ask.ids \in SetToSeqs(StepsOf(f)) \cup {<<s>> : s \in Known}
      BY DEF CreateRequests, StatusRequests, CloneRequests, StepRequests, TriggerRequests
    <2>2. ask.op \in {"addStep", "updateStep"} => ask.order \in {Unset} \cup Nat
      BY DEF CreateRequests, StatusRequests, CloneRequests, StepRequests, TriggerRequests, Orders
    <2> QED
      BY <2>1, <2>2, IdsAreSteps
  <1>8. Tracks(r)'
    <2> SUFFICES ASSUME q # Finished PROVE Seen(q.steps)' /\ Aimed(r)' /\ CopyUpToDate(r)'
      BY <1>5 DEF Tracks, Busy, Finished, Places
    <2>1. Seen(<<>>)'
      BY DEF Seen
    <2>2. Aimed(r)'
      BY <1>5, <1>6, <1>7 DEF Aimed
    <2>3. CopyUpToDate(r)'
      BY <1>5, <1>6 DEF CopyUpToDate
    <2> QED
      BY <1>6, <2>1, <2>2, <2>3
  <1>9. /\ Stepped' /\ \A g \in Flow : g \in tangled' \/ Ordered(g)'
        /\ \A s \in Step : Ages(s)
        /\ \A g : PositionsOf(g)' = PositionsOf(g)
    BY <1>1, SameSteps DEF StepsInv
  <1>10. req' = [req EXCEPT ![r] = q]
    BY <1>4
  <1>11. \A s \in Request : s # r /\ Busy(s) /\ s \notin overlapped' =>
           /\ s \notin overlapped
           /\ req[s].ask.op = "clone" =>
               \A g \in Flow : g = req[s].flow => trigger'[g] = trigger[g] /\ PositionsOf(g)' = PositionsOf(g)
    BY <1>1, <1>9
  <1> QED
    BY <1>8, <1>9, <1>10, <1>11, StepsFrame

LEMMA ReadsSteps ==
  ASSUME EditInv, EditInv', StepsInv, NEW r \in Request,
         Visible(r) \/ CloneTrigger(r) \/ CloneSteps(r) \/ ReadList(r) \/ FindStep(r) \/ FindTrigger(r)
  PROVE  StepsInv'
  <1>1. Busy(r) /\ Read
    BY ReadsRow
  <1>2. PICK q : req' = [req EXCEPT ![r] = q] /\ (q = Finished \/ Reads(r, q))
    BY ReadsRow
  <1>3. UNCHANGED <<owner, trigger, step, tangled>> /\ overlapped' = {s \in overlapped : req'[s] # Finished}
    BY <1>1 DEF Read
  <1>4. req'[r] = q /\ \A s \in Request : s # r => req'[s] = req[s]
    BY <1>2 DEF EditInv, Typed
  <1>5. /\ InForm(req[r]) /\ req[r].flow \in Flow
        /\ Seen(req[r].steps) /\ Aimed(r) /\ CopyUpToDate(r)
    BY <1>1, BusyFlow DEF StepsInv, Tracks
  <1>6. /\ Stepped' /\ \A g \in Flow : g \in tangled' \/ Ordered(g)'
        /\ \A s \in Step : Ages(s)
        /\ \A g : PositionsOf(g)' = PositionsOf(g)
    BY <1>3, SameSteps DEF StepsInv
  <1>7. Tracks(r)'
    <2> SUFFICES ASSUME q # Finished PROVE Seen(q.steps)' /\ Aimed(r)' /\ CopyUpToDate(r)'
      BY <1>4 DEF Tracks, Busy, Finished, Places
    <2>1. q.ask = req[r].ask /\ q.flow = req[r].flow /\ Informed(r, q)
      BY <1>2 DEF Reads
    <2>2. Seen(q.steps)'
      <3>1. Seen(q.steps)
        BY <1>5, <2>1, ListSeen DEF Informed
      <3> QED
        BY <3>1 DEF Seen
    <2>3. Aimed(r)'
      <3>1. \A f, s : s \in StepsOf(f) => StillOf(s, f)'
        BY <1>3 DEF StepsOf, StillOf
      <3> QED
        BY <1>4, <1>5, <2>1, <3>1 DEF Aimed, Informed
    <2>4. CopyUpToDate(r)'
      <3> SUFFICES ASSUME q.ask.op = "clone", r \notin overlapped'
                   PROVE  /\ q.at \in {"readSteps", "write"} => q.trigger = trigger[q.flow]
                          /\ q.at \in {"readLast", "write"} => q.steps = PositionsOf(q.flow)
        BY <1>3, <1>4, <1>6 DEF CopyUpToDate
      <3>1. r \notin overlapped
        BY <1>3, <1>4
      <3>2. /\ req[r].at = "readSteps" => req[r].trigger = trigger[req[r].flow]
            /\ req[r].at = "readLast" => req[r].steps = PositionsOf(req[r].flow)
        BY <1>5, <2>1, <3>1 DEF CopyUpToDate
      <3> QED
        BY <2>1, <3>2 DEF Informed
    <2> QED
      BY <2>2, <2>3, <2>4
  <1>8. \A s \in Request : s # r /\ Busy(s) /\ s \notin overlapped' =>
          /\ s \notin overlapped
          /\ req[s].ask.op = "clone" =>
              \A g \in Flow : g = req[s].flow => trigger'[g] = trigger[g] /\ PositionsOf(g)' = PositionsOf(g)
    <2>1. \A s \in Request : s # r /\ Busy(s) => req'[s] # Finished
      BY <1>4 DEF Busy, Finished, Places
    <2> QED
      BY <1>3, <1>6, <2>1
  <1> QED
    BY <1>2, <1>6, <1>7, <1>8, StepsFrame

\* Writes that have nothing to do with steps.
LEMMA OtherWritesSteps ==
  ASSUME EditInv, EditInv', StepsInv, NEW r \in Request,
         SetStatus(r) \/ UpsertTrigger(r) \/ DeleteTrigger(r)
  PROVE  StepsInv'
  <1>1. UNCHANGED <<owner, step, tangled>> /\ Wrote(r) /\ Busy(r) /\ req[r].ask.op # "create"
    BY DEF SetStatus, UpsertTrigger, DeleteTrigger, At, Busy, Places
  <1>2. PICK g \in Flow : g = req[r].flow
    BY <1>1, BusyFlow
  <1>3. \A f \in Flow : f # g => trigger'[f] = trigger[f]
    BY <1>2 DEF SetStatus, UpsertTrigger, DeleteTrigger, EditInv, Typed
  <1>4. Stepped /\ (g \in tangled' \/ Ordered(g)')
    BY <1>1, SameSteps DEF StepsInv
  <1>5. \A s \in Step : Ages(s)
    BY <1>1 DEF Ages
  <1>6. step' \in [Step -> StepRows] /\ \E n \in Nat : \A s \in Step : step'[s].pos <= n
    BY <1>1, <1>4 DEF Stepped
  <1> QED
    BY <1>1, <1>2, <1>3, <1>4, <1>5, <1>6, WriteSteps

LEMMA CreateFlowSteps ==
  ASSUME EditInv, EditInv', StepsInv, NEW r \in Request, CreateFlow(r) PROVE StepsInv'
  <1>1. UNCHANGED <<trigger, step, tangled>> /\ Ends(r, {}) /\ Busy(r)
        /\ req[r].ask.op = "create" /\ InsertFlow(req[r].caller, req[r].ask.to)
    BY DEF CreateFlow, At, Busy, Places
  <1>2. req[r].caller \in User /\ req[r].ask.to \in WorkflowStatus /\ Typed
    BY <1>1, BusyFlow DEF InForm, AskOK, EditInv
  <1>3. \A f \in Flow : owner[f] # None => owner'[f] # None
    BY <1>1, <1>2, Fresh
  <1>4. /\ Stepped' /\ \A f \in Flow : f \in tangled' \/ Ordered(f)'
        /\ \A s \in Step : Ages(s)
        /\ \A g : PositionsOf(g)' = PositionsOf(g)
    BY <1>1, <1>3, SameSteps DEF StepsInv
  <1>5. req' = [req EXCEPT ![r] = Finished] /\ \A s \in Request : s # r /\ s \notin overlapped' => s \notin overlapped
    BY <1>1 DEF Ends
  <1>6. Tracks(r)'
    BY <1>2, <1>5 DEF Tracks, Busy, Finished, Places, Typed
  <1>7. \A s \in Request : s # r /\ Busy(s) /\ s \notin overlapped' =>
          /\ s \notin overlapped
          /\ req[s].ask.op = "clone" =>
               \A g \in Flow : g = req[s].flow => trigger'[g] = trigger[g] /\ PositionsOf(g)' = PositionsOf(g)
    BY <1>1, <1>4, <1>5
  <1> QED
    BY <1>4, <1>5, <1>6, <1>7, StepsFrame

\* A list that was read has a last position.
LEMMA LastPosition ==
  ASSUME NEW list, Seen(list), DOMAIN list # {}
  PROVE  \E p \in {list[s] : s \in DOMAIN list} : \A s \in DOMAIN list : list[s] <= p
  <1> DEFINE bounds == {n \in Nat : \A s \in DOMAIN list : list[s] <= n}
             less   == OpToRel(<, Nat)
  <1>1. PICK n \in bounds : \A m \in bounds : <<m, n>> \notin less
    <2>1. bounds # {} /\ bounds \subseteq Nat
      BY DEF Seen
    <2> HIDE DEF less, bounds
    <2>2. IsWellFoundedOn(less, Nat)
      BY NatLessThanWellFounded DEF less
    <2> QED
      BY <2>1, <2>2, WFMin
  <1>2. ASSUME \A s \in DOMAIN list : list[s] # n PROVE FALSE
    <2>1. \A s \in DOMAIN list : list[s] \in Nat /\ list[s] <= n - 1
      BY <1>2 DEF Seen
    <2>2. n - 1 \in Nat
      BY <2>1
    <2>3. n - 1 \in bounds /\ n - 1 < n
      BY <2>1, <2>2
    <2>4. <<n - 1, n>> \in less
      BY <2>2, <2>3 DEF OpToRel
    <2> QED
      BY <1>1, <2>3, <2>4
  <1> QED
    BY <1>2

\* The position of a new step: the one asked for, or one past all that were read.
LEMMA PositionIs ==
  ASSUME NEW r \in Request, Seen(req[r].steps), req[r].ask.order \in {Unset} \cup Nat
  PROVE  /\ PositionFor(r) \in Nat
         /\ req[r].ask.order = Unset => \A s \in DOMAIN req[r].steps : req[r].steps[s] < PositionFor(r)
  <1> DEFINE list == req[r].steps
             last == CHOOSE p \in {list[s] : s \in DOMAIN list} : \A s \in DOMAIN list : list[s] <= p
  <1>1. CASE req[r].ask.order # Unset
    BY <1>1 DEF PositionFor
  <1>2. CASE req[r].ask.order = Unset /\ DOMAIN list = {}
    BY <1>2 DEF PositionFor
  <1>3. CASE req[r].ask.order = Unset /\ DOMAIN list # {}
    <2>1. last \in {list[s] : s \in DOMAIN list} /\ \A s \in DOMAIN list : list[s] <= last
      BY <1>3, LastPosition
    <2>2. PositionFor(r) = 1 + last
      BY <1>3 DEF PositionFor
    <2> HIDE DEF last
    <2>3. last \in Nat /\ \A s \in DOMAIN list : list[s] \in Nat
      BY <2>1 DEF Seen
    <2> QED
      BY <2>1, <2>2, <2>3
  <1> QED
    BY <1>1, <1>2, <1>3

LEMMA AddStepSteps ==
  ASSUME EditInv, EditInv', StepsInv, NEW r \in Request, AddStep(r) PROVE StepsInv'
  <1>1. UNCHANGED <<owner, trigger>> /\ Wrote(r) /\ Busy(r) /\ req[r].ask.op = "addStep"
        /\ InsertStep(req[r].flow, PositionFor(r))
        /\ Tangle(r, req[r].ask.order # Unset \/ Grown(r))
    BY DEF AddStep, At, Busy, Places
  <1>2. PICK g \in Flow : g = req[r].flow
    BY <1>1, BusyFlow
  <1>3. Seen(req[r].steps) /\ req[r].ask.order \in {Unset} \cup Nat
    BY <1>1 DEF StepsInv, Tracks, Aimed
  <1>4. PICK p : p = PositionFor(r)
    OBVIOUS
  <1>5. p \in Nat /\ (req[r].ask.order = Unset => \A s \in DOMAIN req[r].steps : req[r].steps[s] < p)
    BY <1>3, <1>4, PositionIs
  <1>6. PICK x \in Step : step[x] = Unborn /\ step' = [step EXCEPT ![x] = [flow |-> g, pos |-> p]]
    <2>1. PICK x \in FreshSteps : x = (CHOOSE s \in FreshSteps : TRUE)
      BY <1>1 DEF InsertStep
    <2> QED
      BY <1>1, <1>2, <1>4, <2>1 DEF InsertStep, FreshSteps
  <1>7. Stepped /\ step' \in [Step -> StepRows] /\ step'[x] = [flow |-> g, pos |-> p]
    BY <1>2, <1>5, <1>6 DEF StepsInv, Stepped, StepRows, StepRow
  <1>8. \E n \in Nat : \A s \in Step : step'[s].pos <= n
    <2>1. PICK n \in Nat : \A s \in Step : step[s].pos <= n
      BY <1>7 DEF Stepped
    <2>2. PICK m \in {n, p} : n <= m /\ p <= m
      BY <1>5
    <2>3. \A s \in Step : step[s].pos \in Int
      BY <1>7 DEF Stepped, StepRows, Unborn, Gone, StepRow
    <2>4. m \in Nat /\ \A s \in Step : step'[s].pos <= m
      BY <1>5, <1>6, <1>7, <2>1, <2>2, <2>3
    <2> QED
      BY <2>4
  <1>9. \A s \in Step : /\ Ages(s) /\ (step'[s] = step[s] \/ step'[s].flow \in {g, None})
                        /\ step'[s] = step[s] \/ step[s].flow \in {g, None}
    BY <1>6, <1>7 DEF Ages, Unborn, Stepped
  <1>10. \A f \in Flow : f \in tangled => f \in tangled'
    BY <1>1 DEF Tangle
  <1>11. g \in tangled' \/ Ordered(g)'
    <2>1. CASE req[r].ask.order # Unset \/ Grown(r)
      BY <1>1, <1>2, <2>1 DEF Tangle
    <2>2. CASE g \in tangled
      BY <1>10, <2>2
    <2>3. CASE req[r].ask.order = Unset /\ ~Grown(r) /\ Ordered(g)
      <3>1. \A s \in Step : step[s].flow = g => s \in DOMAIN req[r].steps /\ req[r].steps[s] = step[s].pos
        BY <1>2, <2>3 DEF Grown, StepsOf
      <3>2. \A s \in Step : step[s].flow = g => step[s].pos \in Nat /\ step[s].pos < p
        BY <1>3, <1>5, <2>3, <3>1 DEF Seen
      <3>3. \A s \in Step : s # x => step'[s] = step[s]
        BY <1>6, <1>7 DEF Stepped
      <3> QED
        BY <1>5, <1>7, <2>3, <3>2, <3>3 DEF Ordered
    <2> QED
      BY <2>1, <2>2, <2>3 DEF StepsInv
  <1> QED
    BY <1>1, <1>2, <1>7, <1>8, <1>9, <1>10, <1>11, WriteSteps

LEMMA UpdateStepSteps ==
  ASSUME EditInv, EditInv', StepsInv, NEW r \in Request, UpdateStep(r) PROVE StepsInv'
  <1> DEFINE x == req[r].ask.step
  <1>1. UNCHANGED <<owner, trigger>> /\ Wrote(r) /\ Busy(r) /\ req[r].ask.op = "updateStep"
        /\ step' = (IF Moves(r) THEN [step EXCEPT ![x].pos = req[r].ask.order] ELSE step)
        /\ Tangle(r, Moves(r))
    BY DEF UpdateStep, At, Busy, Places
  <1>2. PICK g \in Flow : g = req[r].flow
    BY <1>1, BusyFlow
  <1>3. StillOf(x, g) /\ req[r].ask.order \in {Unset} \cup Nat /\ Stepped
    BY <1>1, <1>2 DEF StepsInv, Tracks, Aimed, UpdateStep, At
  <1>4. CASE ~Moves(r)
    <2>1. step' = step /\ tangled' = tangled
      BY <1>1, <1>4 DEF Tangle
    <2>2. g \in tangled' \/ Ordered(g)'
      BY <2>1, SameSteps, <1>1 DEF StepsInv
    <2> QED
      BY <1>1, <1>2, <1>3, <2>1, <2>2, WriteSteps DEF Stepped, Ages
  <1>5. CASE Moves(r)
    <2>1. req[r].ask.order \in Nat /\ x \in Step /\ step[x].flow = g
      BY <1>3, <1>5 DEF Moves, StillOf
    <2>2. step[x] \in StepRow
      BY <1>2, <1>3, <2>1 DEF Stepped, StepRows, Unborn, Gone
    <2>3. step' = [step EXCEPT ![x] = [flow |-> g, pos |-> req[r].ask.order]]
      <3>1. [step[x] EXCEPT !.pos = req[r].ask.order] = [flow |-> g, pos |-> req[r].ask.order]
        BY <2>1, <2>2 DEF StepRow
      <3> QED
        BY <1>1, <1>5, <3>1
    <2>4. step' \in [Step -> StepRows] /\ step'[x] = [flow |-> g, pos |-> req[r].ask.order]
          /\ \A s \in Step : s # x => step'[s] = step[s]
      BY <1>2, <1>3, <2>1, <2>3 DEF Stepped, StepRows, StepRow
    <2>5. \E n \in Nat : \A s \in Step : step'[s].pos <= n
      <3>1. PICK n \in Nat : \A s \in Step : step[s].pos <= n
        BY <1>3 DEF Stepped
      <3>2. PICK m \in {n, req[r].ask.order} : n <= m /\ req[r].ask.order <= m
        BY <2>1
      <3>3. \A s \in Step : step[s].pos \in Int
        BY <1>3 DEF Stepped, StepRows, Unborn, Gone, StepRow
      <3>4. m \in Nat /\ \A s \in Step : step'[s].pos <= m
        BY <2>1, <2>4, <3>1, <3>2, <3>3
      <3> QED
        BY <3>4
    <2>6. \A s \in Step : /\ Ages(s) /\ (step'[s] = step[s] \/ step'[s].flow \in {g, None})
                          /\ step'[s] = step[s] \/ step[s].flow \in {g, None}
      BY <2>1, <2>2, <2>4 DEF Ages, StepRow
    <2>7. g \in tangled' /\ \A f \in Flow : f \in tangled => f \in tangled'
      BY <1>1, <1>2, <1>5 DEF Tangle
    <2> QED
      BY <1>1, <1>2, <2>4, <2>5, <2>6, <2>7, WriteSteps
  <1> QED
    BY <1>4, <1>5

LEMMA DeleteStepSteps ==
  ASSUME EditInv, EditInv', StepsInv, NEW r \in Request, DeleteStep(r) PROVE StepsInv'
  <1> DEFINE x == req[r].ask.step
  <1>1. UNCHANGED <<owner, trigger, tangled>> /\ Wrote(r) /\ Busy(r) /\ req[r].ask.op = "deleteStep"
        /\ step' = [step EXCEPT ![x] = Gone]
    BY DEF DeleteStep, At, Busy, Places
  <1>2. PICK g \in Flow : g = req[r].flow
    BY <1>1, BusyFlow
  <1>3. StillOf(x, g) /\ Stepped
    BY <1>1, <1>2 DEF StepsInv, Tracks, Aimed, DeleteStep, At
  <1>4. x \in Step /\ step'[x] = Gone /\ (\A s \in Step : s # x => step'[s] = step[s])
        /\ step' \in [Step -> StepRows] /\ Gone.flow = None /\ Gone.pos = -2
    BY <1>1, <1>3 DEF Stepped, StepRows, StillOf, Gone
  <1>5. \E n \in Nat : \A s \in Step : step'[s].pos <= n
    <2>1. PICK n \in Nat : \A s \in Step : step[s].pos <= n
      BY <1>3 DEF Stepped
    <2>2. \A s \in Step : step'[s].pos <= n
      BY <1>4, <2>1
    <2> QED
      BY <2>2
  <1>6. \A s \in Step : /\ Ages(s) /\ (step'[s] = step[s] \/ step'[s].flow \in {g, None})
                        /\ step'[s] = step[s] \/ step[s].flow \in {g, None}
    BY <1>3, <1>4 DEF Ages, StillOf
  <1>7. g \in tangled' \/ Ordered(g)'
    BY <1>1, <1>2, <1>4 DEF StepsInv, Ordered
  <1> QED
    BY <1>1, <1>2, <1>4, <1>5, <1>6, <1>7, WriteSteps

\* A reorder leaves the steps it is given at the places it gives them.
LEMMA PlacedSteps ==
  ASSUME NEW g \in Flow, Stepped, NEW ids \in Seq(Step), \A s \in ToSet(ids) : StillOf(s, g)
  PROVE  \A s \in Step :
           \/ Placed(ids)[s] = step[s] /\ (s \notin ToSet(ids) \/ step[s] = Gone)
           \/ /\ s \in ToSet(ids) /\ step[s] \in StepRow /\ step[s].flow = g
              /\ \E i \in DOMAIN ids : ids[i] = s /\ Placed(ids)[s] = [flow |-> g, pos |-> i - 1]
  <1> SUFFICES ASSUME NEW s \in Step, s \in ToSet(ids), step[s] # Gone
               PROVE  /\ step[s] \in StepRow /\ step[s].flow = g
                      /\ \E i \in DOMAIN ids : ids[i] = s /\ Placed(ids)[s] = [flow |-> g, pos |-> i - 1]
    BY DEF Placed
  <1>1. step[s].flow = g /\ step[s] \in StepRow
    BY DEF StillOf, Stepped, StepRows, Unborn, Gone
  <1>2. PICK i \in DOMAIN ids : i = (CHOOSE j \in DOMAIN ids : ids[j] = s) /\ ids[i] = s
    BY DEF ToSet
  <1>3. Placed(ids)[s] = [step[s] EXCEPT !.pos = i - 1]
    BY <1>2 DEF Placed
  <1>4. [step[s] EXCEPT !.pos = i - 1] = [flow |-> g, pos |-> i - 1]
    BY <1>1 DEF StepRow
  <1> QED
    BY <1>1, <1>2, <1>3, <1>4

LEMMA SetPositionsSteps ==
  ASSUME EditInv, EditInv', StepsInv, NEW r \in Request, SetPositions(r) PROVE StepsInv'
  <1>1. UNCHANGED <<owner, trigger>> /\ Wrote(r) /\ Busy(r) /\ req[r].ask.op = "reorder" /\ req[r].at = "write"
    BY DEF SetPositions, At, Busy, Places
  <1>2. PICK g \in Flow : g = req[r].flow
    BY <1>1, BusyFlow
  <1>3. PICK ids \in Seq(Step) : ids = req[r].ask.ids /\ \A s \in ToSet(ids) : StillOf(s, g)
    BY <1>1, <1>2 DEF StepsInv, Tracks, Aimed
  <1>4. \/ step' = step /\ tangled' = tangled
        \/ /\ step' = Placed(ids)
           /\ tangled' = IF ToSet(ids) = StepsOf(g) THEN tangled \ {g} ELSE tangled \cup {g}
    BY <1>2, <1>3 DEF SetPositions
  <1>5. Stepped
    BY DEF StepsInv
  <1>6. CASE step' = step /\ tangled' = tangled
    <2>1. g \in tangled' \/ Ordered(g)'
      BY <1>1, <1>6, SameSteps DEF StepsInv
    <2> QED
      BY <1>1, <1>2, <1>5, <1>6, <2>1, WriteSteps DEF Stepped, Ages
  <1>7. CASE /\ step' = Placed(ids)
             /\ tangled' = IF ToSet(ids) = StepsOf(g) THEN tangled \ {g} ELSE tangled \cup {g}
    <2>1. \A s \in Step :
            \/ step'[s] = step[s] /\ (s \notin ToSet(ids) \/ step[s] = Gone)
            \/ /\ s \in ToSet(ids) /\ step[s] \in StepRow /\ step[s].flow = g
               /\ \E i \in DOMAIN ids : ids[i] = s /\ step'[s] = [flow |-> g, pos |-> i - 1]
      <3>1. \A s \in Step :
              \/ Placed(ids)[s] = step[s] /\ (s \notin ToSet(ids) \/ step[s] = Gone)
              \/ /\ s \in ToSet(ids) /\ step[s] \in StepRow /\ step[s].flow = g
                 /\ \E i \in DOMAIN ids : ids[i] = s /\ Placed(ids)[s] = [flow |-> g, pos |-> i - 1]
        BY <1>3, <1>5, PlacedSteps
      <3>2. step' = Placed(ids)
        BY <1>7
      <3> QED
        BY <3>1, <3>2, Zenon
    <2>2. \A s \in Step : step[s] \in StepRows /\ step[s].pos \in Int
      BY <1>5 DEF Stepped, StepRows, StepRow, Unborn, Gone
    <2>3. \A s \in Step : step'[s] = step[s] \/ (step[s] \in StepRow /\ step'[s] \in StepRow /\ step'[s].flow = g /\ step[s].flow = g
                                                 /\ step'[s].pos < Len(ids))
      <3> SUFFICES ASSUME NEW s \in Step, step'[s] # step[s]
                   PROVE  /\ step[s] \in StepRow /\ step'[s] \in StepRow /\ step'[s].flow = g /\ step[s].flow = g
                          /\ step'[s].pos < Len(ids)
        OBVIOUS
      <3>1. step[s] \in StepRow /\ step[s].flow = g
        BY <2>1
      <3>2. PICK i \in DOMAIN ids : ids[i] = s /\ step'[s] = [flow |-> g, pos |-> i - 1]
        BY <2>1
      <3>3. i \in 1..Len(ids)
        BY <1>3
      <3> QED
        BY <3>1, <3>2, <3>3 DEF StepRow
    <2>4. step' \in [Step -> StepRows]
      <3>1. \A s \in Step : step'[s] \in StepRows
        BY <2>2, <2>3 DEF StepRows
      <3> QED
        BY <1>7, <3>1 DEF Placed
    <2>5. \E n \in Nat : \A s \in Step : step'[s].pos <= n
      <3>1. PICK n \in Nat : \A s \in Step : step[s].pos <= n
        BY <1>5 DEF Stepped
      <3>2. PICK m \in {n, Len(ids)} : n <= m /\ Len(ids) <= m
        OBVIOUS
      <3>3. ASSUME NEW s \in Step PROVE step'[s].pos <= m
        <4>1. CASE step'[s] = step[s]
          BY <2>2, <3>1, <3>2, <4>1
        <4>2. CASE step'[s] \in StepRow /\ step'[s].pos < Len(ids)
          BY <3>2, <4>2 DEF StepRow
        <4> QED
          BY <2>3, <4>1, <4>2
      <3> QED
        BY <3>2, <3>3
    <2>6. \A s \in Step : /\ Ages(s) /\ (step'[s] = step[s] \/ step'[s].flow \in {g, None})
                          /\ step'[s] = step[s] \/ step[s].flow \in {g, None}
      BY <2>3 DEF Ages
    <2>7. \A f \in Flow : f # g /\ f \in tangled => f \in tangled'
      BY <1>7
    <2>8. g \in tangled' \/ Ordered(g)'
      <3> SUFFICES ASSUME ToSet(ids) = StepsOf(g), NEW s \in Step, NEW t \in Step,
                          step'[s].flow = g, step'[t].flow = g, step'[s].pos = step'[t].pos
                   PROVE  s = t
        BY <1>7 DEF Ordered
      <3>1. \A x \in Step : step'[x].flow = g => x \in ToSet(ids) /\ step[x] # Gone
        BY <2>3 DEF StepsOf, Gone
      <3>2. \A x \in Step : x \in ToSet(ids) /\ step[x] # Gone =>
              \E i \in DOMAIN ids : ids[i] = x /\ step'[x] = [flow |-> g, pos |-> i - 1]
        BY <2>1
      <3>3. PICK i \in DOMAIN ids : ids[i] = s /\ step'[s] = [flow |-> g, pos |-> i - 1]
        BY <3>1, <3>2
      <3>4. PICK j \in DOMAIN ids : ids[j] = t /\ step'[t] = [flow |-> g, pos |-> j - 1]
        BY <3>1, <3>2
      <3>5. i \in 1..Len(ids) /\ j \in 1..Len(ids)
        BY <1>3, <3>3, <3>4
      <3>6. i = j
        BY <3>3, <3>4, <3>5
      <3> QED
        BY <3>3, <3>4, <3>6
    <2> QED
      BY <1>1, <1>2, <2>4, <2>5, <2>6, <2>7, <2>8, WriteSteps
  <1> QED
    BY <1>4, <1>6, <1>7

\* There is room for a copy of every step: one fresh id for each.
LEMMA InjectionExists ==
  ASSUME NEW S, NEW T, IsFiniteSet(S), IsFiniteSet(T), Cardinality(S) <= Cardinality(T)
  PROVE  \E h \in [S -> T] : IsInjective(h)
  <1> DEFINE n == Cardinality(S)
             m == Cardinality(T)
  <1>1. n \in Nat /\ m \in Nat /\ ExistsBijection(1..n, S) /\ ExistsBijection(1..m, T)
    BY FS_CardinalityType
  <1> HIDE DEF n, m
  <1>2. PICK b \in [1..n -> S] : \A x \in S : \E k \in 1..n : b[k] = x
    BY <1>1 DEF ExistsBijection, Bijection, Injection, Surjection
  <1>3. PICK c \in [1..m -> T] : \A k, l \in 1..m : c[k] = c[l] => k = l
    <2>1. PICK c \in Bijection(1..m, T) : TRUE
      BY <1>1 DEF ExistsBijection
    <2>2. c \in [1..m -> T] /\ IsInjective(c)
      BY <2>1 DEF Bijection, Injection
    <2> QED
      BY <2>2 DEF IsInjective
  <1> DEFINE nth(x) == CHOOSE k \in 1..n : b[k] = x
             h == [x \in S |-> c[nth(x)]]
  <1>4. \A x \in S : nth(x) \in 1..n /\ b[nth(x)] = x
    BY <1>2
  <1>5. \A x \in S : nth(x) \in 1..m
    BY <1>1, <1>4 DEF n, m
  <1> HIDE DEF nth
  <1>6. h \in [S -> T]
    BY <1>3, <1>5
  <1>7. IsInjective(h)
    BY <1>3, <1>4, <1>5 DEF IsInjective
  <1> QED
    BY <1>6, <1>7

\* The rows of a copy.
LEMMA Copied ==
  ASSUME NEW f, NEW list, DOMAIN list \subseteq Step,
         Cardinality(FreshSteps) >= Cardinality(DOMAIN list)
  PROVE  \E into \in [DOMAIN list -> FreshSteps] :
           /\ IsInjective(into)
           /\ \A x \in DOMAIN list : CopySteps(f, list)[into[x]] = [flow |-> f, pos |-> list[x]]
           /\ \A s \in Step : (\A x \in DOMAIN list : into[x] # s) => CopySteps(f, list)[s] = step[s]
  <1> DEFINE S == DOMAIN list
             into == CHOOSE h \in [S -> FreshSteps] : IsInjective(h)
  <1>1. into \in [S -> FreshSteps] /\ IsInjective(into)
    <2>1. IsFiniteSet(S) /\ IsFiniteSet(FreshSteps)
      BY FS_Subset DEF FreshSteps
    <2>2. Cardinality(S) <= Cardinality(FreshSteps)
      BY <2>1, FS_CardinalityType
    <2>3. \E h \in [S -> FreshSteps] : IsInjective(h)
      BY <2>1, <2>2, InjectionExists
    <2> QED
      BY <2>3
  <1>2. CopySteps(f, list) =
          [s \in Step |-> IF \E x \in S : into[x] = s
                          THEN [flow |-> f, pos |-> list[CHOOSE x \in S : into[x] = s]] ELSE step[s]]
    BY DEF CopySteps
  <1> HIDE DEF into
  <1>3. ASSUME NEW x \in S PROVE CopySteps(f, list)[into[x]] = [flow |-> f, pos |-> list[x]]
    <2>1. into[x] \in Step
      BY <1>1 DEF FreshSteps
    <2>2. (CHOOSE y \in S : into[y] = into[x]) = x
      BY <1>1 DEF IsInjective
    <2> QED
      BY <1>2, <2>1, <2>2
  <1>4. ASSUME NEW s \in Step, \A x \in S : into[x] # s PROVE CopySteps(f, list)[s] = step[s]
    BY <1>2, <1>4
  <1> QED
    BY <1>1, <1>3, <1>4

\* This step makes a row of workflow c for each step of the list.
CopiesInto(into, c, list) ==
  /\ into \in [DOMAIN list -> FreshSteps] /\ IsInjective(into)
  /\ \A x \in DOMAIN list : step'[into[x]] = [flow |-> c, pos |-> list[x]]
  /\ \A s \in Step : (\A x \in DOMAIN list : into[x] # s) => step'[s] = step[s]

\* A clone: a fresh row of a fresh workflow for every step it has read.
LEMMA CopyMade ==
  ASSUME EditInv, StepsInv, NEW r \in Request, NEW c, NEW list, c = FreshFlow, list = req[r].steps, CloneFlow(r)
  PROVE  /\ c \in Flow /\ owner[c] = None /\ Seen(list) /\ Stepped
         /\ \A f \in Flow : owner[f] # None => owner'[f] # None
         /\ owner'[c] # None /\ \A f \in Flow : f # c => trigger'[f] = trigger[f]
         /\ trigger'[c] = CopyTrigger(req[r].trigger)
         /\ status'[c] = "DRAFT"
         /\ DOMAIN step' = Step /\ step' = [s \in Step |-> step'[s]]
         /\ \E into : CopiesInto(into, c, list)
  <1>1. /\ Busy(r) /\ req[r].ask.op = "clone" /\ InsertFlow(req[r].caller, "DRAFT")
        /\ Cardinality(FreshSteps) >= Cardinality(DOMAIN list)
        /\ trigger' = [trigger EXCEPT ![c] = CopyTrigger(req[r].trigger)]
        /\ step' = CopySteps(c, list)
    BY DEF CloneFlow, At, Busy, Places
  <1>2. req[r].caller \in User /\ "DRAFT" \in WorkflowStatus /\ Typed
    BY <1>1, BusyFlow DEF InForm, EditInv, WorkflowStatus
  <1>3. /\ c \in Flow /\ owner[c] = None /\ owner'[c] # None
        /\ \A g \in Flow : g # c => owner'[g] = owner[g]
    BY <1>1, <1>2, Fresh
  <1>4. Seen(list) /\ Stepped
    BY <1>1 DEF StepsInv, Tracks
  <1>5. status'[c] = "DRAFT"
    BY <1>1, <1>2, <1>3 DEF InsertFlow, Typed
  <1>6. trigger'[c] = CopyTrigger(req[r].trigger) /\ \A f \in Flow : f # c => trigger'[f] = trigger[f]
    BY <1>1, <1>2, <1>3 DEF Typed
  <1>7. DOMAIN step' = Step /\ step' = [s \in Step |-> step'[s]]
    BY <1>1 DEF CopySteps
  <1>8. \E into \in [DOMAIN list -> FreshSteps] :
           /\ IsInjective(into)
           /\ \A x \in DOMAIN list : CopySteps(c, list)[into[x]] = [flow |-> c, pos |-> list[x]]
           /\ \A s \in Step : (\A x \in DOMAIN list : into[x] # s) => CopySteps(c, list)[s] = step[s]
    <2>1. DOMAIN list \subseteq Step
      BY <1>4 DEF Seen
    <2> QED
      BY <1>1, <2>1, Copied
  <1>9. \E into : CopiesInto(into, c, list)
    <2>1. PICK into \in [DOMAIN list -> FreshSteps] :
            /\ IsInjective(into)
            /\ \A x \in DOMAIN list : CopySteps(c, list)[into[x]] = [flow |-> c, pos |-> list[x]]
            /\ \A s \in Step : (\A x \in DOMAIN list : into[x] # s) => CopySteps(c, list)[s] = step[s]
      BY <1>8
    <2>2. step' = CopySteps(c, list)
      BY <1>1
    <2>3. CopiesInto(into, c, list)
      BY <2>1, <2>2, Zenon DEF CopiesInto
    <2> QED
      BY <2>3
  <1> QED
    BY <1>3, <1>4, <1>5, <1>6, <1>7, <1>9

LEMMA CloneFlowSteps ==
  ASSUME EditInv, EditInv', StepsInv, NEW r \in Request, CloneFlow(r) PROVE StepsInv'
  <1>1. PICK c, list : c = FreshFlow /\ list = req[r].steps
    OBVIOUS
  <1>2. /\ c \in Flow /\ owner[c] = None /\ Seen(list) /\ Stepped
        /\ \A f \in Flow : owner[f] # None => owner'[f] # None
        /\ owner'[c] # None /\ \A f \in Flow : f # c => trigger'[f] = trigger[f]
        /\ DOMAIN step' = Step /\ step' = [s \in Step |-> step'[s]]
    BY <1>1, CopyMade
  <1>3. PICK into : CopiesInto(into, c, list)
    BY <1>1, CopyMade
  <1>4. /\ req' = [req EXCEPT ![r] = Finished] /\ \A s \in Request : s # r /\ s \notin overlapped' => s \notin overlapped
        /\ tangled' = (IF IsInjective(list) THEN tangled ELSE tangled \cup {c})
    BY <1>1 DEF CloneFlow, Ends
  <1>5. \A s \in Step : \/ step'[s] = step[s]
                        \/ \E x \in DOMAIN list : into[x] = s /\ step'[s] = [flow |-> c, pos |-> list[x]]
                                                  /\ step[s] = Unborn /\ step'[s] \in StepRow
    <2> SUFFICES ASSUME NEW s \in Step, step'[s] # step[s]
                 PROVE  \E x \in DOMAIN list : into[x] = s /\ step'[s] = [flow |-> c, pos |-> list[x]]
                                                  /\ step[s] = Unborn /\ step'[s] \in StepRow
      OBVIOUS
    <2>1. PICK x \in DOMAIN list : into[x] = s
      BY <1>3 DEF CopiesInto
    <2>2. step'[s] = [flow |-> c, pos |-> list[x]] /\ step[s] = Unborn
      BY <1>3, <2>1 DEF FreshSteps, CopiesInto
    <2>3. step'[s] \in StepRow
      BY <1>2, <2>2 DEF Seen, StepRow
    <2> QED
      BY <2>1, <2>2, <2>3
  <1>6. \A s \in Step : step[s].flow # c
    BY <1>2 DEF Stepped
  <1>7. Stepped'
    <2>1. step' \in [Step -> StepRows]
      BY <1>2, <1>5 DEF Stepped, StepRows
    <2>2. \E n \in Nat : \A s \in Step : step'[s].pos <= n
      <3>1. PICK n \in Nat : \A s \in Step : step[s].pos <= n
        BY <1>2 DEF Stepped
      <3>2. PICK k \in Nat : \A x \in DOMAIN list : list[x] <= k
        BY <1>2 DEF Seen
      <3>3. PICK m \in {n, k} : n <= m /\ k <= m
        OBVIOUS
      <3>4. \A s \in Step : step[s].pos \in Int
        BY <1>2 DEF Stepped, StepRows, Unborn, Gone, StepRow
      <3>5. ASSUME NEW s \in Step PROVE step'[s].pos <= m
        <4>1. CASE step'[s] = step[s]
          BY <3>1, <3>3, <3>4, <4>1
        <4>2. CASE step'[s] # step[s]
          <5>1. PICK x \in DOMAIN list : step'[s] = [flow |-> c, pos |-> list[x]]
            BY <1>5, <4>2
          <5>2. list[x] \in Nat /\ list[x] <= k
            BY <1>2, <3>2 DEF Seen
          <5> QED
            BY <3>3, <5>1, <5>2
        <4> QED
          BY <4>1, <4>2
      <3> QED
        BY <3>3, <3>5
    <2>3. \A s \in Step : step'[s].flow # None => owner'[step'[s].flow] # None
      <3>1. \A s \in Step : step[s].flow # None => step[s].flow \in Flow
        BY <1>2 DEF Stepped, StepRows, Unborn, Gone, StepRow
      <3> QED
        BY <1>2, <1>5, <3>1 DEF Stepped
    <2> QED
      BY <2>1, <2>2, <2>3 DEF Stepped
  <1>8. \A f \in Flow : f # c => Untouched(f)
    <2> SUFFICES ASSUME NEW f \in Flow, f # c, NEW s \in Step, step'[s] # step[s]
                 PROVE  step[s].flow # f /\ step'[s].flow # f
      BY DEF Untouched
    <2>1. step[s] = Unborn /\ \E x \in DOMAIN list : step'[s] = [flow |-> c, pos |-> list[x]]
      BY <1>5
    <2> QED
      BY <2>1 DEF Unborn
  <1>9. \A f \in Flow : f \in tangled' \/ Ordered(f)'
    <2>1. ASSUME NEW f \in Flow, f # c PROVE f \in tangled' \/ Ordered(f)'
      <3>1. f \in tangled \/ Ordered(f)
        BY DEF StepsInv
      <3> QED
        BY <1>4, <1>8, <2>1, <3>1, UntouchedStays
    <2>2. c \in tangled' \/ Ordered(c)'
      <3> SUFFICES ASSUME IsInjective(list), NEW s \in Step, NEW t \in Step,
                          step'[s].flow = c, step'[t].flow = c, step'[s].pos = step'[t].pos
                   PROVE  s = t
        BY <1>4 DEF Ordered
      <3>1. PICK x \in DOMAIN list : into[x] = s /\ step'[s] = [flow |-> c, pos |-> list[x]]
        BY <1>5, <1>6
      <3>2. PICK y \in DOMAIN list : into[y] = t /\ step'[t] = [flow |-> c, pos |-> list[y]]
        BY <1>5, <1>6
      <3>3. list[x] = list[y]
        BY <3>1, <3>2
      <3> QED
        BY <3>1, <3>2, <3>3 DEF IsInjective
    <2> QED
      BY <2>1, <2>2
  <1>10. \A s \in Step : Ages(s)
    BY <1>5 DEF Ages
  <1>11. Tracks(r)'
    BY <1>4 DEF Tracks, Busy, Finished, Places, EditInv, Typed
  <1>12. \A s \in Request : s # r /\ Busy(s) /\ s \notin overlapped' =>
           /\ s \notin overlapped
           /\ req[s].ask.op = "clone" =>
                \A g \in Flow : g = req[s].flow => trigger'[g] = trigger[g] /\ PositionsOf(g)' = PositionsOf(g)
    <2> SUFFICES ASSUME NEW s \in Request, Busy(s), req[s].ask.op = "clone", NEW g \in Flow, g = req[s].flow
                 PROVE  trigger'[g] = trigger[g] /\ PositionsOf(g)' = PositionsOf(g)
      BY <1>4
    <2>1. g # c
      BY <1>2, BusyFlow
    <2> QED
      BY <1>2, <1>8, <2>1, UntouchedStays
  <1> QED
    BY <1>4, <1>7, <1>9, <1>10, <1>11, <1>12, StepsFrame

LEMMA NextSteps == EditInv /\ EditInv' /\ StepsInv /\ [Next]_vars => StepsInv'
  <1> SUFFICES ASSUME EditInv, EditInv', StepsInv, [Next]_vars PROVE StepsInv'
    OBVIOUS
  <1>1. CASE Next
    <2>1. PICK r \in Request :
            \/ Begin(r) \/ Visible(r) \/ CloneTrigger(r) \/ CloneSteps(r) \/ ReadList(r) \/ FindStep(r) \/ FindTrigger(r)
            \/ CreateFlow(r) \/ SetStatus(r) \/ CloneFlow(r)
            \/ AddStep(r) \/ UpdateStep(r) \/ DeleteStep(r) \/ SetPositions(r)
            \/ UpsertTrigger(r) \/ DeleteTrigger(r)
      BY <1>1 DEF Next
    <2> QED
      BY <2>1, BeginSteps, ReadsSteps, CreateFlowSteps, OtherWritesSteps, CloneFlowSteps, AddStepSteps, UpdateStepSteps,
         DeleteStepSteps, SetPositionsSteps
  <1>2. CASE UNCHANGED vars
    <2>1. Stepped' /\ \A f \in Flow : f \in tangled' \/ Ordered(f)'
      BY <1>2 DEF StepsInv, Stepped, Ordered
    <2>2. \A r \in Request : Tracks(r)'
      BY <1>2 DEF StepsInv, Tracks, Busy, Seen, Aimed, CopyUpToDate, StillOf, PositionsOf, StepsOf
    <2> QED
      BY <2>1, <2>2 DEF StepsInv
  <1> QED
    BY <1>1, <1>2

----------------------------------------------------------------------------
(* Theorems *)

\* The invariant above holds of every reachable state.
THEOREM EditInvariant == Spec => []EditInv
  BY InitInv, StepInv, PTL DEF Spec

\* However the requests of any number of users interleave, a WEBHOOK trigger
\* has a secret and no other trigger has it.
THEOREM OwnSecrets == Spec => []SecretsAreOwn
  <1>1. EditInv => SecretsAreOwn
    BY DEF EditInv, Apart, Stored, Sound, SecretsAreOwn
  <1> QED
    BY <1>1, EditInvariant, PTL

\* Saving a webhook keeps its secret, unless the save overlapped another edit.
THEOREM SecretStays == Spec => SecretKept
  <1>1. EditInv /\ [Next]_vars =>
          [\A f \in Flow : trigger[f].type = "WEBHOOK" /\ trigger'[f].type = "WEBHOOK"
             => trigger'[f].secret = trigger[f].secret \/ Raced(f)]_vars
    <2> SUFFICES ASSUME EditInv, [Next]_vars, NEW f \in Flow,
                        trigger[f].type = "WEBHOOK", trigger'[f].type = "WEBHOOK"
                 PROVE  trigger'[f].secret = trigger[f].secret \/ Raced(f)
      OBVIOUS
    <2>1. Typed /\ Stored(f) /\ \A r \in Request : Begun(r) /\ UpToDate(r)
      BY DEF EditInv
    <2>2. CASE trigger' = trigger
      BY <2>2
    <2>3. ASSUME NEW r \in Request, UpsertTrigger(r)
          PROVE  trigger'[f].secret = trigger[f].secret \/ Raced(f)
      <3>1. /\ Busy(r) /\ req[r].at = "write" /\ req[r].ask.op = "saveTrigger" /\ Wrote(r)
            /\ trigger' = [trigger EXCEPT ![req[r].flow] = [type |-> req[r].ask.type, secret |-> SecretFor(r)]]
        BY <2>3 DEF UpsertTrigger, At, Busy, Places
      <3>2. CASE req[r].flow # f
        BY <2>1, <3>1, <3>2 DEF Typed
      <3>3. CASE req[r].flow = f /\ r \in overlapped
        BY <2>1, <3>1, <3>3 DEF Raced, Wrote, Ends, Typed
      <3>4. CASE req[r].flow = f /\ r \notin overlapped
        <4>1. req[r].trigger = trigger[f]
          BY <2>1, <3>1, <3>4 DEF UpToDate
        <4>2. trigger'[f] = [type |-> req[r].ask.type, secret |-> SecretFor(r)]
          BY <2>1, <3>1, <3>4 DEF Typed
        <4> QED
          BY <4>1, <4>2 DEF SecretFor
      <3> QED
        BY <3>2, <3>3, <3>4
    <2>4. ASSUME NEW r \in Request, CloneFlow(r) PROVE trigger'[f] = trigger[f]
      <3>1. Busy(r) /\ InsertFlow(req[r].caller, "DRAFT")
            /\ trigger' = [trigger EXCEPT ![FreshFlow] = CopyTrigger(req[r].trigger)]
        BY <2>4 DEF CloneFlow, At, Busy, Places
      <3>2. req[r].caller \in User /\ "DRAFT" \in WorkflowStatus
        <4>1. InForm(req[r])
          BY <3>1 DEF EditInv, Begun, Busy, Places, Idle, Finished
        <4> QED
          BY <4>1 DEF InForm, WorkflowStatus
      <3>3. owner[FreshFlow] = None
        BY <2>1, <3>1, <3>2, Fresh
      <3>4. f # FreshFlow
        BY <2>1, <3>3 DEF Stored, NoTrigger
      <3> QED
        BY <2>1, <3>1, <3>4 DEF Typed
    <2>5. ASSUME NEW r \in Request, DeleteTrigger(r) PROVE trigger'[f] = trigger[f]
      BY <2>1, <2>5 DEF DeleteTrigger, Typed, NoTrigger
    <2> QED
      BY <2>2, <2>3, <2>4, <2>5, ZenonT(60)
      DEF Next, Begin, Visible, CloneTrigger, CloneSteps, ReadList, FindStep, FindTrigger, Read,
          CreateFlow, SetStatus, AddStep, UpdateStep, DeleteStep, SetPositions
  <1> QED
    BY <1>1, EditInvariant, PTL DEF Spec, SecretKept

\* A deleted workflow stays deleted, unless a request on it overlapped the deletion.
THEOREM DeletedForGood == Spec => DeletedStaysDeleted
  <1>1. EditInv /\ [Next]_vars =>
          [\A f \in Flow : owner[f] # None /\ f \notin Listed(owner[f])
             => f \notin Listed(owner[f])' \/ Raced(f)]_vars
    <2> SUFFICES ASSUME EditInv, [Next]_vars, NEW f \in Flow, owner[f] # None, f \notin Listed(owner[f])
                 PROVE  f \notin Listed(owner[f])' \/ Raced(f)
      OBVIOUS
    <2>1. Typed /\ status[f] = "ARCHIVED" /\ \A r \in Request : Begun(r) /\ UpToDate(r)
      BY DEF EditInv, Listed
    <2>2. CASE status'[f] = "ARCHIVED"
      BY <2>2 DEF Listed
    <2>3. ASSUME NEW r \in Request, SetStatus(r) PROVE status'[f] = "ARCHIVED" \/ Raced(f)
      <3>1. /\ Busy(r) /\ req[r].at = "write" /\ req[r].ask.op = "setStatus" /\ Wrote(r)
            /\ status' = [status EXCEPT ![req[r].flow] = req[r].ask.to]
        BY <2>3 DEF SetStatus, At, Busy, Places
      <3>2. CASE req[r].flow # f
        BY <2>1, <3>1, <3>2 DEF Typed
      <3>3. CASE req[r].flow = f
        <4>1. r \in overlapped
          BY <2>1, <3>1, <3>3 DEF UpToDate
        <4> QED
          BY <2>1, <3>1, <3>3, <4>1 DEF Raced, Wrote, Ends, Typed
      <3> QED
        BY <3>2, <3>3
    <2>4. ASSUME NEW r \in Request, CreateFlow(r) \/ CloneFlow(r) PROVE status'[f] = "ARCHIVED"
      <3>1. \E u, as : InsertFlow(u, as)
        BY <2>4 DEF CreateFlow, CloneFlow
      <3>2. owner[FreshFlow] = None /\ \E as : status' = [status EXCEPT ![FreshFlow] = as]
        BY <3>1 DEF InsertFlow, FreshFlow
      <3> QED
        BY <2>1, <3>2 DEF Typed
    <2> QED
      BY <2>1, <2>2, <2>3, <2>4, ZenonT(60)
      DEF Next, Begin, Visible, CloneTrigger, CloneSteps, ReadList, FindStep, FindTrigger, Read,
          AddStep, UpdateStep, DeleteStep, SetPositions, UpsertTrigger, DeleteTrigger
  <1> QED
    BY <1>1, EditInvariant, PTL DEF Spec, DeletedStaysDeleted

\* The invariant about steps and what requests have read of them.
THEOREM StepsInvariant == Spec => []StepsInv
  BY InitSteps, NextSteps, EditInvariant, PTL DEF Spec

\* However requests interleave, the steps of a workflow are in an order,
\* but for the writes that tangled stands for.
THEOREM StepsHaveAnOrder == Spec => []OrderIsTotal
  <1>1. StepsInv => OrderIsTotal
    BY OrderedIs DEF StepsInv, OrderIsTotal
  <1> QED
    BY <1>1, StepsInvariant, PTL

\* A clone that no edit overlapped copies the trigger's type and every position,
\* and is a DRAFT.
THEOREM CopiesAreFaithful == Spec => CloneIsFaithful
  <1>1. EditInv /\ StepsInv /\ [Next]_vars =>
          [\A r \in InFlight \ overlapped :
             At(r, "write", "clone") /\ owner' # owner /\ req'[r] = Finished =>
               \A f \in {req[r].flow}, copy \in {FreshFlow} :
                 /\ status'[copy] = "DRAFT"
                 /\ trigger'[copy].type = trigger[f].type
                 /\ \A p \in {step[s].pos : s \in StepsOf(f)} : HowMany(f, p) = HowMany(copy, p)'
                 /\ Cardinality(StepsOf(f)) = Cardinality(StepsOf(copy)')]_vars
    <2> SUFFICES ASSUME EditInv, StepsInv, Next, NEW r \in InFlight \ overlapped,
                        At(r, "write", "clone"), owner' # owner, req'[r] = Finished,
                        NEW f, f = req[r].flow, NEW copy, copy = FreshFlow
                 PROVE  /\ status'[copy] = "DRAFT"
                        /\ trigger'[copy].type = trigger[f].type
                        /\ \A p \in {step[s].pos : s \in StepsOf(f)} : HowMany(f, p) = HowMany(copy, p)'
                        /\ Cardinality(StepsOf(f)) = Cardinality(StepsOf(copy)')
      OBVIOUS
    <2>1. CloneFlow(r)
      <3>1. PICK q \in Request : CloneFlow(q) \/ CreateFlow(q)
        BY ZenonT(60) DEF Next, Begin, Visible, CloneTrigger, CloneSteps, ReadList, FindStep, FindTrigger, Read,
               SetStatus, AddStep, UpdateStep, DeleteStep, SetPositions, UpsertTrigger, DeleteTrigger
      <3>2. req' = [req EXCEPT ![q] = Finished] /\ Typed
        BY <3>1 DEF CloneFlow, CreateFlow, Ends, EditInv
      <3>3. r \in Request /\ req[r] # Finished
        BY DEF InFlight
      <3>4. q = r
        BY <3>2, <3>3 DEF Typed
      <3> QED
        BY <3>1, <3>4 DEF CreateFlow, At
    <2>2. PICK list : list = req[r].steps
      OBVIOUS
    <2>3. r \in Request
      BY DEF InFlight
    <2>4. f \in Flow /\ req[r].trigger = trigger[f] /\ list = PositionsOf(f)
      <3>1. Busy(r) /\ req[r].at = "write" /\ req[r].ask.op = "clone"
        BY DEF At, Busy, Places
      <3> QED
        BY <2>2, <2>3, <3>1, BusyFlow DEF StepsInv, Tracks, CopyUpToDate
    <2>5. /\ owner[copy] = None /\ Stepped
          /\ trigger'[copy] = CopyTrigger(req[r].trigger)
          /\ status'[copy] = "DRAFT"
      BY <2>1, <2>2, <2>3, CopyMade
    <2>6. PICK into : CopiesInto(into, copy, list)
      BY <2>1, <2>2, <2>3, CopyMade
    <2>7. /\ into \in [StepsOf(f) -> FreshSteps] /\ IsInjective(into)
          /\ \A x \in StepsOf(f) : step'[into[x]] = [flow |-> copy, pos |-> list[x]]
          /\ \A s \in Step : (\A x \in StepsOf(f) : into[x] # s) => step'[s] = step[s]
      BY <2>4, <2>6 DEF CopiesInto, PositionsOf
    <2>8. DOMAIN list = StepsOf(f) /\ (\A x \in StepsOf(f) : list[x] = step[x].pos) /\ StepsOf(f) \subseteq Step
      BY <2>4 DEF PositionsOf, StepsOf
    <2>9. ASSUME NEW x \in StepsOf(f)
          PROVE  into[x] \in Step /\ step'[into[x]].flow = copy /\ step'[into[x]].pos = step[x].pos
      <3>1. into[x] \in Step
        BY <2>7 DEF FreshSteps
      <3>2. step'[into[x]] = [flow |-> copy, pos |-> step[x].pos]
        BY <2>7, <2>8
      <3> QED
        BY <3>1, <3>2
    <2>10. \A s \in Step : step'[s].flow = copy => \E x \in StepsOf(f) : into[x] = s
      <3> SUFFICES ASSUME NEW s \in Step, step'[s].flow = copy, \A x \in StepsOf(f) : into[x] # s PROVE FALSE
        OBVIOUS
      <3>1. step'[s] = step[s]
        BY <2>7, <2>8
      <3>2. copy \in Flow
        BY <2>1, <2>2, <2>3, CopyMade
      <3> QED
        BY <2>5, <3>1, <3>2 DEF Stepped
    <2>11. ASSUME NEW S \in SUBSET StepsOf(f), NEW T \in SUBSET Step,
                  \A x \in StepsOf(f) : x \in S <=> into[x] \in T, \A t \in T : step'[t].flow = copy
           PROVE  Cardinality(S) = Cardinality(T)
      <3> DEFINE h == [x \in S |-> into[x]]
      <3>1. h \in [S -> T] /\ IsInjective(h)
        BY <2>7, <2>8, <2>11 DEF IsInjective
      <3>2. \A t \in T : \E x \in S : h[x] = t
        BY <2>10, <2>11
      <3>3. ExistsBijection(S, T)
        <4>1. h \in Injection(S, T)
          BY <3>1 DEF Injection
        <4>2. h \in Surjection(S, T)
          BY <3>1, <3>2 DEF Surjection
        <4> QED
          BY <4>1, <4>2 DEF ExistsBijection, Bijection
      <3>4. IsFiniteSet(S) /\ IsFiniteSet(T)
        BY <2>8, FS_Subset
      <3> QED
        BY <3>3, <3>4, FS_Bijection
    <2>12. StepsOf(copy)' = {s \in Step : step'[s].flow = copy}
      BY DEF StepsOf
    <2>13. Cardinality(StepsOf(f)) = Cardinality(StepsOf(copy)')
      <3>1. StepsOf(copy)' \in SUBSET Step /\ \A t \in StepsOf(copy)' : step'[t].flow = copy
        BY <2>12
      <3>2. \A x \in StepsOf(f) : x \in StepsOf(f) <=> into[x] \in StepsOf(copy)'
        BY <2>9, <2>12
      <3> QED
        BY <2>11, <3>1, <3>2
    <2>14. ASSUME NEW p PROVE HowMany(f, p) = HowMany(copy, p)'
      <3> DEFINE S == {s \in StepsOf(f) : step[s].pos = p}
                 T == {s \in StepsOf(copy)' : step'[s].pos = p}
      <3>1. S \in SUBSET StepsOf(f) /\ T \in SUBSET Step /\ \A t \in T : step'[t].flow = copy
        BY <2>12
      <3>2. \A x \in StepsOf(f) : x \in S <=> into[x] \in T
        BY <2>9, <2>12
      <3>3. Cardinality(S) = Cardinality(T)
        BY <2>11, <3>1, <3>2
      <3> QED
        BY <3>3 DEF HowMany
    <2>15. trigger'[copy].type = trigger[f].type
      <3>1. Sound(trigger[f])
        BY <2>4 DEF EditInv, Stored
      <3>2. PICK t \in TriggerRecord : t = trigger[f]
        BY <3>1 DEF Sound
      <3>3. CopyTrigger(t).type = t.type
        BY <3>2 DEF CopyTrigger, TriggerRecord
      <3> QED
        BY <2>4, <2>5, <3>2, <3>3
    <2> QED
      BY <2>5, <2>13, <2>14, <2>15
  <1> QED
    BY <1>1, EditInvariant, StepsInvariant, PTL DEF Spec, CloneIsFaithful

=============================================================================
