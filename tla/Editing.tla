------------------------------- MODULE Editing -------------------------------
(***************************************************************************)
(* The requests that edit workflows, their steps (table actions) and their *)
(* trigger: routes/workflows.ts and repo/workflows.ts in the Worker,       *)
(* WorkflowsService, ActionsService and TriggersService in the backend.    *)
(*                                                                         *)
(* A request is a few queries with awaits between them, and no transaction *)
(* spans two of them: what a query read may be gone when the next one      *)
(* writes. Each query, batch or $transaction is a step here. A request     *)
(* that dies between two of them is one that takes no further step. Names, *)
(* step configurations and the audit log are left out; what a save does to *)
(* the pollers is in modules Poller and NestPolling.                       *)
(***************************************************************************)
EXTENDS Integers, FiniteSets, Sequences, SequencesExt

CONSTANTS
  Runtimes,   \* subset of {"worker", "backend"}: the two implementations
  User,
  Flow,       \* workflow ids, used up by creations and clones
  Step,       \* action ids, used up by insertions
  Request,
  Menus,      \* which operations the requests of one behaviour choose from
  InitialOwner, InitialStep   \* the rows at the start: [Flow -> User or None], [Step -> row or Unborn]

Operations == {"create", "setStatus", "clone", "addStep", "updateStep", "deleteStep",
               "reorder", "saveTrigger", "deleteTrigger"}

None == "none"

ASSUME EditingAssumption ==
  /\ Runtimes \subseteq {"worker", "backend"}
  /\ Menus \subseteq SUBSET Operations
  /\ None \notin User \cup Flow /\ InitialOwner \in [Flow -> User \cup {None}]
  /\ IsFiniteSet(Step)

Unset  == -1                          \* an optional order that was not given
Unborn == [flow |-> None, pos |-> -1] \* an id no row has had yet
Gone   == [flow |-> None, pos |-> -2] \* the id of a deleted row
NoTrigger == [type |-> None, secret |-> 0]
StepRow   == [flow : Flow, pos : Nat]

\* The steps at the start are of workflows there are, in an order.
ASSUME InitialSteps ==
  /\ InitialStep \in [Step -> {Unborn} \cup StepRow]
  /\ \A s \in Step : InitialStep[s] = Unborn \/ InitialOwner[InitialStep[s].flow] # None
  /\ \A s, t \in Step : InitialStep[s] = InitialStep[t] => s = t \/ InitialStep[s] = Unborn
  /\ Step = {} \/ \E t \in Step : \A s \in Step : InitialStep[s].pos <= InitialStep[t].pos

WorkflowStatus == {"DRAFT", "ACTIVE", "PAUSED", "ARCHIVED"}
TriggerType    == {"WEBHOOK", "MANUAL", "SCHEDULED"}

VARIABLES
  runtime, menu,
  owner, status,   \* workflows
  trigger,         \* triggers: one per workflow; secret 0 is NULL
  step,            \* actions: the workflow and the position of each
  secrets,         \* how many secrets were ever drawn
  req,             \* each request: what it asks, how far it is, what it has read
  \* history: requests whose workflow was edited while they ran; workflows whose
  \* positions a write on a stale list, a client or such a source may have set
  overlapped, tangled

rows == <<owner, status, trigger, step, secrets>>
vars == <<runtime, menu, rows, req, overlapped, tangled>>

StepsOf(f)     == {s \in Step : step[s].flow = f}
PositionsOf(f) == [s \in StepsOf(f) |-> step[s].pos]

\* list: what a user has, and the only workflows his requests can see.
Listed(u) == {f \in Flow : owner[f] = u /\ status[f] # "ARCHIVED"}

FreshFlow      == CHOOSE f \in Flow : owner[f] = None
FreshSteps     == {s \in Step : step[s] = Unborn}
Known          == {s \in Step : step[s].flow # None}

----------------------------------------------------------------------------
(* What a client may ask of workflow f *)

\* order: optional in both DTOs. The dashboard never sends one.
Orders == {Unset, 0}

CreateRequests == [op : {"create"}, to : {"ACTIVE", "PAUSED"}]  \* enabled, or not

\* patch, pause, resume, delete.
StatusRequests == [op : {"setStatus"}, to : WorkflowStatus \ {"DRAFT"}]

CloneRequests == [op : {"clone"}]

StepRequests(f) ==
  [op : {"addStep"}, order : Orders]
    \cup [op : {"updateStep"}, step : Known, order : Orders]
    \cup [op : {"deleteStep"}, step : Known]
    \cup [op : {"reorder"}, ids : SetToSeqs(StepsOf(f)) \cup {<<s>> : s \in Known}]

TriggerRequests(f) ==
  [op : {"saveTrigger"}, type : TriggerType] \cup [op : {"deleteTrigger"}]

Idle     == [at |-> "idle"]
Finished == [at |-> "done"]
InFlight == {r \in Request : req[r] \notin {Idle, Finished}}

\* 403 to anyone but the owner, which no request changes: the guard's query needs
\* no step of its own. Archived workflows pass.
requireWorkflowOwner(f, u) == owner[f] = u

\* A creation has no workflow to guard.
OwnerGuard(f, u, ask) == ask.op = "create" \/ requireWorkflowOwner(f, u)

\* Where a request starts: at the write when it has nothing to read.
Asked(f, u, ask) ==
  [at |-> IF ask.op = "create" \/ (ask.op = "addStep" /\ ask.order # Unset) THEN "write" ELSE "read",
   ask |-> ask, flow |-> f, caller |-> u, trigger |-> NoTrigger, steps |-> <<>>]

Begin(r) == \E f \in Flow, u \in User :
  \E ask \in CreateRequests \cup StatusRequests \cup CloneRequests
               \cup StepRequests(f) \cup TriggerRequests(f) :
    /\ req[r] = Idle
    /\ ask.op \in menu /\ owner[f] # None
    /\ req' = [req EXCEPT ![r] = IF OwnerGuard(f, u, ask) THEN Asked(f, u, ask) ELSE Finished]
    /\ UNCHANGED <<runtime, menu, rows, overlapped, tangled>>

----------------------------------------------------------------------------
(* The reads *)

At(r, place, op) == req[r].at = place /\ req[r].ask.op = op
Goto(r, place)   == req' = [req EXCEPT ![r] = IF place = "done" THEN Finished ELSE [@ EXCEPT !.at = place]]
Read             == /\ overlapped' = {q \in overlapped : req'[q] # Finished}
                    /\ UNCHANGED <<runtime, menu, rows, tangled>>

VisibleOrArchived(r) ==
  /\ At(r, "read", "setStatus") \/ At(r, "read", "clone")
  /\ Goto(r, IF req[r].ask.op = "clone" THEN "readTrigger" ELSE "write")
  /\ Read

\* visibleOrThrow, findVisibleOwnedWorkflow, the first read of a clone: 404 when archived.
Visible(r) ==
  /\ At(r, "read", "setStatus") \/ At(r, "read", "clone")
  /\ Goto(r, IF req[r].flow \notin Listed(req[r].caller) THEN "done"
             ELSE IF req[r].ask.op = "clone" THEN "readTrigger" ELSE "write")
  /\ Read

\* The rest of a clone's reads. The Worker reads the trigger, then the steps;
\* Prisma's include runs a query per relation, in its own order.
CloneTrigger(r) ==
  /\ req[r].at = "readTrigger"
  /\ \E last \in (IF runtime = "worker" THEN {FALSE} ELSE BOOLEAN) :
       req' = [req EXCEPT ![r].at = IF last THEN "readLast" ELSE "readSteps",
                          ![r].trigger = IF last THEN @ ELSE trigger[req[r].flow],
                          ![r].steps = IF last THEN PositionsOf(req[r].flow) ELSE @]
  /\ Read

CloneSteps(r) ==
  /\ req[r].at \in {"readSteps", "readLast"}
  /\ req' = [req EXCEPT ![r].at = "write",
                        ![r].trigger = IF req[r].at = "readLast" THEN trigger[req[r].flow] ELSE @,
                        ![r].steps = IF req[r].at = "readSteps" THEN PositionsOf(req[r].flow) ELSE @]
  /\ Read

\* createAction without an order: the last position. reorder: the list, whose
\* ids must be the ones given.
ReadList(r) ==
  /\ At(r, "read", "addStep") \/ At(r, "read", "reorder")
  /\ LET list == PositionsOf(req[r].flow)
         accepted == req[r].ask.op = "reorder" => ToSet(req[r].ask.ids) = DOMAIN list
     IN req' = [req EXCEPT ![r] = IF accepted THEN [@ EXCEPT !.at = "write", !.steps = list]
                                   ELSE Finished]
  /\ Read

\* findAction, findOwnedAction: the step must be of this workflow.
FindStep(r) ==
  /\ At(r, "read", "updateStep") \/ At(r, "read", "deleteStep")
  /\ Goto(r, IF req[r].ask.step \in StepsOf(req[r].flow) THEN "write" ELSE "done")
  /\ Read

FindTrigger(r) ==
  /\ At(r, "read", "saveTrigger") \/ At(r, "read", "deleteTrigger")
  /\ LET existing == trigger[req[r].flow]
         missing  == existing = NoTrigger /\ req[r].ask.op = "deleteTrigger"
     IN req' = [req EXCEPT ![r] = IF missing THEN Finished
                                   ELSE [@ EXCEPT !.at = "write", !.trigger = existing]]
  /\ Read

----------------------------------------------------------------------------
(* The writes: one statement, batch or $transaction each *)

\* The write ends its request; every other request on an edited workflow was overlapped.
Ends(r, edited) ==
  /\ req' = [req EXCEPT ![r] = Finished]
  /\ overlapped' = (overlapped \cup {q \in InFlight : req[q].flow \in edited}) \ {r}
  /\ UNCHANGED <<runtime, menu>>

Wrote(r) == Ends(r, {req[r].flow})

\* A list somebody has added to or moved a step of.
Grown(r) == \E s \in StepsOf(req[r].flow) :
              s \notin DOMAIN req[r].steps \/ req[r].steps[s] # step[s].pos
Lost(r)  == ~(DOMAIN req[r].steps \subseteq StepsOf(req[r].flow))

Tangle(r, is) == tangled' = IF is THEN tangled \cup {req[r].flow} ELSE tangled

\* INSERT INTO workflows.
InsertFlow(u, as) ==
  /\ \E f \in Flow : owner[f] = None
  /\ owner'  = [owner EXCEPT ![FreshFlow] = u]
  /\ status' = [status EXCEPT ![FreshFlow] = as]

CreateFlow(r) ==
  /\ At(r, "write", "create")
  /\ InsertFlow(req[r].caller, req[r].ask.to)
  /\ Ends(r, {})
  /\ UNCHANGED <<trigger, step, secrets, tangled>>

\* UPDATE ... WHERE id: the status the row has by now is not looked at.
SetStatus(r) ==
  /\ At(r, "write", "setStatus")
  /\ status' = [status EXCEPT ![req[r].flow] = req[r].ask.to]
  /\ Wrote(r)
  /\ UNCHANGED <<owner, trigger, step, secrets, tangled>>

CopyWithSecret(t) == t

\* The copy's trigger: a secret of its own.
CopyTrigger(t) == IF t.type = "WEBHOOK" THEN [t EXCEPT !.secret = secrets + 1] ELSE t

CopyWithoutPositions(f, list) ==
  LET into == CHOOSE g \in [DOMAIN list -> FreshSteps] : IsInjective(g)
  IN [s \in Step |-> IF \E x \in DOMAIN list : into[x] = s THEN [flow |-> f, pos |-> 0] ELSE step[s]]

\* The copy's steps: fresh rows at the positions read.
CopySteps(f, list) ==
  LET into == CHOOSE g \in [DOMAIN list -> FreshSteps] : IsInjective(g)
  IN [s \in Step |-> IF \E x \in DOMAIN list : into[x] = s
                     THEN [flow |-> f, pos |-> list[CHOOSE x \in DOMAIN list : into[x] = s]]
                     ELSE step[s]]

\* One batch (Worker), one nested create (Prisma): a copy is there whole or not at all.
CloneFlow(r) ==
  /\ At(r, "write", "clone")
  /\ InsertFlow(req[r].caller, "DRAFT")
  /\ Cardinality(FreshSteps) >= Cardinality(DOMAIN req[r].steps)
  /\ trigger' = [trigger EXCEPT ![FreshFlow] = CopyTrigger(req[r].trigger)]
  /\ step'    = CopySteps(FreshFlow, req[r].steps)
  /\ secrets' = secrets + 1
  /\ tangled' = IF IsInjective(req[r].steps) THEN tangled ELSE tangled \cup {FreshFlow}
  /\ Ends(r, {})

PositionByCount(r) ==
  IF req[r].ask.order # Unset THEN req[r].ask.order ELSE Cardinality(DOMAIN req[r].steps)

\* One past the last position that was read, or the order that was asked for.
PositionFor(r) ==
  IF req[r].ask.order # Unset THEN req[r].ask.order
  ELSE IF DOMAIN req[r].steps = {} THEN 0
  ELSE 1 + CHOOSE p \in {req[r].steps[s] : s \in DOMAIN req[r].steps} :
             \A s \in DOMAIN req[r].steps : req[r].steps[s] <= p

\* INSERT INTO actions.
InsertStep(f, pos) ==
  /\ FreshSteps # {}
  /\ step' = [step EXCEPT ![CHOOSE s \in FreshSteps : TRUE] = [flow |-> f, pos |-> pos]]

AddStep(r) ==
  /\ At(r, "write", "addStep")
  /\ InsertStep(req[r].flow, PositionFor(r))
  /\ Tangle(r, req[r].ask.order # Unset \/ Grown(r))
  /\ Wrote(r)
  /\ UNCHANGED <<owner, status, trigger, secrets>>

\* UPDATE ... WHERE id. Of a row that is gone it changes nothing and the request fails.
Moves(r) == step[req[r].ask.step] # Gone /\ req[r].ask.order # Unset

UpdateStep(r) ==
  /\ At(r, "write", "updateStep")
  /\ step' = IF Moves(r) THEN [step EXCEPT ![req[r].ask.step].pos = req[r].ask.order] ELSE step
  /\ Tangle(r, Moves(r))
  /\ Wrote(r)
  /\ UNCHANGED <<owner, status, trigger, secrets>>

DeleteStep(r) ==
  /\ At(r, "write", "deleteStep")
  /\ step' = [step EXCEPT ![req[r].ask.step] = Gone]
  /\ Wrote(r)
  /\ UNCHANGED <<owner, status, trigger, secrets, tangled>>

\* The positions of the ids as given. D1's batch updates the rows that are
\* left; Prisma's $transaction fails on the first that is missing.
Placed(ids) ==
  [s \in Step |-> IF s \in ToSet(ids) /\ step[s] # Gone
                  THEN [step[s] EXCEPT !.pos = (CHOOSE i \in DOMAIN ids : ids[i] = s) - 1]
                  ELSE step[s]]

SetPositions(r) ==
  LET ids == req[r].ask.ids  f == req[r].flow
      aborts == runtime = "backend" /\ Lost(r)
  IN /\ At(r, "write", "reorder")
     /\ step' = IF aborts THEN step ELSE Placed(ids)
     /\ tangled' = IF aborts THEN tangled
                   ELSE IF ToSet(ids) = StepsOf(f) THEN tangled \ {f} ELSE tangled \cup {f}
     /\ Wrote(r)
     /\ UNCHANGED <<owner, status, trigger, secrets>>

SecretDrawnAnew(r) == IF req[r].ask.type = "WEBHOOK" THEN secrets + 1 ELSE 0

\* The secret of a save: kept when the trigger read was a WEBHOOK, else drawn.
SecretFor(r) ==
  IF req[r].ask.type # "WEBHOOK" THEN 0
  ELSE IF req[r].trigger.type = "WEBHOOK" THEN req[r].trigger.secret
  ELSE secrets + 1

UpsertTrigger(r) ==
  /\ At(r, "write", "saveTrigger")
  /\ trigger' = [trigger EXCEPT ![req[r].flow] = [type |-> req[r].ask.type, secret |-> SecretFor(r)]]
  /\ secrets' = secrets + 1
  /\ Wrote(r)
  /\ UNCHANGED <<owner, status, step, tangled>>

DeleteTrigger(r) ==
  /\ At(r, "write", "deleteTrigger")
  /\ trigger' = [trigger EXCEPT ![req[r].flow] = NoTrigger]
  /\ Wrote(r)
  /\ UNCHANGED <<owner, status, step, secrets, tangled>>

----------------------------------------------------------------------------
Init ==
  /\ runtime \in Runtimes /\ menu \in Menus
  /\ owner = InitialOwner
  /\ status = [f \in Flow |-> IF owner[f] = None THEN "DRAFT" ELSE "ACTIVE"]
  /\ trigger = [f \in Flow |-> NoTrigger]
  /\ step = InitialStep
  /\ secrets = 0
  /\ req = [r \in Request |-> Idle]
  /\ overlapped = {} /\ tangled = {}

Next == \E r \in Request :
  \/ Begin(r) \/ Visible(r) \/ CloneTrigger(r) \/ CloneSteps(r)
  \/ ReadList(r) \/ FindStep(r) \/ FindTrigger(r)
  \/ CreateFlow(r) \/ SetStatus(r) \/ CloneFlow(r)
  \/ AddStep(r) \/ UpdateStep(r) \/ DeleteStep(r) \/ SetPositions(r)
  \/ UpsertTrigger(r) \/ DeleteTrigger(r)

Spec == Init /\ [][Next]_vars

----------------------------------------------------------------------------
(* Properties *)

\* Whatever requests race, the steps of a workflow have an order (a run sorts
\* by position alone), unless a client set a position itself, a step was
\* appended on a list that somebody else had added to or moved a step of, or a
\* reorder was written whose list was no longer the workflow's: in the backend
\* never one that lost a step. A reorder of exactly the steps there are puts
\* even that right. A copy has the positions its clone read, ordered or not.
OrderIsTotal == \A f \in Flow : f \in tangled \/ IsInjective(PositionsOf(f))

\* A WEBHOOK trigger always has a secret, no other has one, and no two
\* triggers, a copy's and its source's least of all, share one.
SecretsAreOwn ==
  /\ \A f \in Flow : trigger[f].type = "WEBHOOK" <=> trigger[f].secret # 0
  /\ \A f, g \in Flow : f # g /\ trigger[f].secret = trigger[g].secret => trigger[f].secret = 0

\* This step is the end of a request on f that another edit of f overlapped.
Raced(f) == \E r \in overlapped : req[r].flow = f /\ req'[r] = Finished

\* Saving a webhook again keeps its secret, so that live senders go on
\* working. Only a save that overlapped another edit can replace it: two saves
\* that both make the trigger a WEBHOOK draw a secret each.
SecretKept ==
  [][\A f \in Flow : trigger[f].type = "WEBHOOK" /\ trigger'[f].type = "WEBHOOK"
       => trigger'[f].secret = trigger[f].secret \/ Raced(f)]_vars

\* A deleted workflow never comes back to its owner's list, except by a pause,
\* resume or patch that saw it before the deletion and writes after it.
DeletedStaysDeleted ==
  [][\A f \in Flow : owner[f] # None /\ f \notin Listed(owner[f])
       => f \notin Listed(owner[f])' \/ Raced(f)]_vars

HowMany(f, p) == Cardinality({s \in StepsOf(f) : step[s].pos = p})

\* The copy a clone makes while nobody edits the source is a DRAFT with the
\* source's trigger, by type, and a step at each of its positions, however
\* many queries read them.
CloneIsFaithful ==
  [][\A r \in InFlight \ overlapped :
       At(r, "write", "clone") /\ owner' # owner /\ req'[r] = Finished =>
         \A f \in {req[r].flow}, copy \in {FreshFlow} :
           /\ status'[copy] = "DRAFT"
           /\ trigger'[copy].type = trigger[f].type
           /\ \A p \in {step[s].pos : s \in StepsOf(f)} : HowMany(f, p) = HowMany(copy, p)'
           /\ Cardinality(StepsOf(f)) = Cardinality(StepsOf(copy)')]_vars
=============================================================================
