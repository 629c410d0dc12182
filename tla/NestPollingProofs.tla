------------------------- MODULE NestPollingProofs -------------------------
(***************************************************************************)
(* Theorems of NestPolling, for any number of handlers, processes, items,  *)
(* edits and faults.                                                       *)
(***************************************************************************)
EXTENDS NestPolling, FiniteSetTheorems, SequenceTheorems, WellFoundedInduction, TLAPS

----------------------------------------------------------------------------
(* The repeatable job follows the trigger *)

Places == {"rest", "upsert", "registering", "unregistering", "read", "list", "remove", "add", "delete"}

\* trigger.type before an upsert is never "deleted": it returns then.
HandlerTyped(s) ==
  /\ s \in [at : Places, was : {"none", "SCHEDULED", "other"}, keys : SUBSET Nat, add : Nat,
            deletes : BOOLEAN]
  /\ s.at = "rest" => s = Resting

\* What ScheduleFollowsTrigger says of the handlers at rest.
Settled ==
  /\ Wanted => jobs = {config.interval}
  /\ ~Wanted /\ schedule = "exact" => jobs = {}

NoJob == schedule = "exact" => jobs = {}

\* The only handler at work leaves the jobs as they should be, from where it is.
OnTrack(s) ==
  /\ s.at \in {"upsert", "registering", "unregistering"} => s.add = 0 /\ ~s.deletes
  /\ s.at = "upsert" => s.was = trigger /\ Settled
  /\ s.at = "registering" => active /\ (trigger # "SCHEDULED" => NoJob)
  /\ s.at = "unregistering" => ~active /\ (trigger # "SCHEDULED" => NoJob)
  /\ s.at = "read" => ~s.deletes
  /\ s.at \in {"list", "remove"} => s.add = IF Wanted /\ ~s.deletes THEN config.interval ELSE 0
  /\ s.at = "remove" => s.keys = jobs
  /\ s.at = "add" => Wanted /\ jobs = {} /\ s.add = config.interval
  /\ s.at = "delete" => NoJob

ScheduleInv ==
  /\ trigger \in {"SCHEDULED", "other", "deleted"} /\ config \in Config /\ jobs \subseteq Nat
  /\ DOMAIN handler = Handler /\ \A h \in Handler : HandlerTyped(handler[h])
  /\ schedule # "unknown" =>
       /\ \A g, h \in Handler : g = h \/ handler[g] = Resting \/ handler[h] = Resting
       /\ \A h \in Handler : OnTrack(handler[h])
       /\ AtRest => Settled

LEMMA IntervalIsPositive == ASSUME config \in Config PROVE config.interval \in Nat /\ config.interval # 0
  BY NestPollingAssumption

LEMMA RestingIsTyped == HandlerTyped(Resting) /\ Resting.at = "rest"
  BY DEF HandlerTyped, Resting, Places

\* Steps that leave the handlers and the jobs alone.
LEMMA ScheduleStays ==
  ASSUME ScheduleInv, UNCHANGED <<row, jobs, handler, schedule>>
  PROVE  ScheduleInv'
  BY DEF ScheduleInv, row, HandlerTyped, OnTrack, Settled, NoJob, Wanted, AtRest

\* A handler at work moves on.
LEMMA HandlerMoves ==
  ASSUME ScheduleInv, NEW h \in Handler, NEW s, HandlerTyped(s), handler[h] # Resting,
         handler' = [handler EXCEPT ![h] = s], config' \in Config, jobs' \subseteq Nat,
         trigger' \in {"SCHEDULED", "other", "deleted"},
         schedule' = schedule,
         schedule # "unknown" => OnTrack(s)' /\ (s = Resting => Settled')
  PROVE  ScheduleInv'
  <1>1. /\ DOMAIN handler' = Handler /\ handler'[h] = s
        /\ \A g \in Handler \ {h} : handler'[g] = handler[g]
        /\ \A g \in Handler : HandlerTyped(handler[g])
    BY DEF ScheduleInv
  <1>2. \A g \in Handler : HandlerTyped(handler'[g])
    BY <1>1
  <1>3. ASSUME schedule # "unknown"
        PROVE  /\ \A f, g \in Handler : f = g \/ handler'[f] = Resting \/ handler'[g] = Resting
               /\ \A g \in Handler : OnTrack(handler[g])'
               /\ AtRest' => Settled'
    <2>1. \A g \in Handler \ {h} : handler'[g] = Resting
      BY <1>1, <1>3 DEF ScheduleInv
    <2>2. OnTrack(Resting)'
      BY RestingIsTyped DEF OnTrack
    <2>3. \A g \in Handler : OnTrack(handler[g])'
      <3> SUFFICES ASSUME NEW g \in Handler PROVE OnTrack(handler[g])'
        OBVIOUS
      <3>1. CASE g = h
        <4>1. handler'[g] = s
          BY <1>1, <3>1
        <4> QED
          BY <1>3, <4>1 DEF OnTrack
      <3>2. CASE g # h
        <4>1. handler'[g] = Resting
          BY <2>1, <3>2
        <4> QED
          BY <2>2, <4>1 DEF OnTrack
      <3> QED
        BY <3>1, <3>2
    <2>4. AtRest' => s = Resting
      BY <1>1 DEF AtRest, Resting
    <2> QED
      BY <1>3, <2>1, <2>3, <2>4
  <1> QED
    BY <1>1, <1>2, <1>3 DEF ScheduleInv, HandlerTyped

\* A request or a boot arrives: while the schedule is known, it is alone.
LEMMA HandlerBegins ==
  ASSUME ScheduleInv, NEW h \in Handler, NEW s, NEW boots \in BOOLEAN, Begin(h, s, boots),
         HandlerTyped(s), trigger' = trigger, config' = config, jobs' = jobs,
         /\ AtRest
         /\ schedule' # "unknown"
         /\ ~boots => schedule' = schedule /\ Settled
         /\ schedule' = "exact" => schedule = "exact" /\ Settled
         => OnTrack(s)' /\ (s = Resting => Settled')
  PROVE  ScheduleInv'
  <1>1. /\ DOMAIN handler' = Handler /\ handler'[h] = s
        /\ \A g \in Handler \ {h} : handler'[g] = handler[g]
        /\ \A g \in Handler : HandlerTyped(handler[g])
        /\ handler[h] = Resting
    BY DEF ScheduleInv, Begin
  <1>2. \A g \in Handler : HandlerTyped(handler'[g])
    BY <1>1
  <1>3. ASSUME schedule' # "unknown"
        PROVE  /\ \A f, g \in Handler : f = g \/ handler'[f] = Resting \/ handler'[g] = Resting
               /\ \A g \in Handler : OnTrack(handler[g])'
               /\ AtRest' => Settled'
    <2>1. /\ \A g \in Handler \ {h} : handler[g] = Resting
          /\ schedule' = IF boots /\ schedule # "exact" THEN "if wanted" ELSE schedule
      BY <1>3 DEF Begin
    <2>2. AtRest
      BY <1>1, <2>1 DEF AtRest
    <2>3. schedule # "unknown" => Settled
      BY <2>2 DEF ScheduleInv
    <2>4. OnTrack(s)' /\ (s = Resting => Settled')
      BY <1>3, <2>1, <2>2, <2>3
    <2>5. OnTrack(Resting)'
      BY RestingIsTyped DEF OnTrack
    <2>6. \A g \in Handler : OnTrack(handler[g])'
      <3> SUFFICES ASSUME NEW g \in Handler PROVE OnTrack(handler[g])'
        OBVIOUS
      <3>1. CASE g = h
        <4>1. handler'[g] = s
          BY <1>1, <3>1
        <4> QED
          BY <2>4, <4>1 DEF OnTrack
      <3>2. CASE g # h
        <4>1. handler'[g] = handler[g] /\ handler[g] = Resting
          BY <1>1, <2>1, <3>2
        <4>2. handler'[g] = Resting
          BY <4>1
        <4> QED
          BY <2>5, <4>2 DEF OnTrack
      <3> QED
        BY <3>1, <3>2
    <2>7. AtRest' => s = Resting
      BY <1>1 DEF AtRest, Resting
    <2> QED
      BY <1>1, <2>1, <2>4, <2>6, <2>7
  <1> QED
    BY <1>1, <1>2, <1>3 DEF ScheduleInv, HandlerTyped

LEMMA StepBegins ==
  ASSUME ScheduleInv, NEW h \in Handler, FindExisting(h) \/ Remove(h) \/ SetStatus(h) \/ Boot(h)
  PROVE  ScheduleInv'
  <1>0. trigger' = trigger /\ config' = config /\ jobs' = jobs
    BY DEF FindExisting, Remove, SetStatus, Boot, row
  <1>1. CASE FindExisting(h)
    <2>1. PICK s : s = [Resting EXCEPT !.at = "upsert", !.was = trigger]
      OBVIOUS
    <2>2. Begin(h, s, FALSE) /\ active' = active /\ trigger \in {"SCHEDULED", "other"}
      BY <1>1, <2>1 DEF FindExisting, ScheduleInv, row
    <2>3. s.at = "upsert" /\ s.was = trigger /\ s.add = 0 /\ ~s.deletes /\ HandlerTyped(s) /\ s # Resting
      BY <2>1, <2>2 DEF HandlerTyped, Resting, Places
    <2>4. schedule' = schedule /\ Settled => OnTrack(s)'
      BY <1>0, <2>2, <2>3 DEF OnTrack, Settled, Wanted
    <2> QED
      BY <1>0, <2>2, <2>3, <2>4, HandlerBegins
  <1>2. CASE Remove(h)
    <2>1. PICK s : s = [Resting EXCEPT !.at = IF trigger = "SCHEDULED" THEN "list" ELSE "delete",
                                       !.deletes = TRUE]
      OBVIOUS
    <2>2. Begin(h, s, FALSE) /\ active' = active
      BY <1>2, <2>1 DEF Remove, row
    <2>3. /\ s.at = IF trigger = "SCHEDULED" THEN "list" ELSE "delete"
          /\ s.add = 0 /\ s.deletes /\ HandlerTyped(s) /\ s # Resting
      BY <2>1 DEF HandlerTyped, Resting, Places
    <2>4. schedule' = schedule /\ Settled => OnTrack(s)'
      BY <1>0, <2>2, <2>3 DEF OnTrack, Settled, NoJob, Wanted
    <2> QED
      BY <1>0, <2>2, <2>3, <2>4, HandlerBegins
  <1>3. CASE SetStatus(h)
    <2>1. PICK s : s = [Resting EXCEPT !.at = IF active' THEN "registering" ELSE "unregistering"]
      OBVIOUS
    <2>2. Begin(h, s, FALSE) /\ active' \in BOOLEAN
      BY <1>3, <2>1 DEF SetStatus
    <2>3. /\ s.at = IF active' THEN "registering" ELSE "unregistering"
          /\ s.add = 0 /\ ~s.deletes /\ HandlerTyped(s) /\ s # Resting
      BY <2>1 DEF HandlerTyped, Resting, Places
    <2>4. schedule' = schedule /\ Settled => OnTrack(s)'
      BY <1>0, <2>2, <2>3 DEF OnTrack, Settled, NoJob, Wanted
    <2> QED
      BY <1>0, <2>2, <2>3, <2>4, HandlerBegins
  <1>4. CASE Boot(h)
    <2>1. PICK s : s = IF Wanted THEN [Resting EXCEPT !.at = "read"] ELSE Resting
      OBVIOUS
    <2>2. Begin(h, s, TRUE) /\ active' = active
      BY <1>4, <2>1 DEF Boot, row
    <2>3. /\ Wanted => s.at = "read" /\ ~s.deletes /\ s # Resting
          /\ ~Wanted => s = Resting
          /\ HandlerTyped(s)
      BY <2>1 DEF HandlerTyped, Resting, Places
    <2>4. OnTrack(s)'
      BY <1>0, <2>2, <2>3 DEF OnTrack, Wanted, Resting
    <2>5. (schedule' = "exact" => Settled) /\ (schedule' = "exact" => schedule = "exact") /\ s = Resting
            => Settled'
      BY <1>0, <2>2, <2>3 DEF Settled, Wanted
    <2> QED
      BY <1>0, <2>2, <2>3, <2>4, <2>5, HandlerBegins
  <1> QED
    BY <1>1, <1>2, <1>3, <1>4

LEMMA StepHandles ==
  ASSUME ScheduleInv, NEW h \in Handler, Handle(h)
  PROVE  ScheduleInv'
  <1> DEFINE old == handler[h]
  <1>0. /\ HandlerTyped(old) /\ old.at \in Places /\ jobs \subseteq Nat /\ config \in Config
        /\ old.add \in Nat /\ old.deletes \in BOOLEAN /\ old.keys \in SUBSET Nat
        /\ old.was \in {"none", "SCHEDULED", "other"}
        /\ trigger \in {"SCHEDULED", "other", "deleted"}
        /\ schedule # "unknown" => OnTrack(old)
        /\ config.interval \in Nat /\ config.interval # 0
        /\ Resting.at = "rest"
    BY IntervalIsPositive, RestingIsTyped DEF ScheduleInv, HandlerTyped
  <1> HIDE DEF old
  <1>1. CASE Upsert(h)
    <2>1. PICK s :
            /\ trigger' \in {"SCHEDULED", "other"} /\ active' = active /\ config' \in Config
            /\ jobs' = jobs /\ schedule' = schedule
            /\ old.at = "upsert" /\ handler' = [handler EXCEPT ![h] = s]
            /\ trigger' = "SCHEDULED" => s = [old EXCEPT !.at = "read"]
            /\ trigger' = "other" /\ old.was = "SCHEDULED" => s = [old EXCEPT !.at = "list"]
            /\ trigger' = "other" /\ old.was # "SCHEDULED" => s = Resting
      <3> DEFINE s == CASE trigger' = "SCHEDULED"                            -> [old EXCEPT !.at = "read"]
                        [] trigger' = "other" /\ old.was = "SCHEDULED"       -> [old EXCEPT !.at = "list"]
                        [] trigger' = "other" /\ old.was # "SCHEDULED"       -> Resting
      <3>1. /\ trigger' \in {"SCHEDULED", "other"} /\ active' = active /\ config' \in Config
            /\ jobs' = jobs /\ schedule' = schedule
            /\ old.at = "upsert" /\ handler' = [handler EXCEPT ![h] = s]
        BY <1>1 DEF Upsert, Step, old
      <3>2. /\ trigger' = "SCHEDULED" => s = [old EXCEPT !.at = "read"]
            /\ trigger' = "other" /\ old.was = "SCHEDULED" => s = [old EXCEPT !.at = "list"]
            /\ trigger' = "other" /\ old.was # "SCHEDULED" => s = Resting
        OBVIOUS
      <3> HIDE DEF s
      <3> QED
        BY <3>1, <3>2
    <2>2. HandlerTyped(s) /\ handler[h] # Resting
      BY <1>0, <2>1, RestingIsTyped DEF HandlerTyped, Places, old
    <2>3. ASSUME schedule # "unknown" PROVE OnTrack(s)' /\ (s = Resting => Settled')
      <3>1. old.add = 0 /\ ~old.deletes /\ old.was = trigger /\ Settled
        BY <1>0, <2>1, <2>3 DEF OnTrack
      <3>2. CASE trigger' = "SCHEDULED"
        <4>1. s.at = "read" /\ ~s.deletes
          BY <1>0, <2>1, <3>1, <3>2 DEF HandlerTyped
        <4> QED
          BY <1>0, <4>1 DEF OnTrack
      <3>3. CASE trigger' = "other" /\ old.was = "SCHEDULED"
        <4>1. s.at = "list" /\ s.add = 0
          BY <1>0, <2>1, <3>1, <3>3 DEF HandlerTyped
        <4> QED
          BY <1>0, <2>1, <3>3, <4>1 DEF OnTrack, Wanted
      <3>4. CASE trigger' = "other" /\ old.was # "SCHEDULED"
        <4>1. s.at = "rest"
          BY <1>0, <2>1, <3>4
        <4>2. OnTrack(s)'
          BY <4>1 DEF OnTrack
        <4> QED
          BY <2>1, <3>1, <3>4, <4>2 DEF Settled, Wanted
      <3> QED
        BY <2>1, <3>2, <3>3, <3>4
    <2> QED
      BY <1>0, <2>1, <2>2, <2>3, HandlerMoves
  <1>2. CASE DeleteRow(h)
    <2>1. /\ trigger' = "deleted" /\ active' = active /\ config' = config /\ jobs' = jobs
          /\ schedule' = schedule
          /\ old.at = "delete" /\ handler' = [handler EXCEPT ![h] = Resting]
      BY <1>2 DEF DeleteRow, Step, old
    <2>2. handler[h] # Resting
      BY <1>0, <2>1 DEF old
    <2>3. ASSUME schedule # "unknown" PROVE OnTrack(Resting)' /\ Settled'
      <3>1. OnTrack(Resting)'
        BY <1>0 DEF OnTrack
      <3>2. Settled'
        BY <1>0, <2>1, <2>3 DEF OnTrack, Settled, NoJob, Wanted
      <3> QED
        BY <3>1, <3>2
    <2> QED
      BY <1>0, <2>1, <2>2, <2>3, HandlerMoves, RestingIsTyped
  <1>3. CASE FindTrigger(h)
    <2>1. PICK s :
            /\ trigger' = trigger /\ active' = active /\ config' = config /\ jobs' = jobs
            /\ schedule' = schedule
            /\ old.at \in {"registering", "unregistering"} /\ handler' = [handler EXCEPT ![h] = s]
            /\ trigger # "SCHEDULED" => s = Resting
            /\ trigger = "SCHEDULED" /\ old.at = "registering" => s = [old EXCEPT !.at = "read"]
            /\ trigger = "SCHEDULED" /\ old.at = "unregistering" => s = [old EXCEPT !.at = "list"]
      <3> DEFINE s == CASE trigger # "SCHEDULED"                          -> Resting
                        [] trigger = "SCHEDULED" /\ old.at = "registering" -> [old EXCEPT !.at = "read"]
                        [] trigger = "SCHEDULED" /\ old.at = "unregistering"
                                                                           -> [old EXCEPT !.at = "list"]
      <3>1. /\ trigger' = trigger /\ active' = active /\ config' = config /\ jobs' = jobs
            /\ schedule' = schedule
            /\ old.at \in {"registering", "unregistering"} /\ handler' = [handler EXCEPT ![h] = s]
        BY <1>3 DEF FindTrigger, row, ScheduleInv, old
      <3>2. /\ trigger # "SCHEDULED" => s = Resting
            /\ trigger = "SCHEDULED" /\ old.at = "registering" => s = [old EXCEPT !.at = "read"]
            /\ trigger = "SCHEDULED" /\ old.at = "unregistering" => s = [old EXCEPT !.at = "list"]
        OBVIOUS
      <3> HIDE DEF s
      <3> QED
        BY <3>1, <3>2
    <2>2. HandlerTyped(s) /\ handler[h] # Resting
      BY <1>0, <2>1, RestingIsTyped DEF HandlerTyped, Places, old
    <2>3. ASSUME schedule # "unknown" PROVE OnTrack(s)' /\ (s = Resting => Settled')
      <3>1. CASE trigger # "SCHEDULED"
        <4>1. s.at = "rest"
          BY <1>0, <2>1, <3>1
        <4>2. OnTrack(s)'
          BY <4>1 DEF OnTrack
        <4>3. NoJob
          BY <1>0, <2>1, <2>3, <3>1 DEF OnTrack
        <4> QED
          BY <2>1, <3>1, <4>2, <4>3 DEF Settled, NoJob, Wanted
      <3>2. CASE trigger = "SCHEDULED" /\ old.at = "registering"
        <4>1. s.at = "read" /\ ~s.deletes
          BY <1>0, <2>1, <2>3, <3>2 DEF HandlerTyped, OnTrack
        <4> QED
          BY <1>0, <4>1 DEF OnTrack
      <3>3. CASE trigger = "SCHEDULED" /\ old.at = "unregistering"
        <4>1. s.at = "list" /\ s.add = 0 /\ ~active
          BY <1>0, <2>1, <2>3, <3>3 DEF HandlerTyped, OnTrack
        <4> QED
          BY <1>0, <2>1, <4>1 DEF OnTrack, Wanted
      <3> QED
        BY <2>1, <3>1, <3>2, <3>3
    <2> QED
      BY <1>0, <2>1, <2>2, <2>3, HandlerMoves
  <1>4. CASE ReadTrigger(h)
    <2>1. PICK s : s = [old EXCEPT !.at = "list", !.add = IF Wanted THEN config.interval ELSE 0]
      OBVIOUS
    <2>2. /\ trigger' = trigger /\ active' = active /\ config' = config /\ jobs' = jobs
          /\ schedule' = schedule
          /\ old.at = "read" /\ handler' = [handler EXCEPT ![h] = s]
      BY <1>4, <2>1 DEF ReadTrigger, Step, row, old
    <2>3. HandlerTyped(s) /\ handler[h] # Resting
      BY <1>0, <2>1, <2>2 DEF HandlerTyped, Places, old
    <2>4. s.at = "list" /\ s.deletes = old.deletes /\ s.add = IF Wanted THEN config.interval ELSE 0
      BY <1>0, <2>1 DEF HandlerTyped
    <2>5. schedule # "unknown" => OnTrack(s)' /\ s # Resting
      BY <1>0, <2>2, <2>4 DEF OnTrack, Wanted
    <2> QED
      BY <1>0, <2>2, <2>3, <2>5, HandlerMoves
  <1>5. CASE ListJobs(h)
    <2>1. PICK s : s = [old EXCEPT !.at = "remove", !.keys = jobs]
      OBVIOUS
    <2>2. /\ trigger' = trigger /\ active' = active /\ config' = config /\ jobs' = jobs
          /\ schedule' = schedule
          /\ old.at = "list" /\ handler' = [handler EXCEPT ![h] = s]
      BY <1>5, <2>1 DEF ListJobs, Step, row, old
    <2>3. HandlerTyped(s) /\ handler[h] # Resting
      BY <1>0, <2>1, <2>2 DEF HandlerTyped, Places, old
    <2>4. s.at = "remove" /\ s.deletes = old.deletes /\ s.add = old.add /\ s.keys = jobs
      BY <1>0, <2>1 DEF HandlerTyped
    <2>5. schedule # "unknown" => OnTrack(s)' /\ s # Resting
      BY <1>0, <2>2, <2>4 DEF OnTrack, Wanted
    <2> QED
      BY <1>0, <2>2, <2>3, <2>5, HandlerMoves
  <1>6. CASE RemoveJobs(h)
    <2>1. PICK s : s = AfterRemoval(h)
      OBVIOUS
    <2>2. /\ trigger' = trigger /\ active' = active /\ config' = config /\ jobs' = jobs \ old.keys
          /\ schedule' = schedule
          /\ old.at = "remove" /\ handler' = [handler EXCEPT ![h] = s]
      BY <1>6, <2>1 DEF RemoveJobs, Step, row, old
    <2>3. /\ old.add # 0 => s = [old EXCEPT !.at = "add", !.keys = {}]
          /\ old.add = 0 /\ old.deletes => s = [old EXCEPT !.at = "delete", !.keys = {}]
          /\ old.add = 0 /\ ~old.deletes => s = Resting
      BY <2>1 DEF AfterRemoval, old
    <2>4. HandlerTyped(s) /\ handler[h] # Resting
      BY <1>0, <2>2, <2>3, RestingIsTyped DEF HandlerTyped, Places, old
    <2>5. ASSUME schedule # "unknown" PROVE OnTrack(s)' /\ (s = Resting => Settled')
      <3>1. jobs' = {} /\ old.add = IF Wanted /\ ~old.deletes THEN config.interval ELSE 0
        BY <1>0, <2>2, <2>5 DEF OnTrack
      <3>2. CASE old.add # 0
        <4>1. s.at = "add" /\ s.add = old.add
          BY <1>0, <2>3, <3>2 DEF HandlerTyped
        <4>2. s # Resting
          BY <1>0, <4>1
        <4> QED
          BY <2>2, <3>1, <3>2, <4>1, <4>2 DEF OnTrack, Wanted
      <3>3. CASE old.add = 0 /\ old.deletes
        <4>1. s.at = "delete"
          BY <1>0, <2>3, <3>3 DEF HandlerTyped
        <4>2. s # Resting
          BY <1>0, <4>1
        <4> QED
          BY <3>1, <4>1, <4>2 DEF OnTrack, NoJob
      <3>4. CASE old.add = 0 /\ ~old.deletes
        <4>1. s.at = "rest"
          BY <1>0, <2>3, <3>4
        <4>2. OnTrack(s)'
          BY <4>1 DEF OnTrack
        <4> QED
          BY <1>0, <2>2, <3>1, <3>4, <4>2 DEF Settled, Wanted
      <3> QED
        BY <1>0, <3>2, <3>3, <3>4
    <2>6. jobs' \subseteq Nat
      BY <1>0, <2>2
    <2> QED
      BY <1>0, <2>2, <2>4, <2>5, <2>6, HandlerMoves
  <1>7. CASE AddJob(h)
    <2>1. /\ trigger' = trigger /\ active' = active /\ config' = config /\ jobs' = jobs \cup {old.add}
          /\ schedule' = schedule
          /\ old.at = "add" /\ handler' = [handler EXCEPT ![h] = Resting]
      BY <1>7 DEF AddJob, Step, row, old
    <2>2. handler[h] # Resting
      BY <1>0, <2>1 DEF old
    <2>3. ASSUME schedule # "unknown" PROVE OnTrack(Resting)' /\ Settled'
      <3>1. OnTrack(Resting)'
        BY <1>0 DEF OnTrack
      <3>2. Wanted /\ jobs = {} /\ old.add = config.interval
        BY <1>0, <2>1, <2>3 DEF OnTrack
      <3>3. Settled'
        BY <2>1, <3>2 DEF Settled, Wanted
      <3> QED
        BY <3>1, <3>3
    <2>4. jobs' \subseteq Nat
      BY <1>0, <2>1
    <2> QED
      BY <1>0, <2>1, <2>2, <2>3, <2>4, HandlerMoves, RestingIsTyped
  <1> QED
    BY <1>1, <1>2, <1>3, <1>4, <1>5, <1>6, <1>7 DEF Handle

LEMMA ScheduleStep ==
  ASSUME ScheduleInv, [Next]_vars
  PROVE  ScheduleInv'
  <1>1. CASE UNCHANGED vars
    BY <1>1, ScheduleStays DEF vars
  <1>2. ASSUME NEW h \in Handler, Edit(h) \/ Boot(h) PROVE ScheduleInv'
    BY <1>2, StepBegins DEF Edit
  <1>3. ASSUME NEW h \in Handler, LoseHandler(h) PROVE ScheduleInv'
    BY <1>3, RestingIsTyped DEF LoseHandler, ScheduleInv, HandlerTyped, row
  <1>4. ASSUME NEW p \in Process, Poll(p) \/ PollFails(p) \/ Stall(p) PROVE ScheduleInv'
    BY <1>4, ScheduleStays DEF Poll, Find, Fetch, Evaluate, Write, Emit, PollFails, Stall
  <1>5. CASE StateExpires \/ \E e \in Sources : Publish(e)
    BY <1>5, ScheduleStays DEF StateExpires, Publish
  <1> QED
    BY <1>1, <1>2, <1>3, <1>4, <1>5, StepHandles DEF Next

\* What handlers have read and still have to do fits the row and the jobs, while
\* none of them raced or died (scheduler.service.ts registerPoller, unregisterPoller).
THEOREM ScheduleInvariant == Spec => []ScheduleInv
  <1>1. Init => ScheduleInv
    <2> SUFFICES ASSUME Init PROVE ScheduleInv
      OBVIOUS
    <2>1. handler = [h \in Handler |-> Resting] /\ config \in Config /\ jobs = {config.interval}
          /\ trigger = "SCHEDULED" /\ active = TRUE
      BY DEF Init
    <2>2. jobs \subseteq Nat
      BY <2>1, IntervalIsPositive
    <2>3. OnTrack(Resting)
      BY RestingIsTyped DEF OnTrack
    <2>4. Settled
      BY <2>1 DEF Settled, Wanted
    <2> QED
      BY <2>1, <2>2, <2>3, <2>4, RestingIsTyped DEF ScheduleInv
  <1> QED
    BY <1>1, ScheduleStep, PTL DEF Spec

\* A wanted trigger has its repeatable job at its interval, and another none,
\* after any edits that did not race, whatever the polls did meanwhile; a boot
\* nobody disturbs repairs a wanted trigger's jobs after those that did.
THEOREM ScheduleIsRight == Spec => []ScheduleFollowsTrigger
  <1>1. ScheduleInv => ScheduleFollowsTrigger
    BY DEF ScheduleInv, ScheduleFollowsTrigger, Settled
  <1> QED
    BY <1>1, ScheduleInvariant, PTL

----------------------------------------------------------------------------
(* The new items of a response *)

Ascending(n) == \A S \in SUBSET (1..n) : \E f \in [1..Cardinality(S) -> S] : Increasing(f)

\* Any set of positions can be listed in ascending order.
LEMMA AscendingStep ==
  ASSUME NEW n \in Nat, n > 0 => Ascending(n - 1)
  PROVE  Ascending(n)
  <1> SUFFICES ASSUME NEW S \in SUBSET (1..n)
               PROVE  \E f \in [1..Cardinality(S) -> S] : Increasing(f)
    BY DEF Ascending
  <1> DEFINE T == S \ {n}
  <1>1. IsFiniteSet(S) /\ IsFiniteSet(T) /\ Cardinality(T) \in Nat
    <2>1. IsFiniteSet(1..n)
      BY FS_Interval
    <2>2. IsFiniteSet(S)
      BY <2>1, FS_Subset
    <2> QED
      BY <2>2, FS_Subset, FS_CardinalityType
  <1>2. CASE n = 0
    <2>1. S = {}
      BY <1>2
    <2>2. Cardinality(S) = 0
      BY <2>1, FS_EmptySet
    <2>3. [i \in 1..0 |-> 0] \in [1..Cardinality(S) -> S] /\ Increasing([i \in 1..0 |-> 0])
      BY <2>2 DEF Increasing
    <2> QED
      BY <2>3
  <1>3. CASE n > 0
    <2>1. T \in SUBSET (1..(n - 1))
      BY <1>3
    <2>2. PICK f \in [1..Cardinality(T) -> T] : Increasing(f)
      BY <1>3, <2>1 DEF Ascending
    <2>3. CASE n \notin S
      <3>1. T = S
        BY <2>3
      <3> QED
        BY <2>2, <3>1
    <2>4. CASE n \in S
      <3>1. T \cup {n} = S /\ n \notin T
        BY <2>4
      <3>2. Cardinality(S) = Cardinality(T) + 1
        <4>1. Cardinality(T \cup {n}) = Cardinality(T) + 1
          BY <1>1, <3>1, FS_AddElement
        <4> QED
          BY <3>1, <4>1
      <3> DEFINE c == Cardinality(T)
                 g == [i \in 1..(c + 1) |-> IF i = c + 1 THEN n ELSE f[i]]
      <3>3. c \in Nat /\ f \in [1..c -> T] /\ Increasing(f) /\ Cardinality(S) = c + 1
        BY <1>1, <2>2, <3>2
      <3> HIDE DEF c, T
      <3>4. g \in [1..(c + 1) -> S]
        <4> SUFFICES ASSUME NEW i \in 1..(c + 1), i # c + 1 PROVE f[i] \in S
          BY <2>4
        <4>1. i \in 1..c
          BY <3>3
        <4> QED
          BY <3>1, <3>3, <4>1
      <3>5. ASSUME NEW i \in 1..(c + 1), NEW j \in 1..(c + 1), i < j PROVE g[i] < g[j]
        <4>1. i \in 1..c
          BY <3>3, <3>5
        <4>4. g[i] = f[i] /\ f[i] \in 1..(n - 1)
          <5>1. f[i] \in T
            BY <3>3, <4>1
          <5>2. i # c + 1
            BY <3>3, <4>1
          <5> QED
            BY <2>1, <5>1, <5>2
        <4>2. CASE j = c + 1
          BY <4>2, <4>4
        <4>3. CASE j # c + 1
          <5>1. j \in 1..c /\ g[j] = f[j]
            BY <3>3, <4>3
          <5>2. f[i] < f[j]
            BY <3>3, <3>5, <4>1, <5>1 DEF Increasing
          <5> QED
            BY <4>4, <5>1, <5>2
        <4> QED
          BY <4>2, <4>3
      <3>6. Increasing(g)
        BY <3>5 DEF Increasing
      <3> QED
        BY <3>3, <3>4, <3>6
    <2> QED
      BY <2>3, <2>4
  <1> QED
    BY <1>2, <1>3

LEMMA AscendingExists == \A n \in Nat : Ascending(n)
  <1> SUFFICES ASSUME NEW m \in Nat, ~Ascending(m) PROVE FALSE
    OBVIOUS
  <1> DEFINE Bad  == {n \in Nat : ~Ascending(n)}
             less == OpToRel(<, Nat)
  <1>1. PICK n \in Bad : \A k \in Bad : <<k, n>> \notin less
    <2>1. IsWellFoundedOn(less, Nat)
      BY NatLessThanWellFounded
    <2> HIDE DEF less
    <2> QED
      BY <2>1, WFMin
  <1>2. n > 0 => Ascending(n - 1)
    <2> SUFFICES ASSUME n > 0, ~Ascending(n - 1) PROVE FALSE
      OBVIOUS
    <2>1. n - 1 \in Bad /\ n - 1 < n /\ n \in Nat /\ n - 1 \in Nat
      OBVIOUS
    <2>2. <<n - 1, n>> \in less
      BY <2>1 DEF OpToRel
    <2> QED
      BY <1>1, <2>1, <2>2
  <1> QED
    BY <1>2, AscendingStep

Distinct(s) == \A i, j \in 1..Len(s) : s[i] = s[j] => i = j

\* getNewItems keeps what was not there before, all of it, and each item once.
LEMMA NewItems ==
  ASSUME NEW S, NEW current \in Seq(S), NEW previous
  PROVE  /\ Items(getNewItems(previous, current)) = Items(current) \ Items(previous)
         /\ Distinct(current) => Distinct(getNewItems(previous, current))
         /\ getNewItems(previous, current) \in Seq(S)
  <1> DEFINE new   == {k \in 1..Len(current) : current[k] \notin Items(previous)}
             c     == Cardinality(new)
             right == {f \in [1..c -> new] : Increasing(f)}
             kept  == CHOOSE f \in [1..c -> new] : Increasing(f)
             g     == [n \in 1..c |-> current[kept[n]]]
  <1>1. IsFiniteSet(new) /\ c \in Nat
    <2>1. IsFiniteSet(1..Len(current))
      BY FS_Interval
    <2>2. IsFiniteSet(new)
      BY <2>1, FS_Subset
    <2> QED
      BY <2>2, FS_CardinalityType
  <1>2. getNewItems(previous, current) = g
    BY DEF getNewItems
  <1>3. kept \in [1..c -> new] /\ Increasing(kept)
    <2>1. Ascending(Len(current)) /\ new \in SUBSET (1..Len(current))
      BY AscendingExists
    <2>2. \E f \in [1..c -> new] : Increasing(f)
      BY <2>1 DEF Ascending
    <2> HIDE DEF new, c
    <2> QED
      BY <2>2
  <1> HIDE DEF c, kept
  <1>4. kept \in Injection(1..c, new)
    <2>1. \A i, j \in 1..c : kept[i] \in Nat /\ kept[j] \in Nat /\ (i < j => kept[i] < kept[j])
      BY <1>3 DEF Increasing
    <2>2. \A i, j \in 1..c : kept[i] = kept[j] => i = j
      BY <1>1, <2>1
    <2> HIDE DEF new
    <2> QED
      BY <1>3, <2>2 DEF Injection, IsInjective
  <1>5. kept \in Surjection(1..c, new)
    <2>1. Cardinality(1..c) = c
      BY <1>1, FS_Interval
    <2>2. Cardinality(1..c) = Cardinality(new)
      BY <2>1 DEF c
    <2> HIDE DEF new
    <2> QED
      BY <1>1, <1>4, <2>2, FS_Injection
  <1>6. \A k \in new : \E n \in 1..c : kept[n] = k
    <2> HIDE DEF new
    <2> QED
      BY <1>5 DEF Surjection
  <1>7. g \in Seq(S) /\ Len(g) = c /\ \A n \in 1..c : g[n] = current[kept[n]]
    BY <1>1, <1>3
  <1> HIDE DEF g
  <1>8. Items(g) = Items(current) \ Items(previous)
    <2>1. ASSUME NEW x \in Items(g) PROVE x \in Items(current) \ Items(previous)
      <3>1. PICK n \in 1..c : x = current[kept[n]]
        BY <1>7 DEF Items
      <3>2. kept[n] \in new
        BY <1>3
      <3> QED
        BY <3>1, <3>2 DEF Items
    <2>2. ASSUME NEW x \in Items(current) \ Items(previous) PROVE x \in Items(g)
      <3>1. PICK k \in 1..Len(current) : x = current[k]
        BY DEF Items
      <3>2. k \in new
        BY <3>1
      <3>3. PICK n \in 1..c : kept[n] = k
        BY <1>6, <3>2
      <3> QED
        BY <1>7, <3>1, <3>3 DEF Items
    <2> QED
      BY <2>1, <2>2
  <1>9. Distinct(current) => Distinct(g)
    <2> SUFFICES ASSUME Distinct(current), NEW i \in 1..c, NEW j \in 1..c,
                        current[kept[i]] = current[kept[j]]
                 PROVE  i = j
      BY <1>7 DEF Distinct
    <2>1. kept[i] \in 1..Len(current) /\ kept[j] \in 1..Len(current)
      BY <1>3
    <2>2. kept[i] = kept[j]
      BY <2>1 DEF Distinct
    <2> HIDE DEF new
    <2> QED
      BY <1>4, <2>2 DEF Injection, IsInjective
  <1> QED
    BY <1>2, <1>7, <1>8, <1>9

----------------------------------------------------------------------------
(* What the polls hold *)

Payload == Item \cup Seq(Item)
Stages  == {"down", "idle", "stalled", "fetch", "evaluate", "write", "emit"}
States  == {NoState} \cup {buildState(m, b) : m \in Modes, b \in Seq(Item)}
Marks   == Watches \cup {NoWatch}

\* b is what a source answers when it has answered w before.
Extends(b, w) == Len(w) <= Len(b) /\ \A k \in 1..Len(w) : w[k] = b[k + (Len(b) - Len(w))]

\* A response that v's source can have given, and a state of v that one leaves.
Answer(v, b)   == b \in Seq(Item) /\ Distinct(b) /\ Extends(remote[v.source], b)
StateOf(st, v) ==
  st # NoState => v \in Watches /\ \E w \in Seq(Item) : Answer(v, w) /\ st = buildState(v.changeMode, w)

Holding(s) ==
  /\ s \in [at : Stages, watch : Marks, body : Seq(Item), last : States, origin : Marks,
            payloads : Seq(Payload)]
  /\ s.at \in {"fetch", "evaluate", "write", "emit"} => s.watch \in Watches
  /\ s.at \in {"evaluate", "write"} => Answer(s.watch, s.body)
  /\ s.at = "write" => StateOf(s.last, s.origin)
  /\ s.at # "emit" => s.payloads = <<>>

HoldInv ==
  /\ config \in Config
  /\ remote \in [Sources -> Seq(Item)] /\ \A e \in Sources : Distinct(remote[e])
  /\ origin \in Marks /\ StateOf(state, origin)
  /\ DOMAIN poll = Process /\ \A p \in Process : Holding(poll[p])

----------------------------------------------------------------------------
(* Nothing is missed *)

Accounted    == fired \cup excused \cup Pending
Known(st, v) == st # NoState => Seen(st) \subseteq Shown(v, Accounted)

\* Also what a poll has read and not yet compared is accounted for.
MissInv ==
  /\ Known(state, origin)
  /\ \A p \in Process : poll[p].at = "write" => Known(poll[p].last, poll[p].origin)

----------------------------------------------------------------------------
(* A change fires once, unless two polls overlap or the watch was edited *)

Working(s) == s.at \in {"evaluate", "write"}

\* The payloads under v stand for what its answer w has.
Covers(v, w, ps) ==
  \A t \in ps : t[1] = v => IF v.changeMode = "array_length" THEN t[2] \in Items(w)
                                                            ELSE Items(t[2]) \subseteq Items(w)

\* w has the last answer written of every watch: what fired or is about to stands
\* for items of w, the poll at work has an answer as late as w, and a state is
\* the one that w left.
LastWritten(w) ==
  /\ \A v \in Watches : Answer(v, w[v]) /\ Covers(v, w[v], fired \cup Pending)
  /\ state # NoState => state = buildState(origin.changeMode, w[origin])
  /\ \A p \in Process :
       /\ Working(poll[p]) => Extends(poll[p].body, w[poll[p].watch])
       /\ poll[p].at = "write" /\ poll[p].last # NoState =>
            poll[p].last = buildState(poll[p].origin.changeMode, w[poll[p].origin])

\* One poll works at a time, and what they have in hand has not fired, nor is it in
\* the hands of two, unless a poll has found it again.
Apart ==
  /\ \A p, q \in Process : Working(poll[p]) /\ Working(poll[q]) => p = q
  /\ \A p \in Process : Payloads(p) \cap fired \subseteq retold
  /\ \A p, q \in Process : p = q \/ Payloads(p) \cap Payloads(q) \subseteq retold

OnceInv ==
  overlapped \/ ( /\ twice \subseteq retold
                  /\ Apart
                  /\ \E w \in [Watches -> Seq(Item)] : LastWritten(w) )

----------------------------------------------------------------------------
LEMMA WatchesAre ==
  /\ Modes = {"any", "specific_field", "array_length"}
  /\ \A v \in Watches : v.changeMode \in Modes /\ v.source \in Sources
  /\ \A c \in Config : c.watch \in Watches
  BY NestPollingAssumption DEF Modes, Watches, Sources

LEMMA ExtendsSame == ASSUME NEW b \in Seq(Item) PROVE Extends(b, b)
  BY DEF Extends

LEMMA ExtendsFurther ==
  ASSUME NEW b \in Seq(Item), NEW w \in Seq(Item), NEW v \in Seq(Item), Extends(b, w), Extends(w, v)
  PROVE  Extends(b, v)
  <1>1. ASSUME NEW k \in 1..Len(v) PROVE v[k] = b[k + (Len(b) - Len(v))]
    <2> DEFINE j == k + (Len(w) - Len(v))
    <2>1. j \in 1..Len(w) /\ v[k] = w[j]
      BY DEF Extends
    <2>2. w[j] = b[j + (Len(b) - Len(w))] /\ j + (Len(b) - Len(w)) = k + (Len(b) - Len(v))
      BY <2>1 DEF Extends
    <2> QED
      BY <2>1, <2>2
  <1> QED
    BY <1>1 DEF Extends

LEMMA ExtendsItems ==
  ASSUME NEW b \in Seq(Item), NEW w \in Seq(Item), Extends(b, w)
  PROVE  Items(w) \subseteq Items(b)
  <1> SUFFICES ASSUME NEW k \in 1..Len(w) PROVE w[k] \in Items(b)
    BY DEF Items
  <1>1. k + (Len(b) - Len(w)) \in 1..Len(b)
    BY DEF Extends
  <1> QED
    BY <1>1 DEF Extends, Items

\* A later answer that is not the same has something new.
LEMMA ExtendsNews ==
  ASSUME NEW b \in Seq(Item), NEW w \in Seq(Item), Distinct(b), Extends(b, w), b # w
  PROVE  Items(b) \ Items(w) # {}
  <1>1. Len(w) # Len(b)
    BY SeqEqual DEF Extends
  <1>2. 1 \in 1..Len(b) /\ b[1] \in Items(b)
    BY <1>1 DEF Extends, Items
  <1>3. ASSUME NEW k \in 1..Len(w), b[1] = w[k] PROVE FALSE
    <2>1. k + (Len(b) - Len(w)) \in 1..Len(b) /\ k + (Len(b) - Len(w)) # 1
      BY <1>1 DEF Extends
    <2>2. b[1] = b[k + (Len(b) - Len(w))]
      BY <1>3 DEF Extends
    <2> QED
      BY <1>2, <2>1, <2>2 DEF Distinct
  <1>4. b[1] \notin Items(w)
    BY <1>3 DEF Items
  <1> QED
    BY <1>2, <1>4

\* What is in the hands of a poll at s.
Tagged(s) == {s.watch} \X Items(s.payloads)

LEMMA NothingItems ==
  /\ Items(<<>>) = {} /\ Distinct(<<>>) /\ <<>> \in Seq(Items(<<>>))
  /\ \A s : s.payloads = <<>> => Tagged(s) = {}
  BY DEF Items, Distinct, Tagged

\* What a poll's outcome is.
LEMMA Outcome ==
  ASSUME NEW m \in Modes, NEW b, NEW last
  PROVE  LET o == evaluatePoll(m, b, last) IN
         /\ o.state = buildState(m, b)
         /\ o.kind = "changed" <=> last # NoState /\ ~statesEqual(last, buildState(m, b))
         /\ o.kind # "changed" => o.payloads = <<>>
         /\ o.kind = "changed" => o.payloads = IF m = "array_length" THEN getNewItems(last.items, b)
                                                                     ELSE <<b>>
  <1> DEFINE o == evaluatePoll(m, b, last)
             new == buildState(m, b)
  <1>1. CASE last = NoState
    <2>1. o = [kind |-> "baseline", state |-> new, payloads |-> <<>>]
      BY <1>1 DEF evaluatePoll
    <2> QED
      BY <1>1, <2>1
  <1>2. CASE last # NoState /\ statesEqual(last, new)
    <2>1. o = [kind |-> "unchanged", state |-> new, payloads |-> <<>>]
      BY <1>2 DEF evaluatePoll
    <2> QED
      BY <1>2, <2>1
  <1>3. CASE last # NoState /\ ~statesEqual(last, new)
    <2>1. o = [kind |-> "changed", state |-> new,
               payloads |-> IF m = "array_length" THEN getNewItems(last.items, b) ELSE <<b>>]
      BY <1>3 DEF evaluatePoll
    <2> QED
      BY <1>3, <2>1
  <1> QED
    BY <1>1, <1>2, <1>3

LEMMA StateIs ==
  ASSUME NEW m \in Modes, NEW b
  PROVE  /\ buildState(m, b) # NoState
         /\ statesEqual(buildState(m, b), buildState(m, b))
         /\ m = "array_length" => buildState(m, b).items = b
  BY DEF buildState, NoState, statesEqual, Modes

LEMMA OneItem == ASSUME NEW b PROVE Items(<<b>>) = {b}
  BY DEF Items

\* What remains an answer.
Later == \A v \in Watches : \A b : Answer(v, b) => Answer(v, b)'

LEMMA SameLater == ASSUME remote' = remote PROVE Later
  BY DEF Later, Answer

LEMMA HoldsLater ==
  ASSUME Later, NEW s, NEW v
  PROVE  (Holding(s) => Holding(s)') /\ (StateOf(s, v) => StateOf(s, v)')
  <1>1. ASSUME NEW st, NEW u, StateOf(st, u) PROVE StateOf(st, u)'
    BY <1>1 DEF StateOf, Later
  <1>2. ASSUME Holding(s) PROVE Holding(s)'
    <2>1. s.at \in {"evaluate", "write"} => Answer(s.watch, s.body)'
      BY <1>2 DEF Holding, Later
    <2>2. s.at = "write" => StateOf(s.last, s.origin)'
      BY <1>1, <1>2 DEF Holding
    <2> QED
      BY <1>2, <2>1, <2>2 DEF Holding
  <1> QED
    BY <1>1, <1>2

LEMMA PublishLater ==
  ASSUME HoldInv, NEW e \in Sources, Publish(e)
  PROVE  /\ remote' \in [Sources -> Seq(Item)] /\ \A f \in Sources : Distinct(remote'[f])
         /\ Later
  <1>1. PICK x \in Item \ Items(remote[e]) : remote' = [remote EXCEPT ![e] = <<x>> \o @]
    BY NestPollingAssumption DEF Publish
  <1> DEFINE old  == remote[e]
             next == <<x>> \o old
  <1>2. /\ old \in Seq(Item) /\ next \in Seq(Item) /\ Len(next) = Len(old) + 1 /\ next[1] = x
        /\ \A k \in 1..Len(old) : next[k + 1] = old[k]
        /\ Len(old) \in Nat /\ Distinct(old) /\ x \notin Items(old)
    BY DEF HoldInv
  <1>3. remote' \in [Sources -> Seq(Item)] /\ \A f \in Sources : remote'[f] = IF f = e THEN next ELSE remote[f]
    BY <1>1, <1>2 DEF HoldInv
  <1> HIDE DEF next, old
  <1>4. Extends(next, old)
    BY <1>2 DEF Extends
  <1>5. Distinct(next)
    <2> SUFFICES ASSUME NEW i \in 1..Len(next), NEW j \in 1..Len(next), next[i] = next[j], i < j
                 PROVE  FALSE
      BY <1>2 DEF Distinct
    <2>1. j - 1 \in 1..Len(old) /\ next[j] = old[j - 1]
      <3>1. j - 1 \in 1..Len(old)
        BY <1>2
      <3> QED
        BY <1>2, <3>1
    <2>2. CASE i = 1
      BY <1>2, <2>1, <2>2 DEF Items
    <2>3. CASE i # 1
      <3>1. i - 1 \in 1..Len(old) /\ next[i] = old[i - 1] /\ i - 1 # j - 1
        <4>1. i - 1 \in 1..Len(old)
          BY <1>2, <2>3
        <4> QED
          BY <1>2, <4>1
      <3> QED
        BY <1>2, <2>1, <3>1 DEF Distinct
    <2> QED
      BY <2>2, <2>3
  <1>6. ASSUME NEW v \in Watches, NEW b, Answer(v, b) PROVE Answer(v, b)'
    <2>1. CASE v.source = e
      <3>1. Extends(next, b)
        BY <1>2, <1>4, <1>6, <2>1, ExtendsFurther DEF Answer, old
      <3> QED
        BY <1>3, <1>6, <2>1, <3>1 DEF Answer
    <2>2. CASE v.source # e
      BY <1>3, <1>6, <2>2, WatchesAre DEF Answer
    <2> QED
      BY <2>1, <2>2
  <1> QED
    BY <1>2, <1>3, <1>5, <1>6 DEF Later, HoldInv

\* A poll moves on.
LEMMA PollMoves ==
  ASSUME HoldInv, NEW p \in Process, NEW s, Holding(s), poll' = [poll EXCEPT ![p] = s],
         config' = config, remote' = remote, origin' \in Marks, StateOf(state', origin')
  PROVE  HoldInv'
  <1>1. Later
    BY SameLater
  <1>2. DOMAIN poll' = Process /\ \A q \in Process : poll'[q] = IF q = p THEN s ELSE poll[q]
    BY DEF HoldInv
  <1>3. ASSUME NEW q \in Process PROVE Holding(poll[q])'
    <2>1. PICK t : t = poll'[q]
      OBVIOUS
    <2>2. Holding(t)
      BY <1>2, <2>1 DEF HoldInv
    <2>3. Holding(t)'
      BY <1>1, <2>2, HoldsLater
    <2> QED
      BY <2>1, <2>3 DEF Holding
  <1>4. StateOf(state, origin)'
    <2>1. PICK t, v : t = state' /\ v = origin'
      OBVIOUS
    <2>2. StateOf(t, v)'
      BY <1>1, <2>1, HoldsLater
    <2> QED
      BY <2>1, <2>2 DEF StateOf
  <1> QED
    BY <1>2, <1>3, <1>4 DEF HoldInv

\* The polls stay as they are.
LEMMA HoldStays ==
  ASSUME HoldInv, Later, config' \in Config,
         remote' \in [Sources -> Seq(Item)], \A e \in Sources : Distinct(remote'[e]), poll' = poll,
         (state' = state /\ origin' = origin) \/ (state' = NoState /\ origin' = NoWatch)
  PROVE  HoldInv'
  <1>1. ASSUME NEW q \in Process PROVE Holding(poll[q])'
    <2>1. PICK t : t = poll[q]
      OBVIOUS
    <2>2. Holding(t)'
      BY <2>1, HoldsLater DEF HoldInv
    <2> QED
      BY <2>1, <2>2 DEF Holding
  <1>2. StateOf(state, origin)' /\ origin' \in Marks
    <2>1. PICK t, v : t = state' /\ v = origin'
      OBVIOUS
    <2>2. StateOf(t, v)'
      <3>1. StateOf(t, v)
        BY <2>1 DEF HoldInv, StateOf
      <3> QED
        BY <3>1, HoldsLater
    <2> QED
      BY <2>1, <2>2 DEF StateOf, HoldInv, Marks
  <1> QED
    BY <1>1, <1>2 DEF HoldInv, Distinct

----------------------------------------------------------------------------
(* What each step of a poll does *)

\* It is at s next, and nothing but the polls changes.
PollTo(p, s) ==
  /\ poll' = [poll EXCEPT ![p] = s] /\ Holding(s)
  /\ config' = config /\ remote' = remote

\* Neither Fetch nor Write nor Emit: nothing is fetched, and what is dropped is
\* excused.
Quietly(p, s) ==
  /\ PollTo(p, s)
  /\ UNCHANGED <<state, origin, fired, twice, retold, overlapped>>
  /\ s.payloads = <<>> /\ excused' = excused \cup Payloads(p)
  /\ Working(s) => Working(poll[p]) /\ s.body = poll[p].body /\ s.watch = poll[p].watch
  /\ s.at = "write" => s.last = state /\ s.origin = origin

Writes(p, s) ==
  /\ PollTo(p, s) /\ poll[p].at = "write" /\ s.at = "emit" /\ s.watch = poll[p].watch
  /\ state' = buildState(s.watch.changeMode, poll[p].body) /\ origin' = s.watch
  /\ UNCHANGED <<fired, twice, overlapped>>
  /\ excused \subseteq excused' /\ retold \subseteq retold'
  /\ poll[p].last = NoState \/ Crosses(p) => Told(s.watch, poll[p].body) \subseteq excused'
  /\ Crosses(p) => Tagged(s) \cap (fired \cup Pending) \subseteq retold'
  /\ Items(s.payloads) =
       IF poll[p].last = NoState \/ statesEqual(poll[p].last, state') THEN {}
       ELSE IF s.watch.changeMode = "array_length"
            THEN Items(poll[p].body) \ Items(poll[p].last.items) ELSE {poll[p].body}

LEMMA HoldingNew ==
  ASSUME NEW a \in Stages \ {"evaluate", "write"}, NEW v \in Marks, NEW ps \in Seq(Payload),
         a = "emit" \/ ps = <<>>, a \in {"fetch", "emit"} => v \in Watches
  PROVE  Holding([at |-> a, watch |-> v, body |-> <<>>, last |-> NoState, origin |-> NoWatch,
                  payloads |-> ps])
  <1> DEFINE s == [at |-> a, watch |-> v, body |-> <<>>, last |-> NoState, origin |-> NoWatch,
                   payloads |-> ps]
  <1>1. NoState \in States /\ NoWatch \in Marks
    BY DEF States, Marks
  <1>2. s.at = a /\ s.payloads = ps /\ s.watch = v
    OBVIOUS
  <1>3. s \in [at : Stages, watch : Marks, body : Seq(Item), last : States, origin : Marks,
               payloads : Seq(Payload)]
    BY <1>1
  <1> HIDE DEF s
  <1> QED
    BY <1>2, <1>3 DEF Holding, s

LEMMA IdleIs ==
  /\ Idle.at = "idle" /\ Idle.body = <<>> /\ Idle.last = NoState /\ Idle.payloads = <<>>
  /\ Holding(Idle) /\ ~Working(Idle) /\ Tagged(Idle) = {}
  <1>1. Idle.at = "idle" /\ Idle.body = <<>> /\ Idle.last = NoState /\ Idle.payloads = <<>>
    BY DEF Idle
  <1>2. "idle" \in Stages \ {"evaluate", "write"} /\ <<>> \in Seq(Payload) /\ NoWatch \in Marks
    BY DEF Stages, Marks
  <1>3. Holding(Idle)
    BY <1>2, HoldingNew DEF Idle
  <1> QED
    BY <1>1, <1>3, NothingItems DEF Working

LEMMA QuietSteps ==
  ASSUME HoldInv, NEW p \in Process, Find(p) \/ Evaluate(p) \/ PollFails(p) \/ Stall(p)
  PROVE  \E s : Quietly(p, s)
  <1> DEFINE old == poll[p]
  <1>0. /\ Holding(old) /\ StateOf(state, origin) /\ origin \in Marks
        /\ old \in [at : Stages, watch : Marks, body : Seq(Item), last : States, origin : Marks,
                    payloads : Seq(Payload)]
        /\ Payloads(p) = Tagged(old)
        /\ old.at # "emit" => old.payloads = <<>> /\ Payloads(p) = {}
    BY NothingItems DEF HoldInv, Holding, Payloads, Tagged
  <1>1. CASE Find(p)
    <2>1. PICK s : s = IF Wanted THEN [Idle EXCEPT !.at = "fetch", !.watch = config.watch] ELSE Idle
      OBVIOUS
    <2>2. Holding(s) /\ s.payloads = <<>> /\ ~Working(s)
      <3>1. CASE ~Wanted
        BY <2>1, <3>1, IdleIs
      <3>2. CASE Wanted
        <4>1. s = [at |-> "fetch", watch |-> config.watch, body |-> <<>>, last |-> NoState,
                   origin |-> NoWatch, payloads |-> <<>>]
          BY <2>1, <3>2 DEF Idle
        <4>2. "fetch" \in Stages \ {"evaluate", "write"} /\ <<>> \in Seq(Payload)
              /\ config.watch \in Watches /\ config.watch \in Marks
          BY WatchesAre DEF Stages, Marks, HoldInv
        <4> QED
          BY <4>1, <4>2, HoldingNew DEF Working
      <3> QED
        BY <3>1, <3>2
    <2>3. old.at \in {"idle", "stalled"} /\ poll' = [poll EXCEPT ![p] = s]
      BY <1>1, <2>1 DEF Find
    <2>4. Quietly(p, s)
      BY <1>0, <1>1, <2>2, <2>3 DEF Find, Quietly, PollTo, Working, row, history
    <2> QED
      BY <2>4
  <1>2. CASE Evaluate(p)
    <2>1. PICK s : s = [old EXCEPT !.at = "write", !.last = state, !.origin = origin]
      OBVIOUS
    <2>2. old.at = "evaluate" /\ poll' = [poll EXCEPT ![p] = s]
      BY <1>2, <2>1 DEF Evaluate, PollGoto
    <2>3. /\ s.at = "write" /\ s.last = state /\ s.origin = origin
          /\ s.payloads = old.payloads /\ s.body = old.body /\ s.watch = old.watch
      BY <1>0, <2>1
    <2>4. Holding(s)
      <3>1. state \in States
        <4>1. CASE state = NoState
          BY <4>1 DEF States
        <4>2. CASE state # NoState
          <5>1. StateOf(state, origin)
            BY <1>0
          <5>2. origin \in Watches
            BY <4>2, <5>1 DEF StateOf
          <5>3. PICK b \in Seq(Item) : state = buildState(origin.changeMode, b)
            BY <4>2, <5>1 DEF StateOf
          <5>4. origin.changeMode \in Modes
            BY <5>2, WatchesAre
          <5> QED
            BY <5>3, <5>4 DEF States
        <4> QED
          BY <4>1, <4>2
      <3>2. "write" \in Stages
        BY DEF Stages
      <3>3. s \in [at : Stages, watch : Marks, body : Seq(Item), last : States, origin : Marks,
                   payloads : Seq(Payload)]
        BY <1>0, <2>1, <3>1, <3>2
      <3>4. s.watch \in Watches /\ Answer(s.watch, s.body) /\ StateOf(s.last, s.origin) /\ s.payloads = <<>>
        BY <1>0, <2>2, <2>3 DEF Holding
      <3> QED
        BY <3>3, <3>4 DEF Holding
    <2>5. Quietly(p, s)
      BY <1>0, <1>2, <2>2, <2>3, <2>4 DEF Evaluate, Quietly, PollTo, Working, row, history
    <2> QED
      BY <2>5
  <1>3. CASE PollFails(p)
    <2>1. old.at \in {"fetch", "evaluate", "write"} /\ poll' = [poll EXCEPT ![p] = Idle]
      BY <1>3 DEF PollFails
    <2>2. Quietly(p, Idle)
      BY <1>0, <1>3, <2>1, IdleIs DEF PollFails, Quietly, PollTo, Working, row, history
    <2> QED
      BY <2>2
  <1>4. CASE Stall(p)
    <2>1. PICK s : s = [Idle EXCEPT !.at = "stalled"]
      OBVIOUS
    <2>2. Holding(s) /\ s.payloads = <<>> /\ ~Working(s) /\ s.at = "stalled"
      <3>1. s = [at |-> "stalled", watch |-> NoWatch, body |-> <<>>, last |-> NoState,
                 origin |-> NoWatch, payloads |-> <<>>]
        BY <2>1 DEF Idle
      <3>2. "stalled" \in Stages \ {"evaluate", "write"} /\ <<>> \in Seq(Payload) /\ NoWatch \in Marks
        BY DEF Stages, Marks
      <3> QED
        BY <3>1, <3>2, HoldingNew DEF Working
    <2>3. Quietly(p, s)
      BY <1>4, <2>1, <2>2 DEF Stall, Quietly, PollTo, row
    <2> QED
      BY <2>3
  <1> QED
    BY <1>1, <1>2, <1>3, <1>4

LEMMA FetchSteps ==
  ASSUME HoldInv, NEW p \in Process, Fetch(p)
  PROVE  \E s : /\ PollTo(p, s) /\ s.at = "evaluate" /\ poll[p].at = "fetch"
                /\ s.watch = poll[p].watch /\ s.watch \in Watches
                /\ s.body = remote[s.watch.source] /\ s.payloads = poll[p].payloads
  <1>1. PICK s : s = [poll[p] EXCEPT !.at = "evaluate", !.body = remote[poll[p].watch.source]]
    OBVIOUS
  <1>2. /\ poll[p].at = "fetch" /\ poll' = [poll EXCEPT ![p] = s] /\ config' = config /\ remote' = remote
        /\ poll[p].watch \in Watches /\ poll[p].watch.source \in Sources
    BY <1>1, WatchesAre DEF Fetch, PollGoto, row, HoldInv, Holding
  <1>3. /\ s \in [at : Stages, watch : Marks, body : Seq(Item), last : States, origin : Marks,
                  payloads : Seq(Payload)]
        /\ s.at = "evaluate" /\ s.watch = poll[p].watch
        /\ s.body = remote[s.watch.source] /\ s.payloads = poll[p].payloads
    <2>1. /\ poll[p] \in [at : Stages, watch : Marks, body : Seq(Item), last : States, origin : Marks,
                          payloads : Seq(Payload)]
          /\ remote[poll[p].watch.source] \in Seq(Item)
      BY <1>2 DEF HoldInv, Holding
    <2>2. "evaluate" \in Stages
      BY DEF Stages
    <2> QED
      BY <1>1, <2>1, <2>2
  <1>4. Answer(s.watch, s.body) /\ s.payloads = <<>>
    BY <1>2, <1>3, ExtendsSame DEF HoldInv, Holding, Answer
  <1>5. Holding(s)
    BY <1>2, <1>3, <1>4 DEF Holding
  <1> QED
    BY <1>2, <1>3, <1>5 DEF PollTo

LEMMA WriteSteps ==
  ASSUME HoldInv, NEW p \in Process, Write(p)
  PROVE  \E s : Writes(p, s)
  <1> DEFINE v    == poll[p].watch
             m    == v.changeMode
             b    == poll[p].body
             last == poll[p].last
             o    == evaluatePoll(m, b, last)
  <1>1. PICK s : s = [Idle EXCEPT !.at = "emit", !.watch = v, !.payloads = o.payloads]
    OBVIOUS
  <1>2. /\ poll[p].at = "write" /\ poll' = [poll EXCEPT ![p] = s] /\ state' = o.state /\ origin' = v
        /\ excused' = IF o.kind = "baseline" \/ Crosses(p) THEN excused \cup Told(v, b) ELSE excused
        /\ retold' = IF Crosses(p) THEN retold \cup (({v} \X Items(o.payloads)) \cap (fired \cup Pending))
                                  ELSE retold
        /\ config' = config /\ remote' = remote /\ fired' = fired /\ twice' = twice
        /\ overlapped' = overlapped
    BY <1>1 DEF Write, PollGoto, row
  <1>3. /\ s.at = "emit" /\ s.payloads = o.payloads /\ s.body = <<>> /\ s.last = NoState /\ s.watch = v
        /\ Tagged(s) = {v} \X Items(o.payloads)
    BY <1>1 DEF Idle, Tagged
  <1>4. v \in Watches /\ m \in Modes /\ Answer(v, b) /\ b \in Seq(Item) /\ StateOf(last, poll[p].origin)
    BY <1>2, WatchesAre DEF HoldInv, Holding, Answer
  <1>5. /\ o.state = buildState(m, b)
        /\ o.kind = "changed" <=> last # NoState /\ ~statesEqual(last, buildState(m, b))
        /\ o.kind # "changed" => o.payloads = <<>>
        /\ o.kind = "changed" => o.payloads = IF m = "array_length" THEN getNewItems(last.items, b)
                                                                    ELSE <<b>>
    BY <1>4, Outcome
  <1>6. last = NoState => o.kind = "baseline"
    BY DEF evaluatePoll
  <1>7. /\ o.payloads \in Seq(Payload)
        /\ Items(o.payloads) =
             IF last = NoState \/ statesEqual(last, buildState(m, b)) THEN {}
             ELSE IF m = "array_length" THEN Items(b) \ Items(last.items) ELSE {b}
    <2>1. CASE o.kind # "changed"
      <3>1. o.payloads = <<>>
        BY <1>5, <2>1
      <3> QED
        BY <1>5, <2>1, <3>1, NothingItems
    <2>2. CASE o.kind = "changed" /\ m = "array_length"
      <3>1. o.payloads = getNewItems(last.items, b)
        BY <1>5, <2>2
      <3>2. getNewItems(last.items, b) \in Seq(Item)
            /\ Items(getNewItems(last.items, b)) = Items(b) \ Items(last.items)
        BY <1>4, NewItems
      <3>3. getNewItems(last.items, b) \in Seq(Payload)
        BY <3>2 DEF Payload
      <3> QED
        BY <1>5, <2>2, <3>1, <3>2, <3>3
    <2>3. CASE o.kind = "changed" /\ m # "array_length"
      <3>1. o.payloads = <<b>>
        BY <1>5, <2>3
      <3>2. <<b>> \in Seq(Payload)
        BY <1>4 DEF Payload
      <3> QED
        BY <1>5, <2>3, <3>1, <3>2, OneItem
    <2> QED
      BY <2>1, <2>2, <2>3
  <1> HIDE DEF o
  <1>8. Holding(s)
    <2>1. s = [at |-> "emit", watch |-> v, body |-> <<>>, last |-> NoState, origin |-> NoWatch,
               payloads |-> o.payloads]
      BY <1>1 DEF Idle
    <2>2. "emit" \in Stages \ {"evaluate", "write"} /\ v \in Marks
      BY <1>4 DEF Stages, Marks
    <2> QED
      BY <1>4, <1>7, <2>1, <2>2, HoldingNew
  <1>9. Writes(p, s)
    BY <1>2, <1>3, <1>5, <1>6, <1>7, <1>8 DEF Writes, PollTo
  <1> QED
    BY <1>9

LEMMA EmitSteps ==
  ASSUME HoldInv, NEW p \in Process, Emit(p)
  PROVE  /\ PollTo(p, Idle)
         /\ UNCHANGED <<state, origin, excused, retold, overlapped>>
         /\ fired' = fired \cup Payloads(p)
         /\ twice' = twice \cup (Payloads(p) \cap fired)
  BY IdleIs DEF Emit, PollGoto, PollTo, row

\* Steps of a handler.
LEMMA HandlersOnly ==
  ASSUME HoldInv, NEW h \in Handler, Edit(h) \/ Boot(h) \/ Handle(h) \/ LoseHandler(h)
  PROVE  /\ config' \in Config
         /\ UNCHANGED <<remote, state, poll, fired, twice, excused, retold, origin, overlapped>>
  <1>1. CASE Upsert(h)
    BY <1>1 DEF Upsert, history
  <1>2. CASE Edit(h) \/ Boot(h) \/ LoseHandler(h)
    BY <1>2 DEF HoldInv, Edit, FindExisting, Remove, SetStatus, Boot, LoseHandler, history, row
  <1>3. CASE DeleteRow(h) \/ FindTrigger(h) \/ ReadTrigger(h) \/ ListJobs(h) \/ RemoveJobs(h)
             \/ AddJob(h)
    BY <1>3 DEF HoldInv, DeleteRow, FindTrigger, ReadTrigger, ListJobs, RemoveJobs, AddJob, history, row
  <1> QED
    BY <1>1, <1>2, <1>3 DEF Handle

----------------------------------------------------------------------------
(* The invariants are inductive *)

LEMMA HoldStep ==
  ASSUME HoldInv, [Next]_vars
  PROVE  HoldInv'
  <1>1. CASE UNCHANGED vars
    <2>1. config' = config /\ remote' = remote /\ poll' = poll /\ state' = state /\ origin' = origin
      BY <1>1 DEF vars, row, history
    <2> QED
      BY <2>1, SameLater, HoldStays DEF HoldInv
  <1>2. ASSUME NEW h \in Handler, Edit(h) \/ Boot(h) \/ Handle(h) \/ LoseHandler(h) PROVE HoldInv'
    <2>1. /\ config' \in Config
          /\ remote' = remote /\ poll' = poll /\ state' = state /\ origin' = origin
      BY <1>2, HandlersOnly
    <2> QED
      BY <2>1, SameLater, HoldStays DEF HoldInv
  <1>3. ASSUME NEW p \in Process, Find(p) \/ Evaluate(p) \/ PollFails(p) \/ Stall(p) PROVE HoldInv'
    <2>1. PICK s : Quietly(p, s)
      BY <1>3, QuietSteps
    <2> QED
      BY <2>1, PollMoves DEF Quietly, PollTo, HoldInv, StateOf
  <1>4. ASSUME NEW p \in Process, Fetch(p) PROVE HoldInv'
    <2>1. PICK s : PollTo(p, s)
      BY <1>4, FetchSteps
    <2>2. state' = state /\ origin' = origin
      BY <1>4 DEF Fetch
    <2> QED
      BY <2>1, <2>2, PollMoves DEF PollTo, HoldInv, StateOf
  <1>5. ASSUME NEW p \in Process, Write(p) PROVE HoldInv'
    <2>1. PICK s : Writes(p, s)
      BY <1>5, WriteSteps
    <2>2. Answer(s.watch, poll[p].body) /\ s.watch \in Watches
      BY <2>1 DEF Writes, HoldInv, Holding
    <2>3. StateOf(state', origin') /\ origin' \in Marks
      BY <2>1, <2>2 DEF Writes, StateOf, Answer, Marks
    <2> QED
      BY <2>1, <2>3, PollMoves DEF Writes, PollTo
  <1>6. ASSUME NEW p \in Process, Emit(p) PROVE HoldInv'
    BY <1>6, EmitSteps, PollMoves DEF PollTo, HoldInv, StateOf
  <1>7. CASE StateExpires
    <2>1. config' = config /\ remote' = remote /\ poll' = poll /\ state' = NoState /\ origin' = NoWatch
      BY <1>7 DEF StateExpires, row
    <2> QED
      BY <2>1, SameLater, HoldStays DEF HoldInv
  <1>8. ASSUME NEW e \in Sources, Publish(e) PROVE HoldInv'
    <2>1. config' = config /\ poll' = poll /\ state' = state /\ origin' = origin
      BY <1>8 DEF Publish, row, history
    <2> QED
      BY <1>8, <2>1, PublishLater, HoldStays DEF HoldInv
  <1> QED
    BY <1>1, <1>2, <1>3, <1>4, <1>5, <1>6, <1>7, <1>8 DEF Next, Poll

\* Nothing that was accounted for is lost.
LEMMA StillAccounted ==
  ASSUME Accounted \subseteq Accounted', NEW st, NEW v, Known(st, v)
  PROVE  Known(st, v)'
  BY DEF Known, Shown

\* What a poll at s has in hand is pending; what it had is all that may not be.
LEMMA PendingMoves ==
  ASSUME HoldInv, NEW p \in Process, NEW s, poll' = [poll EXCEPT ![p] = s]
  PROVE  /\ \A q \in Process : poll'[q] = IF q = p THEN s ELSE poll[q]
         /\ \A q \in Process : Payloads(q)' = IF q = p THEN Tagged(s) ELSE Payloads(q)
         /\ Pending \subseteq Pending' \cup Payloads(p)
         /\ Pending' \subseteq Pending \cup Tagged(s)
         /\ Tagged(s) \subseteq Pending'
  <1>1. \A q \in Process : poll'[q] = IF q = p THEN s ELSE poll[q]
    BY DEF HoldInv
  <1>2. \A q \in Process : Payloads(q)' = IF q = p THEN Tagged(s) ELSE Payloads(q)
    <2>1. \A q \in Process : Payloads(q)' = Tagged(poll'[q]) /\ Payloads(q) = Tagged(poll[q])
      BY DEF Payloads, Tagged
    <2> QED
      BY <1>1, <2>1
  <1>3. Pending' = UNION {Payloads(q)' : q \in Process}
    BY DEF Pending
  <1> QED
    BY <1>1, <1>2, <1>3 DEF Pending

LEMMA SamePending == ASSUME poll' = poll PROVE Pending' = Pending /\ \A p \in Process : Payloads(p)' = Payloads(p)
  BY DEF Pending, Payloads

\* A step after which the state, and what the polls have read, was known before.
LEMMA MissStays ==
  ASSUME MissInv, Accounted \subseteq Accounted', Known(state', origin'),
         \A q \in Process : poll'[q].at = "write" => Known(poll'[q].last, poll'[q].origin)
  PROVE  MissInv'
  <1>1. ASSUME NEW st, NEW v, Known(st, v) PROVE Known(st, v)'
    BY <1>1, StillAccounted
  <1>2. Known(state, origin)'
    <2>1. PICK st, v : st = state' /\ v = origin'
      OBVIOUS
    <2>2. Known(st, v)'
      BY <1>1, <2>1
    <2> QED
      BY <2>1, <2>2 DEF Known
  <1>3. ASSUME NEW q \in Process, poll'[q].at = "write" PROVE Known(poll[q].last, poll[q].origin)'
    <2>1. PICK st, v : st = poll'[q].last /\ v = poll'[q].origin
      OBVIOUS
    <2>2. Known(st, v)'
      BY <1>1, <1>3, <2>1
    <2> QED
      BY <2>1, <2>2 DEF Known
  <1> QED
    BY <1>2, <1>3 DEF MissInv

LEMMA SeenIs ==
  ASSUME NEW m \in Modes, NEW b
  PROVE  Seen(buildState(m, b)) =
           IF m = "array_length" THEN Items(b) ELSE {IF m = "any" THEN b ELSE FieldOf(b)}
  BY DEF Seen, buildState, Modes

\* What payloads under v stand for shows what a state that has read b has seen.
LEMMA ToldIsShown ==
  ASSUME NEW v \in Watches, NEW b, NEW ps, Told(v, b) \subseteq ps
  PROVE  Seen(buildState(v.changeMode, b)) \subseteq Shown(v, ps)
  <1>1. Seen(buildState(v.changeMode, b)) =
           IF v.changeMode = "array_length" THEN Items(b)
                                            ELSE {IF v.changeMode = "any" THEN b ELSE FieldOf(b)}
    BY WatchesAre, SeenIs
  <1>2. ASSUME NEW x, <<v, x>> \in ps
        PROVE  (IF v.changeMode = "specific_field" THEN FieldOf(x) ELSE x) \in Shown(v, ps)
    <2>1. PICK t : t = <<v, x>>
      OBVIOUS
    <2>2. t \in ps /\ t[1] = v /\ t[2] = x
      BY <1>2, <2>1
    <2> HIDE <2>1
    <2> QED
      BY <2>2 DEF Shown
  <1>3. CASE v.changeMode = "array_length"
    <2>1. ASSUME NEW x \in Items(b) PROVE <<v, x>> \in ps
      BY <1>3, <2>1 DEF Told
    <2> QED
      BY <1>1, <1>2, <1>3, <2>1
  <1>4. CASE v.changeMode # "array_length"
    <2>1. <<v, b>> \in ps
      BY <1>4 DEF Told
    <2> QED
      BY <1>1, <1>2, <1>4, <2>1, WatchesAre
  <1> QED
    BY <1>3, <1>4

LEMMA SameLength ==
  ASSUME NEW v, remote[v.source] \in Seq(Item), NEW b, NEW w, Answer(v, b), Answer(v, w), Len(w) = Len(b)
  PROVE  b = w
  <1>1. b \in Seq(Item) /\ w \in Seq(Item)
    BY DEF Answer
  <1>2. ASSUME NEW k \in 1..Len(b) PROVE b[k] = w[k]
    <2>1. b[k] = remote[v.source][k + (Len(remote[v.source]) - Len(b))]
      BY DEF Answer, Extends
    <2>2. w[k] = remote[v.source][k + (Len(remote[v.source]) - Len(w))]
      BY DEF Answer, Extends
    <2> QED
      BY <2>1, <2>2
  <1> QED
    BY <1>1, <1>2, SeqEqual

\* What a written state has seen is accounted for: by its payloads, by a baseline or
\* a poll that crosses, or as it was by the state it was compared with.
LEMMA WrittenIsKnown ==
  ASSUME HoldInv, MissInv, NEW p \in Process, NEW s, Writes(p, s), Accounted \subseteq Accounted'
  PROVE  Known(state, origin)'
  <1> DEFINE v    == s.watch
             m    == v.changeMode
             b    == poll[p].body
             last == poll[p].last
             new  == buildState(m, b)
  <1>1. /\ state' = new /\ origin' = v /\ v = poll[p].watch
        /\ Answer(v, b) /\ StateOf(last, poll[p].origin) /\ Known(last, poll[p].origin)
        /\ Items(s.payloads) = IF last = NoState \/ statesEqual(last, new) THEN {}
                               ELSE IF m = "array_length" THEN Items(b) \ Items(last.items) ELSE {b}
        /\ last = NoState \/ Crosses(p) => Told(v, b) \subseteq excused'
        /\ poll' = [poll EXCEPT ![p] = s] /\ remote[v.source] \in Seq(Item)
        /\ v \in Watches /\ m \in Modes
    BY WatchesAre DEF Writes, PollTo, HoldInv, Holding, MissInv
  <1>2. Tagged(s) \subseteq Accounted'
    BY <1>1, PendingMoves DEF Accounted
  <1>3. excused' \subseteq Accounted'
    BY DEF Accounted
  <1> SUFFICES Seen(new) \subseteq Shown(v, Accounted')
    BY <1>1 DEF Known, Seen, Shown
  <1>4. CASE last = NoState \/ Crosses(p)
    BY <1>1, <1>3, <1>4, ToldIsShown
  <1>5. CASE last # NoState /\ ~Crosses(p)
    <2>1. poll[p].origin = v
      BY <1>1, <1>5 DEF Crosses
    <2>2. PICK w \in Seq(Item) : Answer(v, w) /\ last = buildState(m, w)
      BY <1>1, <1>5, <2>1 DEF StateOf
    <2>3. Seen(last) \subseteq Shown(v, Accounted')
      BY <1>1, <1>5, <2>1 DEF Known, Shown
    <2>4. /\ Seen(last) = IF m = "array_length" THEN Items(w) ELSE {IF m = "any" THEN w ELSE FieldOf(w)}
          /\ Seen(new) = IF m = "array_length" THEN Items(b) ELSE {IF m = "any" THEN b ELSE FieldOf(b)}
      BY <1>1, <2>2, SeenIs
    <2>5. CASE statesEqual(last, new)
      <3>1. CASE m = "array_length"
        <4>1. Len(w) = Len(b)
          BY <2>2, <2>5, <3>1 DEF statesEqual, buildState
        <4>2. b = w
          BY <1>1, <2>2, <4>1, SameLength
        <4> QED
          BY <2>2, <2>3, <4>2
      <3>2. CASE m = "any"
        <4>1. w = b
          BY <2>2, <2>5, <3>2 DEF statesEqual, buildState
        <4> QED
          BY <2>2, <2>3, <4>1
      <3>3. CASE m = "specific_field"
        <4>1. FieldOf(w) = FieldOf(b)
          BY <2>2, <2>5, <3>3 DEF statesEqual, buildState
        <4>2. Seen(new) = Seen(last)
          BY <2>4, <3>3, <4>1
        <4> QED
          BY <2>3, <4>2
      <3> QED
        BY <1>1, <3>1, <3>2, <3>3, WatchesAre
    <2>6. CASE ~statesEqual(last, new) /\ m = "array_length"
      <3>1. last.items = w /\ Seen(last) = Items(w) /\ Seen(new) = Items(b)
        BY <1>1, <2>2, <2>4, <2>6, StateIs
      <3>2. ASSUME NEW x \in Items(b) \ Items(w) PROVE x \in Shown(v, Accounted')
        <4>1. <<v, x>> \in Tagged(s)
          BY <1>1, <1>5, <2>6, <3>1 DEF Tagged
        <4>2. PICK t : t = <<v, x>>
          OBVIOUS
        <4>3. t \in Accounted' /\ t[1] = v /\ t[2] = x
          BY <1>2, <4>1, <4>2
        <4> HIDE <4>2
        <4> QED
          BY <2>6, <4>3 DEF Shown
      <3> QED
        BY <2>3, <3>1, <3>2
    <2>7. CASE ~statesEqual(last, new) /\ m # "array_length"
      <3>1. Told(v, b) \subseteq Accounted'
        BY <1>1, <1>2, <1>5, <2>7 DEF Told, Tagged
      <3> QED
        BY <1>1, <3>1, ToldIsShown
    <2> QED
      BY <2>5, <2>6, <2>7
  <1> QED
    BY <1>4, <1>5

LEMMA MissStep ==
  ASSUME HoldInv, MissInv, [Next]_vars
  PROVE  MissInv'
  <1>1. CASE UNCHANGED vars
    <2>1. UNCHANGED <<state, origin, poll, fired, excused>>
      BY <1>1 DEF vars, row, history
    <2> QED
      BY <2>1, SamePending DEF MissInv, Known, Accounted
  <1>2. ASSUME NEW h \in Handler, Edit(h) \/ Boot(h) \/ Handle(h) \/ LoseHandler(h) PROVE MissInv'
    <2>1. UNCHANGED <<state, origin, poll, fired, excused>>
      BY <1>2, HandlersOnly
    <2> QED
      BY <2>1, SamePending DEF MissInv, Known, Accounted
  <1>3. ASSUME NEW p \in Process, Find(p) \/ Evaluate(p) \/ PollFails(p) \/ Stall(p) PROVE MissInv'
    <2>1. PICK s : Quietly(p, s)
      BY <1>3, QuietSteps
    <2>2. poll' = [poll EXCEPT ![p] = s]
      BY <2>1 DEF Quietly, PollTo
    <2>3. Accounted \subseteq Accounted'
      BY <2>1, <2>2, PendingMoves DEF Quietly, Accounted
    <2>4. Known(state', origin')
      BY <2>1 DEF MissInv, Quietly
    <2>5. \A q \in Process : poll'[q].at = "write" => Known(poll'[q].last, poll'[q].origin)
      BY <2>1, <2>2, PendingMoves DEF MissInv, Quietly
    <2> QED
      BY <2>3, <2>4, <2>5, MissStays
  <1>4. ASSUME NEW p \in Process, Fetch(p) PROVE MissInv'
    <2>1. PICK s : /\ PollTo(p, s) /\ s.at = "evaluate" /\ s.watch = poll[p].watch
                   /\ s.payloads = poll[p].payloads
      BY <1>4, FetchSteps
    <2>2. poll' = [poll EXCEPT ![p] = s] /\ Tagged(s) = Payloads(p)
      BY <2>1 DEF PollTo, Tagged, Payloads
    <2>3. state' = state /\ origin' = origin /\ fired' = fired /\ excused' = excused
      BY <1>4 DEF Fetch
    <2>4. Accounted \subseteq Accounted'
      <3>1. Pending \subseteq Pending' \cup Payloads(p) /\ Tagged(s) \subseteq Pending'
        BY <2>2, PendingMoves
      <3> QED
        BY <2>2, <2>3, <3>1 DEF Accounted
    <2>5. \A q \in Process : poll'[q].at = "write" => Known(poll'[q].last, poll'[q].origin)
      BY <2>1, <2>2, PendingMoves DEF MissInv
    <2> QED
      BY <2>3, <2>4, <2>5, MissStays DEF MissInv
  <1>5. ASSUME NEW p \in Process, Write(p) PROVE MissInv'
    <2>1. PICK s : Writes(p, s)
      BY <1>5, WriteSteps
    <2>2. /\ poll' = [poll EXCEPT ![p] = s] /\ fired' = fired
          /\ excused \subseteq excused' /\ poll[p].at = "write" /\ s.at = "emit"
      BY <2>1 DEF Writes, PollTo
    <2>3. Payloads(p) = {}
      BY <2>2, NothingItems DEF HoldInv, Holding, Payloads
    <2>4. Accounted \subseteq Accounted'
      BY <2>2, <2>3, PendingMoves DEF Accounted
    <2>5. Known(state, origin)'
      BY <2>1, <2>4, WrittenIsKnown
    <2>6. ASSUME NEW q \in Process, poll'[q].at = "write" PROVE Known(poll[q].last, poll[q].origin)'
      <3>1. poll'[q] = poll[q] /\ poll[q].at = "write"
        BY <2>2, <2>6, PendingMoves
      <3>2. PICK st, v : st = poll[q].last /\ v = poll[q].origin
        OBVIOUS
      <3>3. Known(st, v)'
        BY <2>4, <3>1, <3>2, StillAccounted DEF MissInv
      <3> QED
        BY <3>1, <3>2, <3>3 DEF Known
    <2> QED
      BY <2>5, <2>6 DEF MissInv
  <1>6. ASSUME NEW p \in Process, Emit(p) PROVE MissInv'
    <2>1. /\ poll' = [poll EXCEPT ![p] = Idle] /\ state' = state /\ origin' = origin
          /\ excused' = excused /\ fired' = fired \cup Payloads(p)
      BY <1>6, EmitSteps DEF PollTo
    <2>2. Accounted \subseteq Accounted'
      BY <2>1, PendingMoves DEF Accounted
    <2>3. \A q \in Process : poll'[q].at = "write" => Known(poll'[q].last, poll'[q].origin)
      BY <2>1, IdleIs, PendingMoves DEF MissInv
    <2> QED
      BY <2>1, <2>2, <2>3, MissStays DEF MissInv
  <1>7. CASE StateExpires
    <2>1. poll' = poll /\ state' = NoState /\ fired' = fired /\ excused' = excused
      BY <1>7 DEF StateExpires
    <2> QED
      BY <2>1, SamePending DEF MissInv, Known, Accounted
  <1>8. ASSUME NEW e \in Sources, Publish(e) PROVE MissInv'
    <2>1. UNCHANGED <<state, origin, poll, fired, excused>>
      BY <1>8 DEF Publish, row, history
    <2> QED
      BY <2>1, SamePending DEF MissInv, Known, Accounted
  <1> QED
    BY <1>1, <1>2, <1>3, <1>4, <1>5, <1>6, <1>7, <1>8 DEF Next, Poll

\* A step after which every poll is as it was, or has nothing more in hand.
LEMMA OnceStays ==
  ASSUME HoldInv, OnceInv, Later, UNCHANGED <<fired, twice, retold, overlapped>>,
         (state' = state /\ origin' = origin) \/ state' = NoState,
         \A p \in Process :
           /\ poll'[p].payloads = <<>> \/ poll'[p] = poll[p]
           /\ Working(poll'[p]) => /\ Working(poll[p])
                                   /\ poll'[p].body = poll[p].body /\ poll'[p].watch = poll[p].watch
           /\ poll'[p].at = "write" => poll'[p] = poll[p]
                                       \/ (poll'[p].last = state /\ poll'[p].origin = origin)
  PROVE  OnceInv'
  <1> SUFFICES ASSUME ~overlapped
               PROVE  Apart' /\ \E w \in [Watches -> Seq(Item)] : LastWritten(w)'
    BY DEF OnceInv
  <1>1. Apart
    BY DEF OnceInv
  <1>2. \A p \in Process : Payloads(p)' \subseteq Payloads(p)
    BY NothingItems DEF Payloads
  <1>3. Apart'
    <2>1. \A p, q \in Process : Working(poll'[p]) /\ Working(poll'[q]) => p = q
      BY <1>1 DEF Apart
    <2>2. \A p \in Process : Payloads(p)' \cap fired' \subseteq retold'
      BY <1>1, <1>2 DEF Apart
    <2>3. \A p, q \in Process : p = q \/ Payloads(p)' \cap Payloads(q)' \subseteq retold'
      BY <1>1, <1>2 DEF Apart
    <2> QED
      BY <2>1, <2>2, <2>3 DEF Apart, Working
  <1>4. PICK w \in [Watches -> Seq(Item)] : LastWritten(w)
    BY DEF OnceInv
  <1>5. LastWritten(w)'
    <2>1. Pending' \subseteq Pending
      BY <1>2 DEF Pending
    <2>2. \A v \in Watches : Answer(v, w[v])' /\ Covers(v, w[v], (fired \cup Pending)')
      BY <1>4, <2>1 DEF LastWritten, Covers, Later
    <2>3. state' # NoState => state' = buildState(origin'.changeMode, w[origin'])
      BY <1>4 DEF LastWritten
    <2>4. ASSUME NEW p \in Process
          PROVE  /\ Working(poll'[p]) => Extends(poll'[p].body, w[poll'[p].watch])
                 /\ poll'[p].at = "write" /\ poll'[p].last # NoState =>
                      poll'[p].last = buildState(poll'[p].origin.changeMode, w[poll'[p].origin])
      BY <1>4 DEF LastWritten
    <2> QED
      BY <2>2, <2>3, <2>4 DEF LastWritten, Working, Covers
  <1> QED
    BY <1>3, <1>4, <1>5

LEMMA OnceFetch ==
  ASSUME HoldInv, OnceInv, NEW p \in Process, Fetch(p)
  PROVE  OnceInv'
  <1>1. PICK s : /\ PollTo(p, s) /\ s.at = "evaluate" /\ poll[p].at = "fetch"
                 /\ s.watch = poll[p].watch /\ s.watch \in Watches
                 /\ s.body = remote[s.watch.source] /\ s.payloads = poll[p].payloads
    BY FetchSteps
  <1>2. /\ \A q \in Process : poll'[q] = IF q = p THEN s ELSE poll[q]
        /\ \A q \in Process : Payloads(q)' = IF q = p THEN Tagged(s) ELSE Payloads(q)
        /\ Tagged(s) = {} /\ Pending' \subseteq Pending
        /\ UNCHANGED <<state, origin, fired, twice, retold, remote>>
        /\ overlapped' = (overlapped \/ \E q \in Process \ {p} : Working(poll[q]))
    <2>1. s.payloads = <<>>
      BY <1>1 DEF HoldInv, Holding
    <2> QED
      BY <1>1, <2>1, PendingMoves, NothingItems DEF Fetch, PollTo, Working
  <1> SUFFICES ASSUME ~overlapped'
               PROVE  (twice \subseteq retold)' /\ Apart' /\ \E w \in [Watches -> Seq(Item)] : LastWritten(w)'
    BY DEF OnceInv
  <1>3. ~overlapped /\ (\A q \in Process \ {p} : ~Working(poll[q])) /\ Apart /\ twice \subseteq retold
    BY <1>2 DEF OnceInv
  <1>4. Apart'
    <2>1. \A q \in Process : Payloads(q)' \subseteq Payloads(q)
      BY <1>2
    <2>2. \A q, r \in Process : Working(poll'[q]) /\ Working(poll'[r]) => q = r
      BY <1>2, <1>3
    <2>3. \A q \in Process : Payloads(q)' \cap fired' \subseteq retold'
      BY <1>2, <1>3, <2>1 DEF Apart
    <2>4. \A q, r \in Process : q = r \/ Payloads(q)' \cap Payloads(r)' \subseteq retold'
      BY <1>2, <1>3, <2>1 DEF Apart
    <2> QED
      BY <2>2, <2>3, <2>4 DEF Apart, Working
  <1>5. PICK w \in [Watches -> Seq(Item)] : LastWritten(w)
    BY <1>3 DEF OnceInv
  <1>6. LastWritten(w)'
    <2>1. \A v \in Watches : Answer(v, w[v])' /\ Covers(v, w[v], (fired \cup Pending)')
      BY <1>2, <1>5, SameLater DEF LastWritten, Covers, Later
    <2>2. state' # NoState => state' = buildState(origin'.changeMode, w[origin'])
      BY <1>2, <1>5 DEF LastWritten
    <2>3. ASSUME NEW q \in Process
          PROVE  /\ Working(poll'[q]) => Extends(poll'[q].body, w[poll'[q].watch])
                 /\ poll'[q].at # "write"
      <3>1. CASE q = p
        <4>1. poll'[q] = s /\ Extends(remote[s.watch.source], w[s.watch])
          BY <1>1, <1>2, <1>5, <3>1 DEF LastWritten, Answer
        <4> QED
          BY <1>1, <4>1
      <3>2. CASE q # p
        BY <1>2, <1>3, <3>2 DEF Working
      <3> QED
        BY <3>1, <3>2
    <2> QED
      BY <2>1, <2>2, <2>3 DEF LastWritten, Working, Covers
  <1> QED
    BY <1>2, <1>3, <1>4, <1>6

\* What p is to emit once it has written was not told before, unless p crosses.
LEMMA OnceNew ==
  ASSUME HoldInv, OnceInv, ~overlapped, NEW p \in Process, NEW s, Writes(p, s),
         NEW w \in [Watches -> Seq(Item)], LastWritten(w)
  PROVE  /\ Tagged(s) \cap (fired \cup Pending) \subseteq retold'
         /\ Covers(s.watch, poll[p].body, fired \cup Pending \cup Tagged(s))
  <1> DEFINE v    == s.watch
             b    == poll[p].body
             last == poll[p].last
             new  == buildState(v.changeMode, b)
             ps   == fired \cup Pending
  <1>1. /\ v \in Watches /\ v = poll[p].watch /\ Answer(v, b) /\ w[v] \in Seq(Item) /\ b \in Seq(Item)
        /\ poll[p].at = "write" /\ Working(poll[p])
        /\ Crosses(p) => Tagged(s) \cap ps \subseteq retold'
        /\ Items(s.payloads) =
             IF last = NoState \/ statesEqual(last, new) THEN {}
             ELSE IF v.changeMode = "array_length" THEN Items(b) \ Items(last.items) ELSE {b}
    BY DEF Writes, PollTo, HoldInv, Holding, Answer, Working
  <1>2. Extends(b, w[v]) /\ Items(w[v]) \subseteq Items(b) /\ Covers(v, w[v], ps)
    BY <1>1, ExtendsItems DEF LastWritten
  <1>3. Covers(v, b, ps)
    BY <1>2 DEF Covers
  <1>4. Covers(v, b, Tagged(s))
    BY <1>1 DEF Covers, Tagged
  <1>5. CASE last # NoState /\ ~Crosses(p) /\ ~statesEqual(last, new)
    <2>1. last = buildState(v.changeMode, w[v]) /\ b # w[v]
      <3>1. poll[p].origin = v
        BY <1>1, <1>5 DEF Crosses
      <3>2. last = buildState(v.changeMode, w[v])
        BY <1>1, <1>5, <3>1 DEF LastWritten
      <3>3. statesEqual(new, new)
        BY <1>1, StateIs, WatchesAre
      <3> QED
        BY <1>5, <3>2, <3>3
    <2>2. Items(b) \ Items(w[v]) # {}
      BY <1>1, <1>2, <2>1, ExtendsNews DEF Answer
    <2>3. ASSUME NEW t \in Tagged(s), t \in ps PROVE FALSE
      <3>1. t[1] = v /\ t[2] \in Items(s.payloads)
        BY <2>3 DEF Tagged
      <3>2. IF v.changeMode = "array_length" THEN t[2] \in Items(w[v]) ELSE Items(t[2]) \subseteq Items(w[v])
        BY <1>2, <2>3, <3>1 DEF Covers
      <3>3. CASE v.changeMode = "array_length"
        <4>1. last.items = w[v]
          BY <2>1, <3>3, StateIs, WatchesAre, <1>1
        <4> QED
          BY <1>1, <1>5, <3>1, <3>2, <3>3, <4>1
      <3>4. CASE v.changeMode # "array_length"
        <4>1. t[2] = b
          BY <1>1, <1>5, <3>1, <3>4
        <4> QED
          BY <2>2, <3>2, <3>4, <4>1
      <3> QED
        BY <3>3, <3>4
    <2> QED
      BY <1>3, <1>4, <2>3 DEF Covers
  <1>6. CASE last = NoState \/ Crosses(p) \/ statesEqual(last, new)
    <2>1. Tagged(s) \cap ps \subseteq retold'
      BY <1>1, <1>6 DEF Tagged
    <2> QED
      BY <1>3, <1>4, <2>1 DEF Covers
  <1> QED
    BY <1>5, <1>6

\* A written response becomes the last of its watch.
LEMMA OnceWrite ==
  ASSUME HoldInv, OnceInv, NEW p \in Process, Write(p)
  PROVE  OnceInv'
  <1>1. PICK s : Writes(p, s)
    BY WriteSteps
  <1>2. PICK b, v : b = poll[p].body /\ v = s.watch
    OBVIOUS
  <1>3. /\ \A q \in Process : poll'[q] = IF q = p THEN s ELSE poll[q]
        /\ \A q \in Process : Payloads(q)' = IF q = p THEN Tagged(s) ELSE Payloads(q)
        /\ Pending' \subseteq Pending \cup Tagged(s)
        /\ Working(poll[p]) /\ ~Working(s)
        /\ state' = buildState(v.changeMode, b) /\ origin' = v /\ retold \subseteq retold'
        /\ UNCHANGED <<fired, twice, overlapped, remote>>
        /\ v \in Watches /\ Answer(v, b)
    BY <1>1, <1>2, PendingMoves DEF Writes, PollTo, HoldInv, Holding, Working
  <1> SUFFICES ASSUME ~overlapped
               PROVE  (twice \subseteq retold)' /\ Apart' /\ \E w \in [Watches -> Seq(Item)] : LastWritten(w)'
    BY <1>3 DEF OnceInv
  <1>4. Apart /\ twice \subseteq retold
    BY DEF OnceInv
  <1>5. PICK w \in [Watches -> Seq(Item)] : LastWritten(w)
    BY DEF OnceInv
  <1>6. /\ Tagged(s) \cap (fired \cup Pending) \subseteq retold'
        /\ Covers(v, b, fired \cup Pending \cup Tagged(s))
    BY <1>1, <1>2, <1>5, OnceNew
  <1>7. \A q \in Process : ~Working(poll'[q])
    BY <1>3, <1>4 DEF Apart
  <1>8. Apart'
    <2>1. \A q \in Process : Payloads(q) \subseteq Pending
      BY DEF Pending
    <2>2. \A q \in Process : Payloads(q)' \cap fired' \subseteq retold'
      BY <1>3, <1>4, <1>6 DEF Apart
    <2>3. \A q, r \in Process : q = r \/ Payloads(q)' \cap Payloads(r)' \subseteq retold'
      <3> SUFFICES ASSUME NEW q \in Process, NEW r \in Process, q # r
                   PROVE  Payloads(q)' \cap Payloads(r)' \subseteq retold'
        OBVIOUS
      <3>1. CASE q = p
        BY <1>3, <1>6, <2>1, <3>1
      <3>2. CASE r = p
        BY <1>3, <1>6, <2>1, <3>2
      <3>3. CASE q # p /\ r # p
        BY <1>3, <1>4, <3>3 DEF Apart
      <3> QED
        BY <3>1, <3>2, <3>3
    <2> QED
      BY <1>7, <2>2, <2>3 DEF Apart, Working
  <1>9. PICK u : u = [w EXCEPT ![v] = b]
    OBVIOUS
  <1>10. u \in [Watches -> Seq(Item)] /\ \A x \in Watches : u[x] = IF x = v THEN b ELSE w[x]
    BY <1>3, <1>9 DEF Answer
  <1>11. LastWritten(u)'
    <2>1. ASSUME NEW x \in Watches PROVE Answer(x, u[x])' /\ Covers(x, u[x], (fired \cup Pending)')
      <3>1. Answer(x, u[x])'
        BY <1>3, <1>5, <1>10, SameLater DEF LastWritten, Later
      <3>2. CASE x = v
        BY <1>3, <1>6, <1>10, <3>1, <3>2 DEF Covers
      <3>3. CASE x # v
        <4>1. \A t \in Tagged(s) : t[1] = v
          BY <1>2 DEF Tagged
        <4>2. Covers(x, w[x], fired \cup Pending)
          BY <1>5 DEF LastWritten
        <4> QED
          BY <1>3, <1>10, <3>1, <3>3, <4>1, <4>2 DEF Covers
      <3> QED
        BY <3>1, <3>2, <3>3
    <2>2. state' = buildState(origin'.changeMode, u[origin'])
      BY <1>3, <1>10
    <2>3. \A q \in Process : ~Working(poll'[q]) /\ poll'[q].at # "write"
      BY <1>7 DEF Working
    <2> QED
      BY <2>1, <2>2, <2>3 DEF LastWritten, Working, Covers
  <1> QED
    BY <1>3, <1>4, <1>8, <1>10, <1>11

LEMMA OnceEmit ==
  ASSUME HoldInv, OnceInv, NEW p \in Process, Emit(p)
  PROVE  OnceInv'
  <1>1. /\ \A q \in Process : poll'[q] = IF q = p THEN Idle ELSE poll[q]
        /\ \A q \in Process : Payloads(q)' = IF q = p THEN {} ELSE Payloads(q)
        /\ Pending' \subseteq Pending
        /\ UNCHANGED <<state, origin, retold, overlapped, remote>>
        /\ fired' = fired \cup Payloads(p)
        /\ twice' = twice \cup (Payloads(p) \cap fired)
    <2>1. Tagged(Idle) = {}
      BY IdleIs
    <2> QED
      BY <2>1, EmitSteps, PendingMoves DEF PollTo
  <1>2. ~Working(Idle) /\ Idle.at # "write"
    BY IdleIs
  <1> SUFFICES ASSUME ~overlapped
               PROVE  (twice \subseteq retold)' /\ Apart' /\ \E w \in [Watches -> Seq(Item)] : LastWritten(w)'
    BY <1>1 DEF OnceInv
  <1>3. Apart /\ twice \subseteq retold
    BY DEF OnceInv
  <1>4. Payloads(p) \cap fired \subseteq retold
    BY <1>3 DEF Apart
  <1>5. Apart'
    <2>1. \A q, r \in Process : Working(poll'[q]) /\ Working(poll'[r]) => q = r
      BY <1>1, <1>2, <1>3 DEF Apart
    <2>2. \A q \in Process : Payloads(q)' \cap fired' \subseteq retold'
      BY <1>1, <1>3 DEF Apart
    <2>3. \A q, r \in Process : q = r \/ Payloads(q)' \cap Payloads(r)' \subseteq retold'
      BY <1>1, <1>3 DEF Apart
    <2> QED
      BY <2>1, <2>2, <2>3 DEF Apart, Working
  <1>6. PICK w \in [Watches -> Seq(Item)] : LastWritten(w)
    BY DEF OnceInv
  <1>7. LastWritten(w)'
    <2>1. (fired \cup Pending)' \subseteq fired \cup Pending
      <3>1. Payloads(p) \subseteq Pending
        BY DEF Pending
      <3> QED
        BY <1>1, <3>1
    <2>2. \A v \in Watches : Answer(v, w[v])' /\ Covers(v, w[v], (fired \cup Pending)')
      BY <1>1, <1>6, <2>1, SameLater DEF LastWritten, Covers, Later
    <2>3. state' # NoState => state' = buildState(origin'.changeMode, w[origin'])
      BY <1>1, <1>6 DEF LastWritten
    <2>4. ASSUME NEW q \in Process
          PROVE  /\ Working(poll'[q]) => Extends(poll'[q].body, w[poll'[q].watch])
                 /\ poll'[q].at = "write" /\ poll'[q].last # NoState =>
                      poll'[q].last = buildState(poll'[q].origin.changeMode, w[poll'[q].origin])
      BY <1>1, <1>2, <1>6 DEF LastWritten
    <2> QED
      BY <2>2, <2>3, <2>4 DEF LastWritten, Working, Covers
  <1> QED
    BY <1>1, <1>3, <1>4, <1>5, <1>6, <1>7

LEMMA OnceStep ==
  ASSUME HoldInv, OnceInv, [Next]_vars
  PROVE  OnceInv'
  <1>1. ASSUME poll' = poll, Later, UNCHANGED <<fired, twice, retold, overlapped>>,
               (state' = state /\ origin' = origin) \/ state' = NoState
        PROVE  OnceInv'
    BY <1>1, OnceStays
  <1>2. CASE UNCHANGED vars
    BY <1>1, <1>2, SameLater DEF vars, row, history
  <1>3. ASSUME NEW h \in Handler, Edit(h) \/ Boot(h) \/ Handle(h) \/ LoseHandler(h) PROVE OnceInv'
    BY <1>1, <1>3, HandlersOnly, SameLater
  <1>4. ASSUME NEW p \in Process, Find(p) \/ Evaluate(p) \/ PollFails(p) \/ Stall(p) PROVE OnceInv'
    <2>1. PICK s : Quietly(p, s)
      BY <1>4, QuietSteps
    <2>2. \A q \in Process : poll'[q] = IF q = p THEN s ELSE poll[q]
      BY <2>1 DEF Quietly, PollTo, HoldInv
    <2>3. \A q \in Process :
            /\ poll'[q].payloads = <<>> \/ poll'[q] = poll[q]
            /\ Working(poll'[q]) => /\ Working(poll[q])
                                    /\ poll'[q].body = poll[q].body /\ poll'[q].watch = poll[q].watch
            /\ poll'[q].at = "write" => poll'[q] = poll[q]
                                        \/ (poll'[q].last = state /\ poll'[q].origin = origin)
      BY <2>1, <2>2 DEF Quietly
    <2>4. remote' = remote /\ UNCHANGED <<state, origin, fired, twice, retold, overlapped>>
      BY <2>1 DEF Quietly, PollTo
    <2> QED
      BY <2>3, <2>4, SameLater, OnceStays
  <1>5. CASE StateExpires
    BY <1>1, <1>5, SameLater DEF StateExpires
  <1>6. ASSUME NEW e \in Sources, Publish(e) PROVE OnceInv'
    BY <1>1, <1>6, PublishLater DEF Publish, history
  <1> QED
    BY <1>2, <1>3, <1>4, <1>5, <1>6, OnceFetch, OnceWrite, OnceEmit DEF Next, Poll

\* What the polls hold, what is accounted for and what has fired, after any step
\* (polling.worker.ts process).
THEOREM PollsInvariant == Spec => [](HoldInv /\ MissInv /\ OnceInv)
  <1>1. Init => HoldInv /\ MissInv /\ OnceInv
    <2> SUFFICES ASSUME Init PROVE HoldInv /\ MissInv /\ OnceInv
      OBVIOUS
    <2>1. /\ config \in Config /\ remote = [e \in Sources |-> <<>>] /\ state = NoState /\ origin = NoWatch
          /\ fired = {} /\ twice = {} /\ DOMAIN poll = Process
          /\ \A p \in Process : poll[p] \in {Idle, [Idle EXCEPT !.at = "down"]}
      BY DEF Init
    <2>2. ASSUME NEW p \in Process
          PROVE  Holding(poll[p]) /\ Payloads(p) = {} /\ ~Working(poll[p]) /\ poll[p].at # "write"
      <3>1. PICK a \in {"idle", "down"} :
              poll[p] = [at |-> a, watch |-> NoWatch, body |-> <<>>, last |-> NoState,
                         origin |-> NoWatch, payloads |-> <<>>]
        BY <2>1 DEF Idle
      <3>2. a \in Stages \ {"evaluate", "write"} /\ <<>> \in Seq(Payload) /\ NoWatch \in Marks
        BY DEF Stages, Marks
      <3>3. Holding(poll[p])
        BY <3>1, <3>2, HoldingNew
      <3>4. poll[p].payloads = <<>> /\ poll[p].at = a /\ a \in {"idle", "down"}
        BY <3>1
      <3>5. Payloads(p) = {}
        BY <3>4, NothingItems DEF Payloads
      <3> QED
        BY <3>3, <3>4, <3>5 DEF Working
    <2>3. /\ remote \in [Sources -> Seq(Item)] /\ \A e \in Sources : remote[e] = <<>> /\ Distinct(remote[e])
          /\ \A v \in Watches : Answer(v, <<>>)
      BY <2>1, NothingItems, WatchesAre DEF Answer, Extends
    <2>4. HoldInv
      BY <2>1, <2>2, <2>3 DEF HoldInv, StateOf, Marks
    <2>5. MissInv
      BY <2>1, <2>2 DEF MissInv, Known
    <2>6. Pending = {}
      BY <2>2 DEF Pending
    <2>7. PICK w : w = [v \in Watches |-> <<>>]
      OBVIOUS
    <2>8. w \in [Watches -> Seq(Item)] /\ LastWritten(w)
      BY <2>1, <2>2, <2>3, <2>6, <2>7 DEF LastWritten, Covers
    <2>9. Apart
      BY <2>1, <2>2 DEF Apart
    <2>10. OnceInv
      BY <2>1, <2>8, <2>9 DEF OnceInv
    <2> QED
      BY <2>4, <2>5, <2>10
  <1>2. HoldInv /\ MissInv /\ OnceInv /\ [Next]_vars => (HoldInv /\ MissInv /\ OnceInv)'
    BY HoldStep, MissStep, OnceStep
  <1> QED
    BY <1>1, <1>2, PTL DEF Spec

----------------------------------------------------------------------------
(* What follows *)

\* Nothing the stored state has seen went without its run, but what a baseline or a
\* poll that compared it with another watch's state read, and what a process took
\* with it.
THEOREM NoChangeIsMissed == Spec => []NothingMissed
  <1>1. MissInv => NothingMissed
    BY DEF MissInv, Known, Accounted, NothingMissed
  <1> QED
    BY <1>1, PollsInvariant, PTL

\* Two runs for one change take two polls that worked on the state at once, or one
\* that compared it with a state an edit of the watch left behind.
THEOREM OnlyOverlapOrEditFiresTwice == Spec => []FiresOnceUnlessRetold
  <1>1. OnceInv => FiresOnceUnlessRetold
    BY DEF OnceInv, FiresOnceUnlessRetold
  <1> QED
    BY <1>1, PollsInvariant, PTL
=============================================================================
