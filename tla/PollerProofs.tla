---------------------------- MODULE PollerProofs ----------------------------
(***************************************************************************)
(* Theorems of Poller: a change fires once and nothing old fires, for every *)
(* number of edits and faults, as long as no edit changes the changeMode.   *)
(***************************************************************************)
EXTENDS Poller, FiniteSetTheorems, SequenceTheorems, WellFoundedInduction, TLAPS

----------------------------------------------------------------------------
(* The new items of a response *)

Ascending(n) == \A S \in SUBSET (1..n) : \E f \in [1..Cardinality(S) -> S] : Increasing(f)

\* Any set of positions can be listed in ascending order.
LEMMA AscendingStep ==
  ASSUME NEW n \in Nat, n > 0 => Ascending(n - 1)
  PROVE  Ascending(n)
  <1> SUFFICES ASSUME NEW S \in SUBSET (1..n)
               PROVE  \E f \in [1..Cardinality(S) -> S] : Increasing(f)
    BY DEF Ascending
  <1> DEFINE T == S \ {n}
  <1>1. IsFiniteSet(S) /\ IsFiniteSet(T) /\ Cardinality(T) \in Nat
    <2>1. IsFiniteSet(1..n)
      BY FS_Interval
    <2>2. IsFiniteSet(S)
      BY <2>1, FS_Subset
    <2> QED
      BY <2>2, FS_Subset, FS_CardinalityType
  <1>2. CASE n = 0
    <2>1. S = {}
      BY <1>2
    <2>2. Cardinality(S) = 0
      BY <2>1, FS_EmptySet
    <2>3. [i \in 1..0 |-> 0] \in [1..Cardinality(S) -> S] /\ Increasing([i \in 1..0 |-> 0])
      BY <2>2 DEF Increasing
    <2> QED
      BY <2>3
  <1>3. CASE n > 0
    <2>1. T \in SUBSET (1..(n - 1))
      BY <1>3
    <2>2. PICK f \in [1..Cardinality(T) -> T] : Increasing(f)
      BY <1>3, <2>1 DEF Ascending
    <2>3. CASE n \notin S
      <3>1. T = S
        BY <2>3
      <3> QED
        BY <2>2, <3>1
    <2>4. CASE n \in S
      <3>1. T \cup {n} = S /\ n \notin T
        BY <2>4
      <3>2. Cardinality(S) = Cardinality(T) + 1
        <4>1. Cardinality(T \cup {n}) = Cardinality(T) + 1
          BY <1>1, <3>1, FS_AddElement
        <4> QED
          BY <3>1, <4>1
      <3> DEFINE c == Cardinality(T)
                 g == [i \in 1..(c + 1) |-> IF i = c + 1 THEN n ELSE f[i]]
      <3>3. c \in Nat /\ f \in [1..c -> T] /\ Increasing(f) /\ Cardinality(S) = c + 1
        BY <1>1, <2>2, <3>2
      <3> HIDE DEF c, T
      <3>4. g \in [1..(c + 1) -> S]
        <4> SUFFICES ASSUME NEW i \in 1..(c + 1), i # c + 1 PROVE f[i] \in S
          BY <2>4
        <4>1. i \in 1..c
          BY <3>3
        <4> QED
          BY <3>1, <3>3, <4>1
      <3>5. ASSUME NEW i \in 1..(c + 1), NEW j \in 1..(c + 1), i < j PROVE g[i] < g[j]
        <4>1. i \in 1..c
          BY <3>3, <3>5
        <4>4. g[i] = f[i] /\ f[i] \in 1..(n - 1)
          <5>1. f[i] \in T
            BY <3>3, <4>1
          <5>2. i # c + 1
            BY <3>3, <4>1
          <5> QED
            BY <2>1, <5>1, <5>2
        <4>2. CASE j = c + 1
          BY <4>2, <4>4
        <4>3. CASE j # c + 1
          <5>1. j \in 1..c /\ g[j] = f[j]
            BY <3>3, <4>3
          <5>2. f[i] < f[j]
            BY <3>3, <3>5, <4>1, <5>1 DEF Increasing
          <5> QED
            BY <4>4, <5>1, <5>2
        <4> QED
          BY <4>2, <4>3
      <3>6. Increasing(g)
        BY <3>5 DEF Increasing
      <3> QED
        BY <3>3, <3>4, <3>6
    <2> QED
      BY <2>3, <2>4
  <1> QED
    BY <1>2, <1>3

LEMMA AscendingExists == \A n \in Nat : Ascending(n)
  <1> SUFFICES ASSUME NEW m \in Nat, ~Ascending(m) PROVE FALSE
    OBVIOUS
  <1> DEFINE Bad  == {n \in Nat : ~Ascending(n)}
             less == OpToRel(<, Nat)
  <1>1. PICK n \in Bad : \A k \in Bad : <<k, n>> \notin less
    <2>1. IsWellFoundedOn(less, Nat)
      BY NatLessThanWellFounded
    <2> HIDE DEF less
    <2> QED
      BY <2>1, WFMin
  <1>2. n > 0 => Ascending(n - 1)
    <2> SUFFICES ASSUME n > 0, ~Ascending(n - 1) PROVE FALSE
      OBVIOUS
    <2>1. n - 1 \in Bad /\ n - 1 < n /\ n \in Nat /\ n - 1 \in Nat
      OBVIOUS
    <2>2. <<n - 1, n>> \in less
      BY <2>1 DEF OpToRel
    <2> QED
      BY <1>1, <2>1, <2>2
  <1> QED
    BY <1>2, AscendingStep

Distinct(s) == \A i, j \in 1..Len(s) : s[i] = s[j] => i = j

\* getNewItems keeps what was not there before, all of it, and each item once.
LEMMA NewItems ==
  ASSUME NEW S, NEW current \in Seq(S), NEW previous
  PROVE  /\ Items(getNewItems(previous, current)) = Items(current) \ Items(previous)
         /\ Distinct(current) => Distinct(getNewItems(previous, current))
         /\ getNewItems(previous, current) \in Seq(S)
  <1> DEFINE new   == {k \in 1..Len(current) : current[k] \notin Items(previous)}
             c     == Cardinality(new)
             right == {f \in [1..c -> new] : Increasing(f)}
             kept  == CHOOSE f \in [1..c -> new] : Increasing(f)
             g     == [n \in 1..c |-> current[kept[n]]]
  <1>1. IsFiniteSet(new) /\ c \in Nat
    <2>1. IsFiniteSet(1..Len(current))
      BY FS_Interval
    <2>2. IsFiniteSet(new)
      BY <2>1, FS_Subset
    <2> QED
      BY <2>2, FS_CardinalityType
  <1>2. getNewItems(previous, current) = g
    BY DEF getNewItems
  <1>3. kept \in [1..c -> new] /\ Increasing(kept)
    <2>1. Ascending(Len(current)) /\ new \in SUBSET (1..Len(current))
      BY AscendingExists
    <2>2. \E f \in [1..c -> new] : Increasing(f)
      BY <2>1 DEF Ascending
    <2> HIDE DEF new, c
    <2> QED
      BY <2>2
  <1> HIDE DEF c, kept
  <1>4. kept \in Injection(1..c, new)
    <2>1. \A i, j \in 1..c : kept[i] \in Nat /\ kept[j] \in Nat /\ (i < j => kept[i] < kept[j])
      BY <1>3 DEF Increasing
    <2>2. \A i, j \in 1..c : kept[i] = kept[j] => i = j
      BY <1>1, <2>1
    <2> HIDE DEF new
    <2> QED
      BY <1>3, <2>2 DEF Injection, IsInjective
  <1>5. kept \in Surjection(1..c, new)
    <2>1. Cardinality(1..c) = c
      BY <1>1, FS_Interval
    <2>2. Cardinality(1..c) = Cardinality(new)
      BY <2>1 DEF c
    <2> HIDE DEF new
    <2> QED
      BY <1>1, <1>4, <2>2, FS_Injection
  <1>6. \A k \in new : \E n \in 1..c : kept[n] = k
    <2> HIDE DEF new
    <2> QED
      BY <1>5 DEF Surjection
  <1>7. g \in Seq(S) /\ Len(g) = c /\ \A n \in 1..c : g[n] = current[kept[n]]
    BY <1>1, <1>3
  <1> HIDE DEF g
  <1>8. Items(g) = Items(current) \ Items(previous)
    <2>1. ASSUME NEW x \in Items(g) PROVE x \in Items(current) \ Items(previous)
      <3>1. PICK n \in 1..c : x = current[kept[n]]
        BY <1>7 DEF Items
      <3>2. kept[n] \in new
        BY <1>3
      <3> QED
        BY <3>1, <3>2 DEF Items
    <2>2. ASSUME NEW x \in Items(current) \ Items(previous) PROVE x \in Items(g)
      <3>1. PICK k \in 1..Len(current) : x = current[k]
        BY DEF Items
      <3>2. k \in new
        BY <3>1
      <3>3. PICK n \in 1..c : kept[n] = k
        BY <1>6, <3>2
      <3> QED
        BY <1>7, <3>1, <3>3 DEF Items
    <2> QED
      BY <2>1, <2>2
  <1>9. Distinct(current) => Distinct(g)
    <2> SUFFICES ASSUME Distinct(current), NEW i \in 1..c, NEW j \in 1..c,
                        current[kept[i]] = current[kept[j]]
                 PROVE  i = j
      BY <1>7 DEF Distinct
    <2>1. kept[i] \in 1..Len(current) /\ kept[j] \in 1..Len(current)
      BY <1>3
    <2>2. kept[i] = kept[j]
      BY <2>1 DEF Distinct
    <2> HIDE DEF new
    <2> QED
      BY <1>4, <2>2 DEF Injection, IsInjective
  <1> QED
    BY <1>2, <1>7, <1>8, <1>9

----------------------------------------------------------------------------
(* What has been polled *)

\* b is what the endpoint answers when it has answered w before.
Extends(b, w) == Len(w) <= Len(b) /\ \A k \in 1..Len(w) : w[k] = b[k + (Len(b) - Len(w))]

\* A response the endpoint can have given.
Answer(b) == b \in Seq(Item) /\ Distinct(b) /\ Extends(remote, b)

\* What alarm() holds: the changeMode it read, the response it evaluates, which
\* is at least as new as anything polled before.
TickHolds ==
  /\ tick \in {"fetch", "evaluate", "admit"} => mode = config.changeMode
  /\ tick = "evaluate" => Answer(body) /\ polled \subseteq Items(body)

\* The stored state is the last response that was polled.
StateIsLast ==
  state = NoState \/ \E w \in Seq(Item) :
    /\ Answer(w) /\ Items(w) = polled
    /\ state = buildState(config.changeMode, w)
    /\ tick = "evaluate" => Extends(body, w)

\* A payload stands for what has been polled, and was not admitted yet.
Covers(ps) ==
  IF config.changeMode = "array_length"
    THEN ps \subseteq polled
    ELSE \A b \in ps : Items(b) \subseteq polled

FiredOnce ==
  /\ payloads \in Seq(Items(payloads)) /\ Distinct(payloads)
  /\ Items(payloads) \cap fired = {}
  /\ Covers(Items(payloads)) /\ Covers(fired)
  /\ ~twice

PollInv ==
  /\ config \in Config
  /\ remote \in Seq(Item) /\ Distinct(remote)
  /\ polled \subseteq Items(remote)
  /\ TickHolds /\ StateIsLast /\ FiredOnce

LEMMA PollTypes == Modes = {"any", "specific_field", "array_length"} /\ \A c \in Config : c.changeMode \in Modes
  BY PollerAssumption DEF Modes

LEMMA ExtendsSame == ASSUME NEW b \in Seq(Item) PROVE Extends(b, b)
  BY DEF Extends

LEMMA ExtendsFurther ==
  ASSUME NEW b \in Seq(Item), NEW w \in Seq(Item), NEW v \in Seq(Item), Extends(b, w), Extends(w, v)
  PROVE  Extends(b, v)
  <1>1. ASSUME NEW k \in 1..Len(v) PROVE v[k] = b[k + (Len(b) - Len(v))]
    <2> DEFINE j == k + (Len(w) - Len(v))
    <2>1. j \in 1..Len(w) /\ v[k] = w[j]
      BY DEF Extends
    <2>2. w[j] = b[j + (Len(b) - Len(w))] /\ j + (Len(b) - Len(w)) = k + (Len(b) - Len(v))
      BY <2>1 DEF Extends
    <2> QED
      BY <2>1, <2>2
  <1> QED
    BY <1>1 DEF Extends

LEMMA ExtendsItems ==
  ASSUME NEW b \in Seq(Item), NEW w \in Seq(Item), Extends(b, w)
  PROVE  Items(w) \subseteq Items(b)
  <1> SUFFICES ASSUME NEW k \in 1..Len(w) PROVE w[k] \in Items(b)
    BY DEF Items
  <1>1. k + (Len(b) - Len(w)) \in 1..Len(b)
    BY DEF Extends
  <1> QED
    BY <1>1 DEF Extends, Items

\* A later answer that is not the same has something new.
LEMMA ExtendsNews ==
  ASSUME NEW b \in Seq(Item), NEW w \in Seq(Item), Distinct(b), Extends(b, w), b # w
  PROVE  Items(b) \ Items(w) # {}
  <1>1. Len(w) # Len(b)
    BY SeqEqual DEF Extends
  <1>2. 1 \in 1..Len(b) /\ b[1] \in Items(b)
    BY <1>1 DEF Extends, Items
  <1>3. ASSUME NEW k \in 1..Len(w), b[1] = w[k] PROVE FALSE
    <2>1. k + (Len(b) - Len(w)) \in 1..Len(b) /\ k + (Len(b) - Len(w)) # 1
      BY <1>1 DEF Extends
    <2>2. b[1] = b[k + (Len(b) - Len(w))]
      BY <1>3 DEF Extends
    <2> QED
      BY <1>2, <2>1, <2>2 DEF Distinct
  <1>4. b[1] \notin Items(w)
    BY <1>3 DEF Items
  <1> QED
    BY <1>2, <1>4

LEMMA NothingItems == Items(<<>>) = {} /\ Distinct(<<>>) /\ <<>> \in Seq(Items(<<>>))
  BY DEF Items, Distinct

\* What a poll's outcome is.
LEMMA Outcome ==
  ASSUME NEW m \in Modes, NEW b, NEW last
  PROVE  LET o == evaluatePoll(m, b, last) IN
         /\ o.state = buildState(m, b)
         /\ o.kind = "changed" <=> last # NoState /\ ~statesEqual(last, buildState(m, b))
         /\ o.kind # "changed" => o.payloads = <<>>
         /\ o.kind = "changed" => o.payloads = IF m = "array_length" THEN getNewItems(last.items, b)
                                                                     ELSE <<b>>
  <1> DEFINE o == evaluatePoll(m, b, last)
             new == buildState(m, b)
  <1>1. CASE last = NoState
    <2>1. o = [kind |-> "baseline", state |-> new, payloads |-> <<>>]
      BY <1>1 DEF evaluatePoll
    <2> QED
      BY <1>1, <2>1
  <1>2. CASE last # NoState /\ statesEqual(last, new)
    <2>1. o = [kind |-> "unchanged", state |-> new, payloads |-> <<>>]
      BY <1>2 DEF evaluatePoll
    <2> QED
      BY <1>2, <2>1
  <1>3. CASE last # NoState /\ ~statesEqual(last, new)
    <2>1. o = [kind |-> "changed", state |-> new,
               payloads |-> IF m = "array_length" THEN getNewItems(last.items, b) ELSE <<b>>]
      BY <1>3 DEF evaluatePoll
    <2> QED
      BY <1>3, <2>1
  <1> QED
    BY <1>1, <1>2, <1>3

LEMMA StateIs ==
  ASSUME NEW m \in Modes, NEW b
  PROVE  /\ buildState(m, b) # NoState
         /\ statesEqual(buildState(m, b), buildState(m, b))
         /\ m = "array_length" => buildState(m, b).items = b
  BY DEF buildState, NoState, statesEqual, Modes

----------------------------------------------------------------------------
(* The invariant is inductive *)

\* A step that polls, admits and publishes nothing.
LEMMA Uneventful ==
  ASSUME PollInv, config' \in Config, config'.changeMode = config.changeMode,
         remote' = remote, polled' = polled, fired' = fired, twice' = twice,
         payloads' \in {payloads, <<>>}, state' \in {state, NoState},
         tick' = "evaluate" => tick = "evaluate" /\ body' = body,
         tick' \in {"fetch", "evaluate", "admit"} => mode' = config.changeMode
  PROVE  PollInv'
  <1>1. remote' \in Seq(Item) /\ Distinct(remote)' /\ (polled \subseteq Items(remote))'
    BY DEF PollInv
  <1>2. TickHolds'
    BY DEF PollInv, TickHolds, Answer
  <1>3. StateIsLast'
    <2>1. CASE state' = NoState
      BY <2>1 DEF StateIsLast
    <2>2. CASE state' # NoState
      <3>1. PICK w \in Seq(Item) :
              /\ Answer(w) /\ Items(w) = polled
              /\ state = buildState(config.changeMode, w)
              /\ tick = "evaluate" => Extends(body, w)
        BY <2>2 DEF PollInv, StateIsLast
      <3>2. Answer(w)' /\ Items(w) = polled'
        BY <3>1 DEF Answer
      <3>3. state' = buildState(config'.changeMode, w)
        BY <2>2, <3>1
      <3>4. tick' = "evaluate" => Extends(body', w)
        BY <3>1
      <3> QED
        BY <3>2, <3>3, <3>4 DEF StateIsLast
    <2> QED
      BY <2>1, <2>2
  <1>4. FiredOnce'
    <2>1. CASE payloads' = payloads
      BY <2>1 DEF PollInv, FiredOnce, Covers
    <2>2. CASE payloads' = <<>>
      BY <2>2, NothingItems DEF PollInv, FiredOnce, Covers
    <2> QED
      BY <2>1, <2>2
  <1> QED
    BY <1>1, <1>2, <1>3, <1>4 DEF PollInv

LEMMA StepPublish ==
  ASSUME PollInv, Publish
  PROVE  PollInv'
  <1>1. PICK x \in Item \ Items(remote) : remote' = <<x>> \o remote
    BY DEF Publish
  <1> DEFINE next == <<x>> \o remote
  <1>2. /\ remote \in Seq(Item) /\ next \in Seq(Item) /\ Len(next) = Len(remote) + 1 /\ next[1] = x
        /\ \A k \in 1..Len(remote) : next[k + 1] = remote[k]
        /\ Len(remote) \in Nat
    BY DEF PollInv
  <1> HIDE DEF next
  <1>3. Extends(next, remote)
    BY <1>2 DEF Extends
  <1>4. Items(remote) \subseteq Items(next)
    BY <1>2, <1>3, ExtendsItems
  <1>5. Distinct(next)
    <2> SUFFICES ASSUME NEW i \in 1..Len(next), NEW j \in 1..Len(next), next[i] = next[j], i < j
                 PROVE  FALSE
      BY <1>2 DEF Distinct
    <2>1. j - 1 \in 1..Len(remote) /\ next[j] = remote[j - 1]
      <3>1. j - 1 \in 1..Len(remote)
        BY <1>2
      <3> QED
        BY <1>2, <3>1
    <2>2. CASE i = 1
      BY <1>2, <2>1, <2>2 DEF Items
    <2>3. CASE i # 1
      <3>1. i - 1 \in 1..Len(remote) /\ next[i] = remote[i - 1] /\ i - 1 # j - 1
        <4>1. i - 1 \in 1..Len(remote)
          BY <1>2, <2>3
        <4> QED
          BY <1>2, <4>1
      <3> QED
        BY <2>1, <3>1 DEF PollInv, Distinct
    <2> QED
      BY <2>2, <2>3
  <1>6. ASSUME NEW b, Answer(b) PROVE Answer(b)'
    <2>1. Extends(next, b)
      BY <1>2, <1>3, <1>6, ExtendsFurther DEF Answer
    <2> QED
      BY <1>1, <1>6, <2>1 DEF Answer, next
  <1>7. /\ config' = config /\ polled' = polled /\ fired' = fired /\ twice' = twice
        /\ payloads' = payloads /\ state' = state /\ tick' = tick /\ body' = body /\ mode' = mode
    BY DEF Publish, d1, storage, running, history
  <1>8. remote' \in Seq(Item) /\ Distinct(remote)' /\ (polled \subseteq Items(remote))'
    BY <1>1, <1>2, <1>4, <1>5, <1>7 DEF PollInv, next
  <1>9. TickHolds'
    BY <1>6, <1>7 DEF PollInv, TickHolds
  <1>10. StateIsLast'
    <2>1. CASE state = NoState
      BY <1>7, <2>1 DEF StateIsLast
    <2>2. CASE state # NoState
      <3>1. PICK w \in Seq(Item) :
              /\ Answer(w) /\ Items(w) = polled
              /\ state = buildState(config.changeMode, w)
              /\ tick = "evaluate" => Extends(body, w)
        BY <2>2 DEF PollInv, StateIsLast
      <3>2. Answer(w)'
        BY <1>6, <3>1
      <3> QED
        BY <1>7, <3>1, <3>2 DEF StateIsLast
    <2> QED
      BY <2>1, <2>2
  <1>11. FiredOnce'
    BY <1>7 DEF PollInv, FiredOnce, Covers
  <1> QED
    BY <1>7, <1>8, <1>9, <1>10, <1>11 DEF PollInv

LEMMA StepFetch ==
  ASSUME PollInv, Fetch
  PROVE  PollInv'
  <1>1. /\ config' = config /\ remote' = remote /\ polled' = polled /\ fired' = fired
        /\ twice' = twice /\ payloads' = payloads /\ state' = state /\ mode' = mode
        /\ tick = "fetch" /\ tick' = "evaluate" /\ body' = remote
    BY DEF Fetch, TickGoto, d1, storage, history
  <1>2. Answer(body)'
    BY <1>1, ExtendsSame DEF PollInv, Answer
  <1>3. TickHolds'
    BY <1>1, <1>2 DEF PollInv, TickHolds
  <1>4. StateIsLast'
    <2>1. CASE state = NoState
      BY <1>1, <2>1 DEF StateIsLast
    <2>2. CASE state # NoState
      <3>1. PICK w \in Seq(Item) :
              /\ Answer(w) /\ Items(w) = polled
              /\ state = buildState(config.changeMode, w)
        BY <2>2 DEF PollInv, StateIsLast
      <3>2. Answer(w)' /\ Extends(body', w)
        BY <1>1, <3>1 DEF Answer
      <3> QED
        BY <1>1, <3>1, <3>2 DEF StateIsLast
    <2> QED
      BY <2>1, <2>2
  <1>5. FiredOnce'
    BY <1>1 DEF PollInv, FiredOnce, Covers
  <1> QED
    BY <1>1, <1>3, <1>4, <1>5 DEF PollInv

\* What a poll is about to start runs for is new.
LEMMA Changed ==
  ASSUME PollInv, Evaluate
  PROVE  /\ mode = config.changeMode /\ polled \subseteq Items(body)
         /\ tick' = "admit" =>
              /\ mode = "array_length" => /\ Items(payloads') = Items(body) \ polled
                                          /\ payloads' \in Seq(Items(payloads'))
                                          /\ Distinct(payloads')
              /\ mode # "array_length" => payloads' = <<body>> /\ Items(body) \ polled # {}
         /\ tick' # "admit" => payloads' = <<>>
         /\ state' = buildState(mode, body)
  <1> DEFINE o == evaluatePoll(mode, body, state)
  <1>1. /\ tick = "evaluate" /\ tick' = IF o.kind = "changed" THEN "admit" ELSE "rearm"
        /\ state' = o.state /\ payloads' = o.payloads
    BY DEF Evaluate, TickGoto
  <1>2. mode = config.changeMode /\ mode \in Modes /\ Answer(body) /\ polled \subseteq Items(body)
    BY <1>1, PollTypes DEF PollInv, TickHolds
  <1>3. /\ o.state = buildState(mode, body)
        /\ o.kind = "changed" <=> state # NoState /\ ~statesEqual(state, buildState(mode, body))
        /\ o.kind # "changed" => o.payloads = <<>>
        /\ o.kind = "changed" => o.payloads = IF mode = "array_length"
                                                THEN getNewItems(state.items, body) ELSE <<body>>
    BY <1>2, Outcome
  <1> HIDE DEF o
  <1>4. ASSUME tick' = "admit"
        PROVE  /\ mode = "array_length" => /\ Items(payloads') = Items(body) \ polled
                                           /\ payloads' \in Seq(Items(payloads'))
                                           /\ Distinct(payloads')
               /\ mode # "array_length" => payloads' = <<body>> /\ Items(body) \ polled # {}
    <2>1. o.kind = "changed" /\ state # NoState /\ ~statesEqual(state, buildState(mode, body))
      BY <1>1, <1>3, <1>4
    <2>2. PICK w \in Seq(Item) :
            Items(w) = polled /\ state = buildState(config.changeMode, w) /\ Extends(body, w)
      BY <1>1, <2>1 DEF PollInv, StateIsLast
    <2>3. body # w
      BY <1>2, <2>1, <2>2, StateIs
    <2>4. Items(body) \ Items(w) # {}
      BY <1>2, <2>2, <2>3, ExtendsNews DEF Answer
    <2>5. CASE mode = "array_length"
      <3>1. payloads' = getNewItems(w, body)
        BY <1>1, <1>2, <1>3, <2>1, <2>2, <2>5, StateIs
      <3>2. body \in Seq(Item) /\ Distinct(body)
        BY <1>2 DEF Answer
      <3>3. Items(payloads') = Items(body) \ Items(w) /\ Distinct(payloads') /\ payloads' \in Seq(Item)
        BY <3>1, <3>2, NewItems
      <3>4. payloads' \in Seq(Items(payloads'))
        BY <3>3 DEF Items
      <3> QED
        BY <2>2, <2>5, <3>3, <3>4
    <2>6. CASE mode # "array_length"
      BY <1>1, <1>3, <2>1, <2>2, <2>4, <2>6
    <2> QED
      BY <2>5, <2>6
  <1> QED
    BY <1>1, <1>2, <1>3, <1>4

LEMMA StepEvaluate ==
  ASSUME PollInv, Evaluate
  PROVE  PollInv'
  <1>1. /\ config' = config /\ remote' = remote /\ fired' = fired /\ twice' = twice
        /\ mode' = mode /\ body' = body /\ polled' = Items(body)
        /\ tick = "evaluate" /\ tick' \in {"admit", "rearm"}
    BY Changed DEF Evaluate, TickGoto, d1
  <1>2. Answer(body) /\ Answer(body)' /\ polled \subseteq Items(body) /\ mode = config.changeMode
    BY <1>1, Changed DEF PollInv, TickHolds, Answer
  <1>3. (polled \subseteq Items(remote))'
    BY <1>1, <1>2, ExtendsItems DEF PollInv, Answer
  <1>4. TickHolds'
    BY <1>1, <1>2 DEF TickHolds
  <1>5. StateIsLast'
    <2>1. PICK b \in Seq(Item) : b = body
      BY <1>2 DEF Answer
    <2>2. state' = buildState(config'.changeMode, b)
      BY <1>1, <1>2, <2>1, Changed
    <2>3. Answer(b)' /\ Items(b) = polled' /\ tick' # "evaluate"
      BY <1>1, <1>2, <2>1 DEF Answer
    <2> QED
      BY <2>2, <2>3 DEF StateIsLast
  <1>6. FiredOnce'
    <2>1. ~twice' /\ Covers(fired)' /\ Covers(fired)
      BY <1>1, <1>2 DEF PollInv, FiredOnce, Covers
    <2>2. CASE payloads' = <<>>
      BY <2>1, <2>2, NothingItems DEF FiredOnce, Covers
    <2>3. CASE tick' = "admit" /\ mode = "array_length"
      <3>1. /\ Items(payloads') = Items(body) \ polled /\ Distinct(payloads')
            /\ payloads' \in Seq(Items(payloads'))
        BY <2>3, Changed
      <3>2. fired \subseteq polled
        BY <1>2, <2>1, <2>3 DEF Covers
      <3>3. Items(payloads') \cap fired' = {} /\ Covers(Items(payloads))'
        BY <1>1, <1>2, <2>3, <3>1, <3>2 DEF Covers
      <3> QED
        BY <2>1, <3>1, <3>3 DEF FiredOnce
    <2>4. CASE tick' = "admit" /\ mode # "array_length"
      <3>1. payloads' = <<body>> /\ Items(body) \ polled # {}
        BY <2>4, Changed
      <3>2. /\ Items(payloads') = {body} /\ Distinct(payloads')
            /\ payloads' \in Seq(Items(payloads'))
        BY <3>1 DEF Items, Distinct
      <3>3. body \notin fired
        BY <1>2, <2>1, <2>4, <3>1 DEF Covers
      <3>4. Items(payloads') \cap fired' = {} /\ Covers(Items(payloads))'
        BY <1>1, <1>2, <2>4, <3>2, <3>3 DEF Covers
      <3> QED
        BY <2>1, <3>2, <3>4 DEF FiredOnce
    <2> QED
      BY <1>1, <2>2, <2>3, <2>4, Changed
  <1> QED
    BY <1>1, <1>3, <1>4, <1>5, <1>6 DEF PollInv

LEMMA StepAdmit ==
  ASSUME PollInv, Admit
  PROVE  PollInv'
  <1>1. /\ config' = config /\ remote' = remote /\ polled' = polled /\ state' = state
        /\ mode' = mode /\ body' = body /\ tick = "admit" /\ tick' = "admit"
        /\ payloads # <<>> /\ payloads' = Tail(payloads)
        /\ fired' = fired \cup {payloads[1]} /\ twice' = (twice \/ payloads[1] \in fired)
    BY DEF Admit, TickGoto, d1, storage
  <1> DEFINE all  == Items(payloads)
             rest == Tail(payloads)
  <1>2. /\ payloads \in Seq(all) /\ Distinct(payloads) /\ all \cap fired = {}
        /\ Covers(all) /\ Covers(fired) /\ ~twice
    BY DEF PollInv, FiredOnce
  <1> HIDE DEF all
  <1>3. /\ rest \in Seq(all) /\ Len(rest) = Len(payloads) - 1 /\ Len(payloads) \in Nat
        /\ \A k \in 1..Len(rest) : rest[k] = payloads[k + 1]
        /\ 1 \in 1..Len(payloads)
    BY <1>1, <1>2, HeadTailProperties
  <1> HIDE DEF rest
  <1>4. payloads[1] \in all
    BY <1>3 DEF all, Items
  <1>5. Items(rest) \subseteq all \ {payloads[1]}
    <2> SUFFICES ASSUME NEW k \in 1..Len(rest) PROVE rest[k] \in all \ {payloads[1]}
      BY DEF Items
    <2>1. k + 1 \in 1..Len(payloads) /\ k + 1 # 1 /\ rest[k] = payloads[k + 1]
      BY <1>3
    <2> QED
      BY <1>2, <1>3, <2>1 DEF Distinct, all, Items
  <1>6. Distinct(rest)
    <2> SUFFICES ASSUME NEW i \in 1..Len(rest), NEW j \in 1..Len(rest), rest[i] = rest[j]
                 PROVE  i = j
      BY DEF Distinct
    <2>1. /\ i + 1 \in 1..Len(payloads) /\ rest[i] = payloads[i + 1]
          /\ j + 1 \in 1..Len(payloads) /\ rest[j] = payloads[j + 1]
      BY <1>3
    <2>2. i + 1 = j + 1
      BY <1>2, <2>1 DEF Distinct
    <2> QED
      BY <1>3, <2>2
  <1>7. rest \in Seq(Items(rest))
    BY <1>3 DEF Items
  <1>8. FiredOnce'
    <2>1. payloads' \in Seq(Items(payloads')) /\ Distinct(payloads)'
      BY <1>1, <1>6, <1>7 DEF rest
    <2>2. Items(payloads') \cap fired' = {} /\ ~twice'
      BY <1>1, <1>2, <1>4, <1>5 DEF rest
    <2>3. Covers(Items(payloads))' /\ Covers(fired)'
      BY <1>1, <1>2, <1>4, <1>5 DEF rest, Covers
    <2> QED
      BY <2>1, <2>2, <2>3 DEF FiredOnce
  <1>9. TickHolds'
    BY <1>1 DEF PollInv, TickHolds
  <1>10. StateIsLast'
    <2>1. CASE state = NoState
      BY <1>1, <2>1 DEF StateIsLast
    <2>2. CASE state # NoState
      <3>1. PICK w \in Seq(Item) :
              Answer(w) /\ Items(w) = polled /\ state = buildState(config.changeMode, w)
        BY <2>2 DEF PollInv, StateIsLast
      <3>2. Answer(w)'
        BY <1>1, <3>1 DEF Answer
      <3> QED
        BY <1>1, <3>1, <3>2 DEF StateIsLast
    <2> QED
      BY <2>1, <2>2
  <1> QED
    BY <1>1, <1>8, <1>9, <1>10 DEF PollInv

LEMMA PollStep ==
  ASSUME ModeEdits = FALSE, PollInv, [Next]_vars
  PROVE  PollInv'
  <1> USE DEF d1, request, storage, running, history
  <1>1. CASE UNCHANGED vars
    BY <1>1, Uneventful DEF vars, PollInv, TickHolds
  <1>2. ASSUME NEW r \in Req, SaveTrigger(r) PROVE PollInv'
    <2>1. config' \in Config /\ config'.changeMode = config.changeMode
      BY <1>2 DEF SaveTrigger
    <2> QED
      BY <1>2, <2>1, Uneventful DEF SaveTrigger, PollInv, TickHolds
  <1>3. ASSUME NEW r \in Req, DeleteTrigger(r) \/ SetStatus(r) \/ FindTrigger(r) \/ ReadTrigger(r)
        PROVE  PollInv'
    BY <1>3, Uneventful DEF DeleteTrigger, SetStatus, FindTrigger, ReadTrigger, PollInv, TickHolds
  <1>4. ASSUME NEW r \in Req, CallPoller(r) \/ LoseRequest(r) PROVE PollInv'
    BY <1>4, Uneventful DEF CallPoller, Start, Stop, LoseRequest, PollInv, TickHolds
  <1>5. CASE CronList \/ CronStart
    BY <1>5, Uneventful DEF CronList, CronStart, Start, PollInv, TickHolds
  <1>6. CASE Tick \/ Find \/ AdmitDone
    BY <1>6, Uneventful DEF Tick, Find, AdmitDone, TickGoto, PollInv, TickHolds
  <1>7. CASE PollFails \/ Rearm \/ StopItself \/ Evict
    BY <1>7, Uneventful DEF PollFails, Rearm, StopItself, Evict, TickGoto, Stop, Returned, PollInv,
                            TickHolds
  <1>8. CASE Fetch \/ Evaluate \/ Admit \/ Publish
    BY <1>8, StepFetch, StepEvaluate, StepAdmit, StepPublish
  <1> QED
    BY <1>1, <1>2, <1>3, <1>4, <1>5, <1>6, <1>7, <1>8 DEF Next, Request, Alarm

\* With one changeMode, for any number of requests, items and faults.
THEOREM PollInvariant == ModeEdits = FALSE /\ Spec => []PollInv
  <1>1. Init => PollInv
    <2> SUFFICES ASSUME Init PROVE PollInv
      OBVIOUS
    <2>1. remote \in Seq(Item) /\ Distinct(remote) /\ polled \subseteq Items(remote)
      BY NothingItems DEF Init
    <2>2. TickHolds /\ StateIsLast
      BY DEF Init, TickHolds, StateIsLast
    <2>3. FiredOnce
      BY NothingItems DEF Init, FiredOnce, Covers
    <2> QED
      BY <2>1, <2>2, <2>3 DEF Init, PollInv
  <1>2. ModeEdits = FALSE /\ PollInv /\ [Next]_vars => PollInv'
    BY PollStep
  <1>3. ModeEdits = FALSE => (ModeEdits = FALSE)'
    OBVIOUS
  <1> QED
    BY <1>1, <1>2, <1>3, PTL DEF Spec

----------------------------------------------------------------------------
(* What follows *)

\* A change starts its runs once: no eviction between two payloads, no stop and
\* start around a poll and no lost request makes the poller detect it again.
THEOREM ChangesFireOnce == ModeEdits = FALSE /\ Spec => []FiresOnce
  <1>1. PollInv => FiresOnce
    BY DEF PollInv, FiredOnce, FiresOnce
  <1> QED
    BY <1>1, PollInvariant, PTL

\* A poll starts runs only for what no earlier poll has seen: array_length for
\* items that were in none of them, the other modes for a response that has one.
THEOREM OnlyNewsFires == ModeEdits = FALSE /\ Spec => NothingOldFires
  <1> DEFINE NewsOnly == tick = "evaluate" /\ tick' = "admit" =>
                           IF mode = "array_length" THEN Items(payloads') \cap polled = {}
                                                    ELSE Items(body) \ polled # {}
  <1>1. PollInv /\ [Next]_vars => [NewsOnly]_vars
    <2> SUFFICES ASSUME PollInv, Next, tick = "evaluate", tick' = "admit" PROVE NewsOnly
      OBVIOUS
    <2>1. Evaluate
      BY DEF Next, Request, Alarm, SaveTrigger, DeleteTrigger, SetStatus, FindTrigger, ReadTrigger,
             CallPoller, LoseRequest, CronList, CronStart, Tick, Find, Fetch, Admit, AdmitDone,
             Rearm, StopItself, PollFails, Evict, Publish, TickGoto, running
    <2> QED
      BY <2>1, Changed
  <1> QED
    BY <1>1, PollInvariant, PTL DEF Spec, NothingOldFires
=============================================================================
