----------------------------- MODULE PollChange -----------------------------
(***************************************************************************)
(* Change detection of a SCHEDULED trigger (poll-change.ts), shared by     *)
(* both engines: reduce a response to a comparable state, compare it with  *)
(* the last one and decide what fires.                                     *)
(*                                                                         *)
(* A response is the JSON array the endpoint returned, a sequence of       *)
(* items.  The field of specific_field is its first item (stateKey         *)
(* "$[0]"); a comparison carries its mode, for a string, a number and a    *)
(* field's value are never equal to one another.                           *)
(***************************************************************************)
EXTENDS Naturals, Sequences, FiniteSets

Modes == {"any", "specific_field", "array_length"}

\* The items of an array.
Items(body) == {body[k] : k \in 1..Len(body)}

\* No state stored yet: store.read() gives null.
NoState == [comparison |-> <<"none", 0>>, items |-> <<>>]

\* extractStateValue: undefined when the path finds nothing.
FieldOf(body) == IF body = <<>> THEN <<>> ELSE <<body[1]>>

\* buildState: only array_length keeps the items.
buildState(mode, body) ==
  CASE mode = "array_length"   -> [comparison |-> <<mode, Len(body)>>, items |-> body]
    [] mode = "specific_field" -> [comparison |-> <<mode, FieldOf(body)>>, items |-> <<>>]
    [] mode = "any"            -> [comparison |-> <<mode, body>>, items |-> <<>>]

\* getNewItems: what the previous response had not, in order.  (SelectSeq is
\* recursive; this is its result, by the positions it keeps.)
Increasing(f) == \A i, j \in DOMAIN f : i < j => f[i] < f[j]

getNewItems(previous, current) ==
  LET new  == {k \in 1..Len(current) : current[k] \notin Items(previous)}
      kept == CHOOSE f \in [1..Cardinality(new) -> new] : Increasing(f)
  IN  [n \in 1..Cardinality(new) |-> current[kept[n]]]

statesEqual(last, new) ==
  last.comparison[1] = new.comparison[1] /\ last.comparison[2] = new.comparison[2]

\* evaluatePoll: each payload starts one run; array_length has one for every
\* new item, the other modes one with the whole response.
evaluatePoll(mode, body, last) ==
  LET new == buildState(mode, body) IN
  CASE last = NoState         -> [kind |-> "baseline", state |-> new, payloads |-> <<>>]
    [] last # NoState /\ statesEqual(last, new)
                              -> [kind |-> "unchanged", state |-> new, payloads |-> <<>>]
    [] last # NoState /\ ~statesEqual(last, new)
                              -> [kind |-> "changed", state |-> new,
                                  payloads |-> IF mode = "array_length"
                                                 THEN getNewItems(last.items, body)
                                                 ELSE <<body>>]
=============================================================================
