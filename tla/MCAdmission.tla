---------------------------- MODULE MCAdmission ----------------------------
(* Instances of Admission for TLC: two deliveries of one key, a manual fire *)
(* and a payload of a poll, of one workflow.                                *)
EXTENDS Admission, TLC

CONSTANTS w1, d1, d2, m1, p1, k1

MCWorkflowOf == [r \in Req |-> w1]
MCSourceOf == [r \in Req |->
  CASE r \in {d1, d2} -> "webhook" [] r \in {p1} -> "poll" [] OTHER -> "manual"]
MCKeyOf == [r \in Req |-> k1]

\* The two deliveries differ in nothing, and every property is of safety.
Deliveries == Permutations({d1, d2})
=============================================================================
