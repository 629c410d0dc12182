------------------------------ MODULE MCPoller ------------------------------
(* An instance of Poller for TLC: two intervals, two change modes.          *)
EXTENDS Poller

CONSTANTS r1, r2, x1

Every(n, m) == [interval |-> n, changeMode |-> m]

MCConfig == {Every(30, "array_length"), Every(60, "array_length"), Every(30, "any")}
=============================================================================
