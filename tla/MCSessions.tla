----------------------------- MODULE MCSessions -----------------------------
(* Model values for Sessions. *)
EXTENDS Sessions

CONSTANTS t1, t2

=============================================================================
