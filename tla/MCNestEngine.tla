---------------------------- MODULE MCNestEngine ----------------------------
(* NestEngine for TLC: one execution and two worker slots.  The slots are    *)
(* interchangeable, but symmetry is unsound beside JobEnds.                  *)
EXTENDS NestEngine

CONSTANTS e1, p1, p2, nobody

MCExec == {e1}
MCProc == {p1, p2}
MCTypes == <<"HTTP_REQUEST", "SEND_EMAIL">>
=============================================================================
