---------------------------- MODULE MCRunEngine ----------------------------
(* Instances of RunEngine for TLC: one execution, its first instance and    *)
(* the instances of its retries.                                            *)
EXTENDS RunEngine

CONSTANTS e1, i0, i1, i2

MCExecOf == [i \in Instance |-> e1]
MCFirst  == [e \in Exec |-> i0]
=============================================================================
