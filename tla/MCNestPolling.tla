---------------------------- MODULE MCNestPolling ----------------------------
(* Instances of NestPolling for TLC: two intervals, three watches of two     *)
(* modes and two sources. Two processes poll through an edit or a fault; one *)
(* through two edits, or one and a fault; none through three and a fault.    *)
EXTENDS NestPolling, TLC

CONSTANTS h1, h2, p1, p2, i1, i2, e1, e2

TwoHandlers  == {h1, h2}
TwoProcesses == {p1, p2}
TwoItems     == {i1, i2}
Deployments  == [up : {TwoProcesses}, requests : {1}, faults : {0}]
                  \cup [up : {TwoProcesses}, requests : {0}, faults : {1}]
                  \cup [up : {{p1}, {p2}}, requests : {2}, faults : {0}]
                  \cup [up : {{p1}, {p2}}, requests : {1}, faults : {1}]
                  \cup [up : {{}}, requests : {3}, faults : {1}]
Watch(m, e)  == [changeMode |-> m, source |-> e]
Configs      == [interval : {1}, watch : {Watch("array_length", e1), Watch("array_length", e2)}]
                  \cup [interval : {2}, watch : {Watch("specific_field", e1)}]
Feeds        == [e \in {e1, e2} |-> IF e = e1 THEN TwoItems ELSE {}]
Swaps        == Permutations(TwoHandlers) \cup Permutations(TwoProcesses) \cup Permutations(TwoItems)
=============================================================================
