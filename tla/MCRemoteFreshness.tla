------------------------- MODULE MCRemoteFreshness -------------------------
(* Instances of RemoteFreshness for TLC.                                   *)
EXTENDS RemoteFreshness, TLC

CONSTANTS t1, t2, n1, n2

TwoTasks == {t1, t2}
TwoNodes == {n1, n2}

Symmetric == Permutations(Task) \cup Permutations(Node)
=============================================================================
