----------------------------- MODULE MCMemWalTable -----------------------------
(* Two shards, so that a cached writer can be for the wrong one.           *)
EXTENDS MemWalTable, TLC

CONSTANTS t1, t2, s1, s2, r1, r2, e1, e2

TwoTasks   == {t1, t2}
TwoShards  == {s1, s2}
TwoRows    == {r1, r2}
TwoEntries == {e1, e2}

Routes == (r1 :> s1) @@ (r2 :> s2)

Symmetry == Permutations(TwoTasks) \cup Permutations(TwoEntries)
================================================================================
