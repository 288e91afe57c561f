--------------------------- MODULE MemWalTableProofs ---------------------------
(***************************************************************************)
(* What MemWalTable promises, for every number of tasks, shards, rows and  *)
(* writers: no acknowledged upsert is lost, no open writer is forgotten,   *)
(* and a read that is answered is complete.                                *)
(***************************************************************************)
EXTENDS MemWalStepProofs, FiniteSetTheorems

-----------------------------------------------------------------------------
(* The number facts, and the theorems                                      *)

\* A set of naturals has a least element.
LEMMA LeastExists ==
  ASSUME NEW U \in SUBSET Nat, U # {}
  PROVE  \E m \in U : \A k \in U : m <= k
  <1> DEFINE Below(m) == {k \in U : k <= m}
             T == {Below(m) : m \in U}
             R == StrictSubsetOrdering(U)
  <1>1. \A m \in U : Below(m) \in FiniteSubsetsOf(U)
    <2> TAKE m \in U
    <2>1. Below(m) \in SUBSET Nat /\ m \in Nat /\ \A s \in Below(m) : s <= m
      BY Zenon
    <2>2. IsFiniteSet(Below(m))
      BY <2>1, FS_BoundedSetOfNaturals, Zenon
    <2> QED BY <2>2, Zenon DEF FiniteSubsetsOf
  <1>2. T \subseteq FiniteSubsetsOf(U) /\ T # {}
    BY <1>1, Zenon
  <1>3. PICK B \in T : \A C \in T : ~(<<C, B>> \in R)
    <2> HIDE DEF T, R
    <2>1. IsWellFoundedOn(R, FiniteSubsetsOf(U))
      BY FS_StrictSubsetOrderingWellFounded, Zenon DEF R
    <2> QED BY <1>2, <2>1, WFMin, Zenon
  <1>4. PICK m \in U : B = Below(m)
    BY Zenon
  <1>5. ASSUME NEW k \in U, ~(m <= k) PROVE FALSE
    <2>1. k \in Nat /\ m \in Nat /\ k < m
      BY <1>5, SMTT(30)
    <2>2. Below(k) \subseteq Below(m) /\ m \in Below(m) /\ m \notin Below(k)
      <3>1. \A j \in U : j \in Nat
        BY Zenon
      <3>2. \A j \in U : j <= k => j <= m
        BY <2>1, <3>1, SMTT(30)
      <3>3. m <= m /\ ~(m <= k)
        BY <2>1, SMTT(30)
      <3> QED BY <3>2, <3>3, Zenon
    <2>3. <<Below(k), Below(m)>> \in R
      <3> DEFINE p == <<Below(k), Below(m)>>
      <3>1. Below(k) \in SUBSET U /\ Below(m) \in SUBSET U
        BY Zenon
      <3>2. p \in (SUBSET U) \X (SUBSET U) /\ p[1] = Below(k) /\ p[2] = Below(m)
        BY <3>1, Zenon
      <3>3. p[1] \subseteq p[2] /\ p[1] # p[2]
        BY <2>2, <3>2, Zenon
      <3> HIDE DEF p
      <3> QED BY <3>2, <3>3, Zenon DEF StrictSubsetOrdering
    <2>4. Below(k) \in T
      BY Zenon
    <2> QED BY <1>3, <1>4, <2>3, <2>4, Zenon
  <1> QED BY <1>5, Zenon

\* What Max and Min return: next of Flush, the watermarks and Compact.
LEMMA MaxFacts ==
  ASSUME NEW S \in SUBSET Nat, S # {}, NEW n \in Nat, \A x \in S : x <= n
  PROVE  Max(S) \in S /\ \A x \in S : x <= Max(S)
  <1> DEFINE U == {k \in Nat : \A x \in S : x <= k}
  <1>1. PICK m \in U : \A k \in U : m <= k
    <2>1. n \in U /\ U \in SUBSET Nat
      BY Zenon
    <2> HIDE DEF U
    <2> QED BY <2>1, LeastExists, Zenon
  <1>2. m \in S
    <2> SUFFICES ASSUME m \notin S PROVE FALSE
      BY Zenon
    <2>1. m \in Nat /\ \A x \in S : x < m
      BY SMTT(30)
    <2>2. m # 0
      <3>1. PICK x \in S : TRUE
        BY Zenon
      <3> QED BY <2>1, <3>1, SMTT(30)
    <2>3. m - 1 \in U
      BY <2>1, <2>2, SMTT(30)
    <2> QED BY <2>1, <2>3, <1>1, SMTT(30)
  <1>3. m \in S /\ \A x \in S : m >= x
    BY <1>2, Zenon
  <1> QED BY <1>3, Zenon DEF Max

LEMMA NumberTheory == NumberFacts
  <1>1. \A S \in SUBSET Nat : S # {} => Min(S) \in S /\ \A x \in S : Min(S) <= x
    BY LeastExists, Zenon DEF Min
  <1>2. ASSUME NEW S \in SUBSET Row
        PROVE  /\ IsFiniteSet(S) /\ Cardinality(S) \in Nat
               /\ \A U \in SUBSET S : Cardinality(U) <= Cardinality(S)
    <2>1. IsFiniteSet(S)
      BY MemWalAssumption, FS_Subset, Zenon
    <2> QED BY <2>1, FS_Subset, FS_CardinalityType, Zenon
  <1>3. ASSUME NEW S \in SUBSET Row, NEW x \in Row \ S
        PROVE  Cardinality(S \cup {x}) = Cardinality(S) + 1
    BY <1>2, <1>3, FS_AddElement, Zenon
  <1> QED BY <1>1, <1>2, <1>3, MaxFacts, Zenon DEF NumberFacts

LEMMA WalInvHolds == Spec => []WalInv
  <1>1. Init => WalInv
    BY NumberTheory, InitWalInv, Zenon
  <1>2. WalInv /\ [Next]_vars => WalInv'
    BY NumberTheory, NextWalInv, Zenon
  <1> QED BY <1>1, <1>2, PTL DEF Spec

\* The variables keep their types: each operation its own local variables,
\* the handle no newer than the newest commit, and no more generations than
\* rows, for every number of tasks, shards, rows, writers and steps.
THEOREM WalTypeCorrect == Spec => []TypeOK
  <1>1. WalInv => TypeOK
    BY Parts, Zenon
  <1> QED BY <1>1, WalInvHolds, PTL

\* A merge_insert that returned Ok is never lost: put checks under the entry's
\* lock that close has not taken the writer, a writer that is opened replays
\* what the one it fences had not published, and close flushes every memtable.
THEOREM AckedRowsKept == Spec => []AckedKept
  <1>1. WalInv => AckedKept
    BY Parts, Zenon
  <1> QED BY <1>1, WalInvHolds, PTL

\* No open shard writer is forgotten: writer() replaces the cached entry only
\* when the slot is empty, and a drain hands its entry to close.  And a writer
\* only holds rows of its own shard, since a task that finds another task's
\* writer in the slot checks the shard.
THEOREM WritersAreOwned == Spec => []WritersOwned
  <1>1. WalInv => WritersOwned
    BY Parts, Zenon
  <1> QED BY <1>1, WalInvHolds, PTL

\* A read that is answered has every row acknowledged before it began, though
\* create_lsm_plan reads the handle's version, the manifests, the slot, the
\* memtables and the writer's manifest one after another, while rows move from
\* memtables to SSTables and to the base table and the index catches up.
THEOREM ReadsAreComplete == Spec => []ReadComplete
  <1>1. WalInv => ReadComplete
    BY Parts, Zenon DEF TaskInv, ReadComplete
  <1> QED BY <1>1, WalInvHolds, PTL
================================================================================
