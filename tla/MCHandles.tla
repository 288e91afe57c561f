------------------------------ MODULE MCHandles ------------------------------
(* TLC instance of the two handles that sit on a BackgroundCache:            *)
(* DatasetConsistency (a native table's dataset, all three consistency       *)
(* modes) and RemoteSchema (a remote table's schema).  "model" says which    *)
(* one runs, the other rests; they share the variables of the cache.         *)
EXTENDS DatasetConsistency, TLC

CONSTANTS t1, t2, f1, f2, MaxCheckouts, MaxInvalidations

TwoTasks   == {t1, t2}
TwoFetches == {f1, f2}

Symmetric == Permutations(Task) \cup Permutations(Fetch)

VARIABLES model, newest, timeline, selected, minVersion, lock, alter, snapshot, from, altered, due

S == INSTANCE RemoteSchema WITH latest <- newest, pinned <- selected, acked <- altered,
                                MaxGeneration <- MaxInvalidations

native == <<latest, mode, dataset, pinned, querySnapshot, op, val, found, snap, acked, low>>
remote == <<newest, timeline, selected, minVersion, lock, alter, snapshot, from, altered, due>>

NativeRests ==
    /\ latest = 1 /\ mode = "Lazy" /\ dataset = 1 /\ pinned = None /\ querySnapshot = FALSE
    /\ op = [t \in Task |-> "none"] /\ val = [t \in Task |-> 0] /\ found = [t \in Task |-> 0]
    /\ snap = [t \in Task |-> None] /\ acked = 0 /\ low = [t \in Task |-> 0]

RemoteRests ==
    /\ newest = 1 /\ timeline = 0 /\ selected = FALSE /\ minVersion = 0 /\ lock = None
    /\ alter = [t \in Task |-> FALSE] /\ snapshot = [t \in Task |-> S!NoSnapshot]
    /\ from = [f \in Fetch |-> S!NoSnapshot] /\ altered = 0 /\ due = [t \in Task |-> 0]

MCInit == \/ model = "native" /\ Init /\ RemoteRests
          \/ model = "remote" /\ S!Init /\ NativeRests

MCNext == \/ model = "native" /\ Next /\ UNCHANGED <<model, remote>>
          \/ model = "remote" /\ S!Next /\ UNCHANGED <<model, native>>

MCSpec == MCInit /\ [][MCNext]_<<model, vars, remote>>

\* The type invariants of both.
BothTypesOK == IF model = "native" THEN TypeOK ELSE S!TypeOK

\* The schema cache holds a schema of the handle's timeline, and a schema() call
\* after a checkout never gets the schema of what was selected before it.
SchemaOfTimeline ==
    model = "remote" => S!SchemaFollowsCheckout /\ S!CachedSchemaCurrent
===============================================================================
