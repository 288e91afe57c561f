---------------------------- MODULE LocalInserts ----------------------------
(***************************************************************************)
(* Table::add on a native table: NativeTable::add spawns one task for each *)
(* partition of the plan, InsertExec::execute writes each partition's data *)
(* uncommitted, the last partition to finish merges the transactions and   *)
(* commits them, and the progress callback follows the write until         *)
(* FinishOnDrop reports it done.  Several adds share one handle, whose     *)
(* version another thread may pin at any time.                             *)
(*                                                                         *)
(* Source: rust/lancedb/src/table.rs, table/datafusion/insert.rs,          *)
(* table/write_progress.rs, table/dataset.rs.  The data of a partition is  *)
(* the partition; the storage below CommitBuilder is external.             *)
(***************************************************************************)
EXTENDS Naturals, Sequences, FiniteSets

CONSTANTS Adds,         \* the concurrent add calls
          Partitions,   \* the partitions of each plan
          MaxVersion    \* bound on the versions of the table

VARIABLES caller,    \* where each call of add is
          task,      \* the spawned task of each partition of each call
          txns,      \* partial_transactions of each InsertExec
          table,     \* the committed versions: who wrote it, and what
          handle,    \* the DatasetConsistencyWrapper
          version,   \* the AddResult of each call
          progress   \* what the progress callback of each call was told
vars == <<caller, task, txns, table, handle, version, progress>>

Latest == Len(table)
Running == {"writing", "commit", "update"}
Ended == {"ok", "failed", "unread", "refused", "dropped"}

Init ==
    /\ caller = [a \in Adds |-> "start"]
    /\ task = [a \in Adds |-> [p \in Partitions |-> "none"]]
    /\ txns = [a \in Adds |-> <<>>]
    /\ table = <<[by |-> "other", rows |-> [p \in Partitions |-> 0]]>>
    /\ handle = [version |-> 1, pinned |-> FALSE]
    /\ version = [a \in Adds |-> 0]
    /\ progress = [a \in Adds |-> [done |-> FALSE, late |-> FALSE]]

(* WriteProgressTracker: each callback is one step behind its lock. *)
Callback(a) ==
    progress' = [progress EXCEPT ![a].late = @ \/ progress[a].done]
finish(a) ==
    progress' = [progress EXCEPT ![a].done = TRUE]

(***************************************************************************)
(* add up to the spawning of the tasks.  ensure_mutable and get take the   *)
(* wrapper's lock one after the other.                                     *)
(***************************************************************************)
ensure_mutable(a) ==
    /\ caller[a] = "start"
    /\ caller' = [caller EXCEPT ![a] = IF handle.pinned THEN "refused" ELSE "get"]
    /\ UNCHANGED <<task, txns, table, handle, version, progress>>

SpawnTasks(a) ==
    /\ caller[a] = "get"
    /\ caller' = [caller EXCEPT ![a] = "join"]
    /\ task' = [task EXCEPT ![a] = [p \in Partitions |-> "writing"]]
    /\ UNCHANGED <<txns, table, handle, version, progress>>

(* A batch of the partition passes: record_batch, record_bytes. *)
WriteBatch(a, p) ==
    /\ task[a][p] = "writing"
    /\ Callback(a)
    /\ UNCHANGED <<caller, task, txns, table, handle, version>>

(***************************************************************************)
(* The partition is written: its transaction is pushed and, under the same *)
(* lock, the last one takes them all.                                      *)
(***************************************************************************)
IsLast(a, pushed) == Len(pushed) = Cardinality(Partitions)

PushTransaction(a, p) ==
    LET pushed == Append(txns[a], p)
    IN /\ task[a][p] = "writing"
       /\ task' = [task EXCEPT ![a][p] =
                     IF IsLast(a, pushed) THEN "commit" ELSE "ok"]
       /\ txns' = [txns EXCEPT ![a] = pushed]
       /\ UNCHANGED <<caller, table, handle, version, progress>>

(* The input is refused (NaN, a computed column's value) or the writer     *)
(* fails: the partition pushes nothing.                                    *)
PartitionFails(a, p) ==
    /\ task[a][p] = "writing"
    /\ task' = [task EXCEPT ![a][p] = "err"]
    /\ UNCHANGED <<caller, txns, table, handle, version, progress>>

(* merge_transactions: the fragments of all of them, in one operation. *)
merge_transactions(pushed) ==
    [p \in Partitions |-> Cardinality({i \in DOMAIN pushed : pushed[i] = p})]

CommitTransaction(a, p) ==
    /\ task[a][p] = "commit"
    /\ txns' = [txns EXCEPT ![a] = <<>>]
    /\ \/ /\ Latest < MaxVersion
          /\ table' = Append(table, [by |-> a,
                                     rows |-> merge_transactions(txns[a])])
          /\ task' = [task EXCEPT ![a][p] = "update"]
          /\ version' = [version EXCEPT ![a] = Len(table')]
       \/ /\ task' = [task EXCEPT ![a][p] = "err"]
          /\ UNCHANGED <<table, version>>
    /\ UNCHANGED <<caller, handle, progress>>

(* DatasetConsistencyWrapper::update: ignored while pinned, and never      *)
(* moves the handle back.                                                  *)
SetVersion(h, v) == IF h.pinned THEN h ELSE [h EXCEPT !.version = v]
update(h, v) ==
    IF h.pinned \/ v < h.version THEN h ELSE [h EXCEPT !.version = v]

UpdateHandle(a, p) ==
    /\ task[a][p] = "update"
    /\ handle' = update(handle, version[a])
    /\ task' = [task EXCEPT ![a][p] = "ok"]
    /\ UNCHANGED <<caller, txns, table, version, progress>>

(***************************************************************************)
(* The caller awaits the tasks.  The first error it meets is returned at   *)
(* once: the handles left are dropped, which detaches their tasks.         *)
(***************************************************************************)
AwaitTasks(a) ==
    /\ caller[a] = "join"
    /\ \/ /\ \A p \in Partitions : task[a][p] = "ok"
          /\ caller' = [caller EXCEPT ![a] = "read"]
          /\ UNCHANGED <<progress, version>>
       \/ /\ \E p \in Partitions : task[a][p] = "err"
          /\ caller' = [caller EXCEPT ![a] = "failed"]
          /\ finish(a)
          /\ UNCHANGED version
    /\ UNCHANGED <<task, txns, table, handle>>

(* The version in the AddResult is the one the handle shows by then: its   *)
(* own or, refreshed, a later one; the pinned one if it was pinned.        *)
ReadVersion(a) ==
    /\ caller[a] = "read"
    /\ \/ /\ caller' = [caller EXCEPT ![a] = "ok"]
          /\ \E v \in IF handle.pinned THEN {handle.version}
                                       ELSE handle.version .. Latest :
               /\ version' = [version EXCEPT ![a] = v]
               /\ handle' = [handle EXCEPT !.version = v]
       \/ /\ caller' = [caller EXCEPT ![a] = "unread"]
          /\ UNCHANGED <<version, handle>>
    /\ finish(a)
    /\ UNCHANGED <<task, txns, table>>

(* The caller drops the future: the spawned tasks go on. *)
Dropped(a) ==
    /\ caller[a] \in {"get", "join", "read"}
    /\ caller' = [caller EXCEPT ![a] = "dropped"]
    /\ IF caller[a] = "get" THEN UNCHANGED progress ELSE finish(a)
    /\ UNCHANGED <<task, txns, table, handle, version>>

(* Other users of the table and of the handle. *)
OtherCommit ==
    /\ Latest < MaxVersion
    /\ table' = Append(table, [by |-> "other",
                               rows |-> [p \in Partitions |-> 0]])
    /\ UNCHANGED <<caller, task, txns, handle, version, progress>>

Checkout ==
    /\ ~handle.pinned
    /\ \E v \in 1 .. Latest : handle' = [version |-> v, pinned |-> TRUE]
    /\ UNCHANGED <<caller, task, txns, table, version, progress>>

Step(a) ==
    \/ ensure_mutable(a) \/ SpawnTasks(a) \/ AwaitTasks(a) \/ ReadVersion(a)
    \/ \E p \in Partitions :
         \/ PushTransaction(a, p) \/ PartitionFails(a, p)
         \/ CommitTransaction(a, p) \/ UpdateHandle(a, p)

Next ==
    \/ \E a \in Adds : Step(a) \/ Dropped(a)
    \/ \E a \in Adds, p \in Partitions : WriteBatch(a, p)
    \/ OtherCommit
    \/ Checkout

Spec == Init /\ [][Next]_vars /\ WF_vars(\E a \in Adds : Step(a))
-----------------------------------------------------------------------------
(* Every variable has its type. *)
TypeOK ==
    /\ caller \in [Adds -> Ended \cup {"start", "get", "join", "read"}]
    /\ task \in [Adds -> [Partitions -> Running \cup {"none", "ok", "err"}]]
    /\ Latest \in 1 .. MaxVersion
    /\ handle.version \in 1 .. Latest
    /\ version \in [Adds -> 0 .. MaxVersion]
    /\ \A a \in Adds : Len(txns[a]) <= Cardinality(Partitions)

CommitsBy(a) == {v \in DOMAIN table : table[v].by = a}

(* An add is one version: it commits at most once and the commit holds     *)
(* every partition exactly once, whatever the order in which partitions    *)
(* finish (insert.rs execute).                                             *)
OneWholeCommit ==
    \A a \in Adds :
        /\ Cardinality(CommitsBy(a)) <= 1
        /\ \A v \in CommitsBy(a) : table[v].rows = [p \in Partitions |-> 1]

(* An add that failed on one of its partitions has written nothing and     *)
(* never will, although the other partitions' tasks run on detached        *)
(* (table.rs add, insert.rs execute).                                      *)
FailedWritesNothing ==
    \A a \in Adds : caller[a] = "failed" => CommitsBy(a) = {}

(* An add that returns Ok has committed, and unless another thread pinned  *)
(* the handle it names a version that contains what it wrote.              *)
OkVersionCovers ==
    \A a \in Adds :
        caller[a] = "ok" =>
            /\ CommitsBy(a) # {}
            /\ ~handle.pinned => \A v \in CommitsBy(a) : version[a] >= v

(* What WriteProgress::done says: the callback with done = true is the     *)
(* last one.                                                               *)
FinalCallbackDone == \A a \in Adds : ~progress[a].late
=============================================================================
