------------------------------ MODULE MemWalTable ------------------------------
(***************************************************************************)
(* The MemWAL of a native table (table/merge/lsm.rs, table/query/lsm.rs):  *)
(* enable_memwal and disable_memwal, upserts through the cached shard      *)
(* writer, closing the writer, creating an index while it is open, and     *)
(* reads that merge the base table, the SSTables and the memtables.        *)
(*                                                                         *)
(* Tasks share one table handle and step between the awaits of the code.   *)
(* Lance is external, modelled from how the code uses it: a shard writer   *)
(* appends to its active memtable, freezes it, and publishes frozen        *)
(* memtables as SSTables with growing generations; opening a writer fences *)
(* the previous one of the shard and replays what that had not published;  *)
(* a compactor merges SSTables into the base table and an index catches up *)
(* later.  A row is the payload of one upsert.  "The index" is the vector  *)
(* or full-text index of the searched column.                              *)
(***************************************************************************)
EXTENDS FiniteSets, Integers, Sequences, FiniteSetsExt, Functions

CONSTANTS
    Task, Shard, Row,
    ShardOf,      \* ShardOf[r]: the shard resolve_input_shard finds for r
    Entry,        \* the ShardWriterEntry objects a behaviour may create
    MaxVersion,   \* bound on the commits to the table
    MaxMemtables, \* bound on the memtables of a writer
    MaxOps        \* bound on the operations started

ASSUME MemWalAssumption ==
    /\ ShardOf \in [Row -> Shard]
    /\ MaxVersion \in Nat /\ MaxMemtables \in Nat /\ MaxOps \in Nat
    /\ IsFiniteSet(Row) /\ Shard # {}
    /\ "no entry" \notin Entry /\ "free" \notin Task

VARIABLES
    latest,    \* the newest committed version of the table
    handle,    \* the version the handle's DatasetConsistencyWrapper holds
    gen,       \* gen[r]: generation of the SSTable that holds r, 0 if none
    writer,    \* writer[e]: the ShardWriter in an entry, and its memtables
    slot,      \* ShardWriterCache::slot: the cached entry or NoEntry
    slotLock,  \* the task that holds the slot's write lock across an await
    task,      \* task[t]: the operation t runs, with its local variables
    acked,     \* ghost: the rows whose merge_insert returned Ok
    ops        \* operations started

vars == <<latest, handle, gen, writer, slot, slotLock, task, acked, ops>>

NoEntry   == "no entry"
Free      == "free"
NoCatchUp == -1
Kinds     == {"plain", "vector", "fts"}
Idle      == [pc |-> "idle"]

Version ==
    [version : Nat, spec : {"off", "maintained", "unmaintained"}, index : BOOLEAN,
     base : SUBSET Row, indexed : SUBSET Row,
     compacted : [Shard -> Nat], caughtUp : [Shard -> Nat \cup {NoCatchUp}]]

Memtable == [rows : SUBSET Row, carries : BOOLEAN]

Writer ==
    [state : {"unused", "open", "taken", "closed"}, fenced : BOOLEAN,
     shard : Shard, carries : BOOLEAN, mem : Seq(Memtable), manifest : SUBSET Row]

\* The local variables of the operations.
UpsertState == [pc : {"cached", "lock", "opening"}, row : Row, ds : Version]
PutState    == [pc : {"put"}, row : Row, entry : Entry]
CloseState  == [pc : {"take", "closing"}, entry : Entry, disable : BOOLEAN]
DisableState == [pc : {"drain", "drop"}]
IndexState  == [pc : {"refresh", "update"}, ds : Version]
FenceState  == [pc : {"configure", "fence"}, ds : Version, entry : Entry]
ReadState   ==
    [pc : {"manifests", "slot", "memtables", "manifest", "plan"},
     kind : Kinds, ds : Version, todo : SUBSET Shard,
     view : [Shard -> SUBSET Row], entry : Entry \cup {NoEntry}, mem : Seq(Memtable),
     start : SUBSET Row, resident : SUBSET Row, drained : BOOLEAN]
AnswerState == [pc : {"answered"}, missed : SUBSET Row]

TaskState ==
    {Idle} \cup UpsertState \cup PutState \cup CloseState \cup DisableState
    \cup IndexState \cup FenceState \cup ReadState \cup AnswerState

\* Every variable holds what the structs of the code hold, each operation its
\* own local variables, and generations never pass the number of rows.
TypeOK ==
    /\ latest \in Version /\ handle \in Version /\ handle.version <= latest.version
    /\ gen \in [Row -> 0 .. Cardinality(Row)]
    /\ writer \in [Entry -> Writer]
    /\ slot \in Entry \cup {NoEntry} /\ slotLock \in Task \cup {Free}
    /\ task \in [Task -> TaskState]
    /\ acked \in SUBSET Row /\ ops \in 0 .. MaxOps

\* A table is opened, with or without a spec and the index, and no writer.
Init ==
    /\ latest \in [version : {1}, spec : {"off", "maintained", "unmaintained"},
                   index : BOOLEAN, base : {{}}, indexed : {{}},
                   compacted : [Shard -> {0}], caughtUp : [Shard -> {NoCatchUp}]]
    /\ handle = latest
    /\ gen = [r \in Row |-> 0]
    /\ writer \in [Entry -> {[state |-> "unused", fenced |-> FALSE,
                              shard |-> CHOOSE s \in Shard : TRUE,
                              carries |-> FALSE, mem |-> << >>, manifest |-> {}]}]
    /\ slot = NoEntry /\ slotLock = Free
    /\ task = [t \in Task |-> Idle]
    /\ acked = {} /\ ops = 0

-----------------------------------------------------------------------------
(* Helpers                                                                 *)

Goto(t, local) == task' = [task EXCEPT ![t] = local]
Move(t, pc)    == task' = [task EXCEPT ![t].pc = pc]
End(t)         == Goto(t, Idle)

Start(t) == task[t] = Idle /\ ops < MaxOps /\ ops' = ops + 1

At(t, pc) == task[t].pc = pc /\ UNCHANGED ops

\* index_maintained: the index exists and the spec maintains it.
Maintained(d) == d.index /\ d.spec = "maintained"

\* DatasetConsistencyWrapper::update keeps the newer version.
Adopt(d) == handle' = IF d.version > handle.version THEN d ELSE handle

\* A transaction Lance rebases on the newest version.
Commit(d) ==
    /\ latest.version < MaxVersion
    /\ latest' = [d EXCEPT !.version = latest.version + 1]

\* A writer's memtables: the frozen ones, oldest first, then the active one.
Active(mem) == mem[Len(mem)]
Frozen(mem) == SubSeq(mem, 1, Len(mem) - 1)
RowsOf(mem) == UNION {m.rows : m \in Range(mem)}

\* The rows that only this writer's memtables (and their WAL) hold.
Unpublished(e) ==
    IF writer[e].fenced \/ writer[e].state \notin {"open", "taken"}
    THEN {} ELSE RowsOf(writer[e].mem)

Published(s) == {r \in Row : ShardOf[r] = s /\ gen[r] > 0}

-----------------------------------------------------------------------------
(* enable_memwal and create_index                                          *)

\* The handle is checked, refreshed, and the MemWAL index is committed; a
\* concurrent commit of the same index is a conflict, which changes nothing.
enable_memwal(t, spec) ==
    /\ Start(t) /\ handle.spec = "off" /\ latest.spec = "off"
    /\ Commit([latest EXCEPT !.spec = spec,
                             !.compacted = [s \in Shard |-> 0],
                             !.caughtUp = [s \in Shard |-> NoCatchUp]])
    /\ handle' = latest'
    /\ UNCHANGED <<gen, writer, slot, slotLock, task, acked>>

\* build_index trains on the handle's version and commits.
build_index(t) ==
    /\ Start(t) /\ ~latest.index
    /\ Commit([latest EXCEPT !.index = TRUE, !.indexed = handle.base])
    /\ Goto(t, [pc |-> "refresh", ds |-> latest'])
    /\ UNCHANGED <<handle, gen, writer, slot, slotLock, acked>>

\* The writer takes the new configuration; a memtable with rows is frozen.
Reconfigured(w, carries) ==
    LET new == [rows |-> {}, carries |-> carries] IN
    [w EXCEPT !.carries = carries,
              !.mem = IF Active(w.mem).rows = {} THEN Append(Frozen(w.mem), new)
                                                 ELSE Append(w.mem, new)]

\* refresh_maintained_indexes reads the slot; without a writer it returns.
RefreshSlot(t) ==
    /\ At(t, "refresh") /\ slotLock = Free
    /\ IF slot = NoEntry THEN Move(t, "update")
       ELSE Goto(t, [pc |-> "configure", ds |-> task[t].ds, entry |-> slot])
    /\ UNCHANGED <<latest, handle, gen, writer, slot, slotLock, acked>>

\* Under the entry's read lock: a writer taken meanwhile is left alone, and a
\* fenced one fails to refresh, which is only logged.
refresh_maintained_indexes(t) ==
    /\ At(t, "configure")
    /\ LET e == task[t].entry IN
       IF writer[e].state = "open" /\ ~writer[e].fenced
       THEN /\ writer' = [writer EXCEPT ![e] = Reconfigured(@, Maintained(task[t].ds))]
            /\ Move(t, "fence")
       ELSE Goto(t, [pc |-> "update", ds |-> task[t].ds]) /\ UNCHANGED writer
    /\ UNCHANGED <<latest, handle, gen, slot, slotLock, acked>>

\* fence.wait(), under the entry's read lock, until the frozen memtables of
\* the old configuration are flushed; a writer that gets fenced fails the wait.
FenceWait(t) ==
    /\ At(t, "fence")
    /\ LET w == writer[task[t].entry] IN w.fenced \/ Len(w.mem) = 1
    /\ Goto(t, [pc |-> "update", ds |-> task[t].ds])
    /\ UNCHANGED <<latest, handle, gen, writer, slot, slotLock, acked>>

IndexUpdate(t) ==
    /\ At(t, "update") /\ Adopt(task[t].ds) /\ End(t)
    /\ UNCHANGED <<latest, gen, writer, slot, slotLock, acked>>

-----------------------------------------------------------------------------
(* merge_insert through the MemWAL                                         *)

UpsertPcs == {"cached", "lock", "opening", "put"}

\* lsm_dispatch_decision finds a spec and execute_lsm_merge_insert captures
\* the dataset before it collects the input.
merge_insert(t, r) ==
    /\ Start(t) /\ handle.spec # "off"
    /\ gen[r] = 0 /\ r \notin acked
    /\ \A e \in Entry : r \notin RowsOf(writer[e].mem)
    /\ \A u \in Task : task[u].pc \in UpsertPcs => task[u].row # r
    /\ Goto(t, [pc |-> "cached", row |-> r, ds |-> handle])
    /\ UNCHANGED <<latest, handle, gen, writer, slot, slotLock, acked>>

\* check_shard_match, then put through the cached entry or fail.
UseCached(t) ==
    IF writer[slot].shard = ShardOf[task[t].row]
    THEN Goto(t, [pc |-> "put", row |-> task[t].row, entry |-> slot])
    ELSE End(t)

\* Faulty variant: an empty slot is taken for a match.
WriterCachedUnchecked(t) ==
    /\ At(t, "cached") /\ slotLock = Free
    /\ Goto(t, [pc |-> "put", row |-> task[t].row, entry |-> slot])
    /\ UNCHANGED <<latest, handle, gen, writer, slot, slotLock, acked>>

\* writer_for_shard, under the slot's read lock.
WriterCached(t) ==
    /\ At(t, "cached") /\ slotLock = Free
    /\ IF slot # NoEntry THEN UseCached(t) ELSE Move(t, "lock")
    /\ UNCHANGED <<latest, handle, gen, writer, slot, slotLock, acked>>

\* Faulty variant: the slot is not checked again under the write lock.
WriterLockBlind(t) ==
    /\ At(t, "lock") /\ slotLock = Free
    /\ Move(t, "opening") /\ slotLock' = t
    /\ UNCHANGED <<latest, handle, gen, writer, slot, acked>>

\* writer_for_shard, under the slot's write lock: check again, then open.
WriterLock(t) ==
    /\ At(t, "lock") /\ slotLock = Free
    /\ IF slot # NoEntry
       THEN UseCached(t) /\ UNCHANGED slotLock
       ELSE Move(t, "opening") /\ slotLock' = t
    /\ UNCHANGED <<latest, handle, gen, writer, slot, acked>>

\* mem_wal_writer: the new writer fences the shard's others and replays them.
mem_wal_writer(e, s, d) ==
    LET others == {o \in Entry : writer[o].state # "unused" /\ writer[o].shard = s}
        replay == UNION {Unpublished(o) : o \in others}
    IN  writer' = [o \in Entry |->
            IF o = e THEN [state |-> "open", fenced |-> FALSE, shard |-> s,
                           carries |-> Maintained(d),
                           mem |-> <<[rows |-> replay, carries |-> Maintained(d)]>>,
                           manifest |-> Published(s)]
            ELSE IF o \in others THEN [writer[o] EXCEPT !.fenced = TRUE]
            ELSE writer[o]]

WriterOpen(t) ==
    /\ At(t, "opening") /\ slotLock' = Free
    /\ \/ \E e \in Entry :
            /\ writer[e].state = "unused"
            /\ mem_wal_writer(e, ShardOf[task[t].row], task[t].ds)
            /\ slot' = e
            /\ Goto(t, [pc |-> "put", row |-> task[t].row, entry |-> e])
       \/ End(t) /\ UNCHANGED <<writer, slot>>  \* the open fails
    /\ UNCHANGED <<latest, handle, gen, acked>>

\* The writer appends the batch to its active memtable.
Appended(w, r) ==
    [w EXCEPT !.mem = Append(Frozen(w.mem), [Active(w.mem) EXCEPT !.rows = @ \cup {r}])]

\* Faulty variant: put does not notice that the writer was taken.
PutUnguarded(t) ==
    /\ At(t, "put")
    /\ LET e == task[t].entry
           open == writer[e].state = "open" /\ ~writer[e].fenced
       IN  /\ writer' = IF open THEN [writer EXCEPT ![e] = Appended(@, task[t].row)]
                                ELSE writer
           /\ acked' = acked \cup {task[t].row}
    /\ End(t) /\ UNCHANGED <<latest, handle, gen, slot, slotLock>>

\* ShardWriterEntry::put: an error once the writer is taken, or is fenced.
put(t) ==
    /\ At(t, "put")
    /\ LET e == task[t].entry
           open == writer[e].state = "open" /\ ~writer[e].fenced
       IN  /\ writer' = IF open THEN [writer EXCEPT ![e] = Appended(@, task[t].row)]
                                ELSE writer
           /\ acked' = IF open THEN acked \cup {task[t].row} ELSE acked
    /\ End(t) /\ UNCHANGED <<latest, handle, gen, slot, slotLock>>

\* merge_insert's timeout drops the future: a held lock is released, and a
\* put that was under way may have written the row that is not acknowledged.
MergeTimeout(t) ==
    /\ task[t].pc \in UpsertPcs /\ End(t)
    /\ slotLock' = IF slotLock = t THEN Free ELSE slotLock
    /\ \/ UNCHANGED writer
       \/ /\ task[t].pc = "put"
          /\ LET e == task[t].entry IN
             /\ writer[e].state = "open" /\ ~writer[e].fenced
             /\ writer' = [writer EXCEPT ![e] = Appended(@, task[t].row)]
    /\ UNCHANGED <<latest, handle, gen, slot, acked, ops>>

-----------------------------------------------------------------------------
(* close_memwal_writers and disable_memwal                                 *)

Reading == {"manifests", "slot", "memtables", "manifest", "plan"}

\* drain_and_close empties the slot under its write lock.  The
\* reads under way are marked (ghost drained).
DrainSlot(t, disable) ==
    /\ slotLock = Free /\ slot' = NoEntry
    /\ IF slot # NoEntry
       THEN task' = [u \in Task |->
                IF u = t
                THEN [pc |-> "take", entry |-> slot, disable |-> disable]
                ELSE IF task[u].pc \in Reading
                THEN [task[u] EXCEPT !.drained = TRUE]
                ELSE task[u]]
       ELSE Goto(t, IF disable THEN [pc |-> "drop"] ELSE Idle)
    /\ UNCHANGED <<latest, handle, gen, writer, slotLock, acked>>

close_memwal_writers(t) == Start(t) /\ DrainSlot(t, FALSE)

\* disable_memwal fails unless the handle shows a spec.
disable_memwal(t) ==
    /\ Start(t) /\ handle.spec # "off"
    /\ Goto(t, [pc |-> "drain"])
    /\ UNCHANGED <<latest, handle, gen, writer, slot, slotLock, acked>>

DisableDrain(t) == At(t, "drain") /\ DrainSlot(t, TRUE)

\* ShardWriterEntry::close takes the writer under the entry's write lock,
\* which a refresh that waits for its fence holds off.
CloseTake(t) ==
    /\ At(t, "take")
    /\ \A u \in Task : task[u].pc = "fence" => task[u].entry # task[t].entry
    /\ writer' = [writer EXCEPT ![task[t].entry].state = "taken"]
    /\ Move(t, "closing")
    /\ UNCHANGED <<latest, handle, gen, slot, slotLock, acked>>

\* writer.close() returns once everything is flushed, or fails if fenced; then
\* disable_memwal goes on to drop the index, or returns the error.
CloseEnd(t) ==
    /\ At(t, "closing")
    /\ LET e == task[t].entry IN
       /\ writer[e].fenced \/ writer[e].mem = << >>
       /\ writer' = [writer EXCEPT ![e].state = "closed", ![e].mem = << >>]
       /\ Goto(t, IF task[t].disable /\ ~writer[e].fenced
                  THEN [pc |-> "drop"] ELSE Idle)
    /\ UNCHANGED <<latest, handle, gen, slot, slotLock, acked>>

\* drop_index on the handle's version, and update; an index that is gone
\* already is an error.
DropIndex(t) ==
    /\ At(t, "drop") /\ End(t)
    /\ \/ /\ handle.spec # "off" /\ latest.spec # "off"
          /\ Commit([latest EXCEPT !.spec = "off",
                                   !.compacted = [s \in Shard |-> 0],
                                   !.caughtUp = [s \in Shard |-> NoCatchUp]])
          /\ handle' = latest'
       \/ (handle.spec = "off" \/ latest.spec = "off") /\ UNCHANGED <<latest, handle>>
    /\ UNCHANGED <<gen, writer, slot, slotLock, acked>>

-----------------------------------------------------------------------------
(* Reads: create_lsm_plan                                                  *)

\* exclusion_watermarks: SSTables up to here are left to the base table.
Watermark(d, kind, s) ==
    IF kind # "plain" /\ Maintained(d)
    THEN IF d.caughtUp[s] = NoCatchUp THEN 0
         ELSE Min({d.compacted[s], d.caughtUp[s]})
    ELSE d.compacted[s]

\* snapshot_from_manifest
Snapshot(s, manifest, d, kind) == {r \in manifest : gen[r] > Watermark(d, kind, s)}

\* create_plan routes a read of a table with a spec here.  Ghosts: what was
\* acknowledged and what was in memtables when the read began, and whether a
\* drain overlaps it.
read(t, kind) ==
    /\ Start(t) /\ handle.spec # "off"
    /\ Goto(t, [pc |-> "manifests", kind |-> kind, ds |-> handle, todo |-> Shard,
                view |-> [s \in Shard |-> {}], entry |-> NoEntry, mem |-> << >>,
                start |-> acked,
                resident |-> UNION {Unpublished(e) : e \in Entry},
                drained |-> \E e \in Entry \ {slot} : Unpublished(e) # {}])
    /\ UNCHANGED <<latest, handle, gen, writer, slot, slotLock, acked>>

\* build_read_context loads the on-disk manifests, one shard after another.
ReadManifests(t) ==
    /\ At(t, "manifests")
    /\ LET r == task[t] IN
       IF r.todo = {} THEN Move(t, "slot")
       ELSE \E s \in r.todo :
              Goto(t, [r EXCEPT !.todo = @ \ {s},
                                !.view[s] = Snapshot(s, Published(s), r.ds, r.kind)])
    /\ UNCHANGED <<latest, handle, gen, writer, slot, slotLock, acked>>

\* read_snapshot clones the cached entry out of the slot.
ReadSlot(t) ==
    /\ At(t, "slot") /\ slotLock = Free
    /\ Goto(t, [task[t] EXCEPT !.entry = slot,
                               !.pc = IF slot = NoEntry THEN "plan" ELSE "memtables"])
    /\ UNCHANGED <<latest, handle, gen, writer, slot, slotLock, acked>>

\* in_memory_memtable_refs, None once the writer is taken
MemtableRefs(w) == IF w.state = "open" THEN w.mem ELSE << >>

\* The view of the writer's shard with its in-memory manifest, which is None
\* (the on-disk view stays) once the writer is taken.
Overridden(r) ==
    LET w == writer[r.entry] IN
    IF w.state = "open"
    THEN [r.view EXCEPT ![w.shard] = Snapshot(w.shard, w.manifest, r.ds, r.kind)]
    ELSE r.view

CaptureMemtables(r) == [r EXCEPT !.mem = MemtableRefs(writer[r.entry])]
CaptureManifest(r)  == [r EXCEPT !.view = Overridden(r)]

\* Faulty variant: the manifest is captured before the memtables.
ReadSnapshotManifestFirst(t) ==
    /\ \/ /\ At(t, "memtables")
          /\ Goto(t, [CaptureManifest(task[t]) EXCEPT !.pc = "manifest"])
       \/ /\ At(t, "manifest")
          /\ Goto(t, [CaptureMemtables(task[t]) EXCEPT !.pc = "plan"])
    /\ UNCHANGED <<latest, handle, gen, writer, slot, slotLock, acked>>

\* read_snapshot captures the memtables, then the manifest.
read_snapshot(t) ==
    /\ \/ /\ At(t, "memtables")
          /\ Goto(t, [CaptureMemtables(task[t]) EXCEPT !.pc = "manifest"])
       \/ /\ At(t, "manifest")
          /\ Goto(t, [CaptureManifest(task[t]) EXCEPT !.pc = "plan"])
    /\ UNCHANGED <<latest, handle, gen, writer, slot, slotLock, acked>>

\* vector_plan and fts_plan refuse what they could not answer in full: an
\* index the spec does not maintain and, for full-text search, a resident
\* memtable that does not carry it (resident_memtables_carry).
Refused(r) ==
    \/ r.kind # "plain" /\ ~Maintained(r.ds)
    \/ r.kind = "fts" /\ \E m \in Range(r.mem) : ~m.carries

\* The scan: base table (through the index for a search), SSTables, memtables.
\* A memtable without the index adds nothing to a full-text search.
Scan(r) ==
    (IF r.kind = "plain" THEN r.ds.base ELSE r.ds.indexed)
    \cup (UNION {r.view[s] : s \in Shard})
    \cup (UNION {m.rows : m \in {n \in Range(r.mem) : r.kind = "fts" => n.carries}})

\* The plan is refused or answers (ghost missed: see ReadComplete).
ReadPlan(t) ==
    /\ At(t, "plan")
    /\ LET r == task[t] IN
       IF Refused(r) THEN End(t)
       ELSE Goto(t, [pc |-> "answered",
                     missed |-> (IF r.drained THEN r.start \ r.resident ELSE r.start) \ Scan(r)])
    /\ UNCHANGED <<latest, handle, gen, writer, slot, slotLock, acked>>

ReadReturn(t) ==
    /\ At(t, "answered") /\ End(t)
    /\ UNCHANGED <<latest, handle, gen, writer, slot, slotLock, acked>>

-----------------------------------------------------------------------------
(* Lance and other processes                                               *)

\* The active memtable is full; the next one has the writer's configuration.
Freeze(e) ==
    /\ writer[e].state = "open" /\ ~writer[e].fenced
    /\ Len(writer[e].mem) < MaxMemtables /\ Active(writer[e].mem).rows # {}
    /\ writer' = [writer EXCEPT ![e].mem =
                     Append(@, [rows |-> {}, carries |-> writer[e].carries])]
    /\ UNCHANGED <<latest, handle, gen, slot, slotLock, task, acked, ops>>

\* The oldest frozen memtable becomes an SSTable of the shard's manifest and
\* leaves memory; close also flushes the active one.
Flush(e) ==
    /\ ~writer[e].fenced /\ writer[e].mem # << >>
    /\ \/ writer[e].state = "taken"
       \/ writer[e].state = "open" /\ Len(writer[e].mem) > 1
    /\ LET s == writer[e].shard
           rows == Head(writer[e].mem).rows
           next == 1 + Max({0} \cup {gen[r] : r \in Published(s)})
       IN  /\ gen' = [r \in Row |-> IF r \in rows THEN next ELSE gen[r]]
           /\ writer' = [writer EXCEPT ![e].mem = Tail(@),
                                       ![e].manifest = @ \cup rows]
    /\ UNCHANGED <<latest, handle, slot, slotLock, task, acked, ops>>

\* A compaction pass merges the shard's oldest SSTable into the base table.
Compact(s) ==
    LET left == {r \in Published(s) : gen[r] > latest.compacted[s]}
        g == Min({gen[r] : r \in left})
    IN  /\ latest.spec # "off" /\ left # {}
        /\ Commit([latest EXCEPT !.base = @ \cup {r \in left : gen[r] = g},
                                 !.compacted[s] = g])
        /\ UNCHANGED <<handle, gen, writer, slot, slotLock, task, acked, ops>>

\* The index takes in what was compacted and its catch-up is recorded.
CatchUp ==
    /\ Maintained(latest) /\ latest.caughtUp # latest.compacted
    /\ Commit([latest EXCEPT !.indexed = @ \cup latest.base, !.caughtUp = latest.compacted])
    /\ UNCHANGED <<handle, gen, writer, slot, slotLock, task, acked, ops>>

\* The handle's cache moves to the newest version (module DatasetConsistency).
Refresh ==
    /\ handle # latest /\ handle' = latest
    /\ UNCHANGED <<latest, gen, writer, slot, slotLock, task, acked, ops>>

Next ==
    \/ \E t \in Task :
         \/ \E spec \in {"maintained", "unmaintained"} : enable_memwal(t, spec)
         \/ build_index(t) \/ RefreshSlot(t) \/ refresh_maintained_indexes(t)
         \/ FenceWait(t) \/ IndexUpdate(t)
         \/ \E r \in Row : merge_insert(t, r)
         \/ WriterCached(t) \/ WriterLock(t) \/ WriterOpen(t) \/ put(t) \/ MergeTimeout(t)
         \/ close_memwal_writers(t) \/ disable_memwal(t) \/ DisableDrain(t)
         \/ CloseTake(t) \/ CloseEnd(t) \/ DropIndex(t)
         \/ \E kind \in Kinds : read(t, kind)
         \/ ReadManifests(t) \/ ReadSlot(t) \/ read_snapshot(t)
         \/ ReadPlan(t) \/ ReadReturn(t)
    \/ \E e \in Entry : Freeze(e) \/ Flush(e)
    \/ \E s \in Shard : Compact(s)
    \/ CatchUp \/ Refresh

Spec == Init /\ [][Next]_vars

-----------------------------------------------------------------------------
(* Properties                                                              *)

\* A read that is answered (not refused) returns every row acknowledged
\* before it began, wherever the row moves meanwhile: memtable, SSTable, base
\* table.  Only a read that a drain_and_close overlaps may miss rows, those
\* that were in memtables when it began.
ReadComplete == \A t \in Task : task[t].pc = "answered" => task[t].missed = {}

\* An acknowledged row is never lost: it is in an SSTable, or in a memtable of
\* a writer that still can publish it.  put checks, under the entry's lock,
\* that close has not taken the writer.
AckedKept ==
    \A r \in acked : gen[r] > 0 \/ \E e \in Entry : r \in Unpublished(e)

\* An open writer is the cached one or in the hands of a task that closes it:
\* no writer is replaced in the slot while it is open, never to be closed.  And
\* its rows hash to its shard: a task that finds another task's writer in the
\* slot uses it only for the same shard.
WritersOwned ==
    \A e \in Entry :
        /\ writer[e].state = "open" =>
             \/ slot = e
             \/ \E t \in Task : task[t].pc = "take" /\ task[t].entry = e
        /\ \A r \in RowsOf(writer[e].mem) : ShardOf[r] = writer[e].shard

\* disable_memwal's contract, "any cached shard writers are drained and closed
\* first": when it drops the index, no acknowledged row is left in the
\* memtables of a writer, where reads will no longer look for it.
DisableDrains ==
    [][latest.spec # "off" /\ latest'.spec = "off" => \A r \in acked : gen[r] > 0]_vars

-----------------------------------------------------------------------------
(* The inductive invariant behind AckedKept, WritersOwned and ReadComplete. *)

\* A writer that can still publish.
Live(e) == ~writer[e].fenced /\ writer[e].state \in {"open", "taken"}

Disjoint(mem) ==
    \A i, j \in DOMAIN mem : i # j => mem[i].rows \cap mem[j].rows = {}

\* Each shard has at most one live writer.  Its manifest is what is published of
\* the shard, and its memtables hold, each row once, rows not yet published.
WriterInv ==
    \A e \in Entry :
        /\ writer[e].state = "open" => writer[e].mem # << >>
        /\ \A r \in RowsOf(writer[e].mem) : ShardOf[r] = writer[e].shard
        /\ Live(e) =>
             /\ writer[e].manifest = Published(writer[e].shard)
             /\ \A r \in RowsOf(writer[e].mem) : gen[r] = 0
             /\ Disjoint(writer[e].mem)
             /\ \A o \in Entry \ {e} : Live(o) => writer[o].shard # writer[e].shard

\* The cached writer is open and live, and while a task holds the slot's write
\* lock across an await, the slot is empty.
SlotInv ==
    /\ slot # NoEntry => writer[slot].state = "open" /\ Live(slot)
    /\ slotLock # Free => slot = NoEntry

\* Published rows are numbered without gaps, so no generation passes their number.
GenInv == \A s \in Shard : \A r \in Published(s) : gen[r] <= Cardinality(Published(s))

\* What a version of the table says it compacted is in its base table, and what
\* it says its index caught up with is indexed.
Sound(d) ==
    /\ d.version <= latest.version
    /\ \A s \in Shard : d.compacted[s] = 0 \/ \E r \in Published(s) : gen[r] >= d.compacted[s]
    /\ \A s \in Shard : d.caughtUp[s] <= d.compacted[s]
    /\ \A r \in Row : gen[r] \in 1 .. d.compacted[ShardOf[r]] => r \in d.base
    /\ \A r \in Row : /\ gen[r] \in 1 .. d.compacted[ShardOf[r]]
                      /\ gen[r] <= d.caughtUp[ShardOf[r]]
                      => r \in d.indexed
    /\ ~d.index => \A s \in Shard : d.caughtUp[s] = NoCatchUp

\* The tasks that close a writer, that insert a row, that hold a version.
Closing == {"take", "closing"}
HoldsVersion ==
    {"cached", "lock", "opening", "refresh", "update", "configure", "fence"} \cup Reading

\* A drained writer stays open until its task takes it, and taken until it is closed.
CloserInv(v) ==
    /\ v.pc = "take" => writer[v.entry].state = "open" /\ slot # v.entry
    /\ v.pc = "closing" => writer[v.entry].state = "taken"

\* A row that is being inserted is nowhere yet, and put goes to its shard.
UpsertInv(v) ==
    v.pc \in UpsertPcs =>
        /\ gen[v.row] = 0
        /\ \A e \in Entry : v.row \notin RowsOf(writer[e].mem)
        /\ v.pc = "put" => /\ writer[v.entry].state # "unused"
                           /\ writer[v.entry].shard = ShardOf[v.row]

VersionInv(v) == v.pc \in HoldsVersion => Sound(v.ds)

\* Where a read that is under way will find a row x that it owes: one that was
\* published when it began...
OldFound(v, x) ==
    /\ gen[x] > 0
    /\ \/ ShardOf[x] \in v.todo
       \/ gen[x] <= Watermark(v.ds, v.kind, ShardOf[x])
       \/ x \in v.view[ShardOf[x]]
    /\ v.pc \in {"memtables", "manifest"} /\ writer[v.entry].shard = ShardOf[x]
          => x \in writer[v.entry].manifest

\* ... and one that was in a memtable then.
ResidentFound(v, x) ==
    /\ slot # NoEntry /\ writer[slot].shard = ShardOf[x]
    /\ x \in RowsOf(writer[slot].mem) \cup writer[slot].manifest
    /\ v.pc = "manifest" => x \in RowsOf(v.mem) \cup writer[slot].manifest
    /\ v.pc = "plan" => x \in RowsOf(v.mem) \cup v.view[ShardOf[x]]

ReaderInv(v) ==
    v.pc \in Reading =>
        /\ v.pc # "manifests" => v.todo = {}
        /\ v.pc \in {"memtables", "manifest"} =>
              /\ v.entry # NoEntry /\ writer[v.entry].state # "unused"
              /\ ~v.drained => v.entry = slot
        /\ \A x \in v.resident : gen[x] = 0 \/ gen[x] > v.ds.compacted[ShardOf[x]]
        /\ \A x \in v.start \ v.resident : OldFound(v, x)
        /\ ~v.drained => \A x \in v.start \cap v.resident : ResidentFound(v, x)

TaskInv(v) ==
    /\ CloserInv(v) /\ UpsertInv(v) /\ VersionInv(v) /\ ReaderInv(v)
    /\ v.pc = "answered" => v.missed = {}

\* A task opens a writer exactly while it holds the slot's write lock; no two
\* tasks close one writer, or insert one row.
TasksApart ==
    /\ \A t \in Task : task[t].pc = "opening" <=> slotLock = t
    /\ \A t, u \in Task : t # u =>
         /\ task[t].pc \in Closing /\ task[u].pc \in Closing => task[t].entry # task[u].entry
         /\ task[t].pc \in UpsertPcs /\ task[u].pc \in UpsertPcs => task[t].row # task[u].row

WalInv ==
    /\ TypeOK /\ WriterInv /\ SlotInv /\ GenInv /\ Sound(latest) /\ Sound(handle)
    /\ \A t \in Task : TaskInv(task[t])
    /\ TasksApart /\ AckedKept /\ WritersOwned
================================================================================
