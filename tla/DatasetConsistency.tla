-------------------------- MODULE DatasetConsistency --------------------------
(***************************************************************************)
(* DatasetConsistencyWrapper (table/dataset.rs) and the operations of      *)
(* NativeTable that drive it: reads, writes, query snapshots, checkout,    *)
(* checkout_latest, restore and reload.                                    *)
(*                                                                         *)
(* The wrapper is a mutex around (dataset, pinned_version, query_snapshot) *)
(* plus, in the Eventual mode, a BackgroundCache.  Every operation releases *)
(* the mutex across its awaits, so a step here is one critical section, one *)
(* access to storage or one critical section of the cache.  Storage is     *)
(* external: the newest committed version.  A dataset is its version.      *)
(***************************************************************************)
EXTENDS Naturals

CONSTANTS
    Task,           \* concurrent tasks that share the handle
    None,           \* Option::None
    Err,            \* a failed fetch of the cache
    TTL, RefreshWindow, Fetch, MaxTime, MaxGeneration,  \* of the cache
    MaxVersion,     \* bound on committed versions
    MaxOps          \* bound on the operations the tasks begin

ASSUME OptionAssumption == None \notin Nat /\ Err \notin Nat /\ None # Err

\* What the cache assumes of its constants.
ASSUME CacheAssumption ==
    /\ TTL \in Nat /\ RefreshWindow \in Nat /\ RefreshWindow < TTL
    /\ None \notin Fetch /\ None \notin [value: Nat, at: Nat]
    /\ MaxTime \in Nat /\ MaxVersion \in Nat /\ MaxGeneration \in Nat

VARIABLES
    latest,         \* storage: the newest committed version
    mode,           \* ConsistencyMode, fixed when the handle is made
    dataset,        \* DatasetState::dataset
    pinned,         \* DatasetState::pinned_version
    querySnapshot,  \* DatasetState::query_snapshot
    op,             \* op[t]: the operation task t runs
    pc,             \* pc[t]: where it is
    val,            \* val[t]: the version task t carries across an await
    found,          \* found[t]: the pinned version that restore found
    snap,           \* snap[t]: the last query snapshot t made
    ops,            \* operations begun
    acked,          \* ghost: newest version whose write has returned since the last checkout
    low,            \* ghost: low[t] is the version the operation of t may not fall behind
    state, generation, now, stage, fetchGen, result,
    call, waitFor, ret, floor, asof       \* the cache

cacheVars  == <<state, generation, now, stage, fetchGen, result,
                call, waitFor, ret, floor, asof>>
handleVars == <<mode, dataset, pinned, querySnapshot>>
taskVars   == <<op, pc, val, found>>
ghostVars  == <<acked, low>>
vars == <<latest, mode, dataset, pinned, querySnapshot, op, pc, val, found,
          snap, ops, acked, low, state, generation, now, stage, fetchGen, result,
          call, waitFor, ret, floor, asof>>

\* The cache of the Eventual mode; what its fetch reads is the latest version.
Cache == INSTANCE BackgroundCache WITH source <- latest, Caller <- Task

Modes == {"Lazy", "Strong", "Eventual"}
Ops == {"none", "get", "write", "snapshot", "checkout", "checkout_latest", "restore", "reload"}
Locations == {"idle", "get", "lazy", "try_get", "cache_get", "refresh", "refresh_store",
              "got", "update", "invalidate", "as_latest", "latest_read", "latest_store",
              "latest_invalidate", "reload", "reload_store", "checkout_store"}
Snapshot == [version: Nat, internal: BOOLEAN]

TypeOK ==
    /\ latest \in Nat /\ mode \in Modes /\ dataset \in Nat
    /\ pinned \in Nat \cup {None}
    /\ querySnapshot \in BOOLEAN
    /\ op \in [Task -> Ops] /\ pc \in [Task -> Locations]
    /\ val \in [Task -> Nat] /\ found \in [Task -> Nat]
    /\ snap \in [Task -> Snapshot \cup {None}]
    /\ ops \in Nat /\ acked \in Nat /\ low \in [Task -> Nat]

\* new_latest, new_time_travel, or (Lazy) the wrapper of a query snapshot: the
\* second shows a version that need not be the latest.
Init ==
    /\ latest = 1
    /\ mode \in Modes
    /\ dataset \in 0 .. 1
    /\ pinned \in {None, dataset}
    /\ querySnapshot \in BOOLEAN
    /\ querySnapshot => pinned # None /\ mode = "Lazy"
    /\ op = [t \in Task |-> "none"] /\ pc = [t \in Task |-> "idle"]
    /\ val = [t \in Task |-> 0] /\ found = [t \in Task |-> 0]
    /\ snap = [t \in Task |-> None]
    /\ ops = 0 /\ acked = 0 /\ low = [t \in Task |-> 0]
    /\ Cache!Untouched
    /\ state = IF mode = "Eventual" THEN Cache!Current(dataset, now) ELSE Cache!Empty

-----------------------------------------------------------------------------
(* Beginning an operation                                                  *)

\* Task t goes to l and carries version v; what it carries ends with the operation.
Carry(t, l, v) ==
    /\ pc' = [pc EXCEPT ![t] = l]
    /\ IF l = "idle"
       THEN /\ op' = [op EXCEPT ![t] = "none"]
            /\ val' = [val EXCEPT ![t] = 0]
            /\ found' = [found EXCEPT ![t] = 0]
       ELSE /\ val' = [val EXCEPT ![t] = v]
            /\ UNCHANGED <<op, found>>

Goto(t, l) == Carry(t, l, val[t])

\* Ghost: what an operation that begins now may not fall behind.
Required == IF pinned # None THEN 0 ELSE IF mode = "Strong" THEN latest ELSE acked

Begin(t, o, l, v) ==
    /\ pc[t] = "idle" /\ ops < MaxOps
    /\ ops' = ops + 1
    /\ op' = [op EXCEPT ![t] = o]
    /\ pc' = [pc EXCEPT ![t] = l]
    /\ val' = [val EXCEPT ![t] = v]
    /\ snap' = [snap EXCEPT ![t] = None]
    /\ low' = [low EXCEPT ![t] = Required]
    /\ UNCHANGED <<latest, handleVars, acked, cacheVars>>

BeginGet(t) == Begin(t, "get", "get", 0) /\ UNCHANGED found

BeginSnapshot(t) == Begin(t, "snapshot", "get", 0) /\ UNCHANGED found

\* Writes first pass ensure_mutable.
BeginWrite(t) == pinned = None /\ Begin(t, "write", "get", 0) /\ UNCHANGED found

BeginCheckoutLatest(t) == Begin(t, "checkout_latest", "as_latest", 0) /\ UNCHANGED found

\* The refresh of a materialized view: ensure_mutable, then reload.
BeginReload(t) == pinned = None /\ Begin(t, "reload", "reload", 0) /\ UNCHANGED found

\* Faulty variant: restore does not ask whether a version is checked out.
BeginRestoreUnchecked(t) ==
    /\ Begin(t, "restore", "get", 0)
    /\ found' = [found EXCEPT ![t] = pinned]

\* restore reads the checked-out version first: time_travel_version.
BeginRestore(t) ==
    /\ pinned # None /\ ~querySnapshot
    /\ Begin(t, "restore", "get", 0)
    /\ found' = [found EXCEPT ![t] = pinned]

\* as_time_travel up to its await: a version number that is already pinned needs
\* no checkout, a tag is always resolved.
BeginCheckout(t, v, isTag) ==
    /\ isTag \/ pinned # v
    /\ Begin(t, "checkout", "checkout_store", v)
    /\ UNCHANGED found

-----------------------------------------------------------------------------
(* get                                                                     *)

\* A pinned handle answers at once; otherwise the mode decides.
Get(t) ==
    /\ pc[t] = "get"
    /\ IF pinned # None
       THEN Carry(t, "got", dataset)
       ELSE Goto(t, CASE mode = "Lazy"     -> "lazy"
                      [] mode = "Strong"   -> "refresh"
                      [] mode = "Eventual" -> "try_get")
    /\ UNCHANGED <<latest, handleVars, snap, ops, ghostVars, cacheVars>>

\* Lazy takes the mutex a second time: the handle may have been pinned since.
GetLazy(t) ==
    /\ pc[t] = "lazy"
    /\ Carry(t, "got", dataset)
    /\ UNCHANGED <<latest, handleVars, snap, ops, ghostVars, cacheVars>>

\* Eventual: bg_cache.try_get, and bg_cache.get on a miss.
TryGetCache(t) ==
    /\ pc[t] = "try_get"
    /\ Cache!TryGet(t)
    /\ IF ret'[t] # None
       THEN Carry(t, "got", ret'[t])
       ELSE Goto(t, "cache_get")
    /\ UNCHANGED <<handleVars, snap, ops, ghostVars>>

GetFromCache(t) ==
    /\ pc[t] = "cache_get"
    /\ Cache!GetFast(t) \/ Cache!GetSlow(t) \/ Cache!GetDone(t)
    /\ IF call'[t] # "idle" THEN UNCHANGED taskVars
       ELSE IF ret'[t] = Err THEN Goto(t, "idle")
       ELSE Carry(t, "got", ret'[t])
    /\ UNCHANGED <<handleVars, snap, ops, ghostVars>>

-----------------------------------------------------------------------------
(* refresh_latest: by a task (Strong, reload), or as the fetch of the cache *)

\* The version the handle shows after refresh_latest or update stores v.
Advanced(v) == IF pinned = None /\ v >= dataset THEN v ELSE dataset

\* Ghost: an operation that stored v in a tracking handle may not fall behind v.
Stored(t) == IF pinned = None THEN [low EXCEPT ![t] = val[t]] ELSE low

\* Ghost: the operation of t returns.
Ack(t, v) == acked' = IF v > acked THEN v ELSE acked

RefreshRead(t) ==
    /\ pc[t] = "refresh"
    /\ Carry(t, "refresh_store", latest)
    /\ UNCHANGED <<latest, handleVars, snap, ops, ghostVars, cacheVars>>

\* reload goes on to invalidate the cache; get returns the version it read.
RefreshStore(t) ==
    /\ pc[t] = "refresh_store"
    /\ dataset' = Advanced(val[t])
    /\ IF op[t] \in {"reload", "checkout_latest"}
       THEN /\ low' = Stored(t)
            /\ IF mode = "Eventual" THEN Goto(t, "invalidate") /\ UNCHANGED acked
               ELSE Goto(t, "idle") /\ Ack(t, low'[t])
       ELSE Goto(t, "got") /\ UNCHANGED ghostVars
    /\ UNCHANGED <<latest, mode, pinned, querySnapshot, snap, ops, cacheVars>>

\* The future of a cache fetch resolves; it stored what it read if that succeeded.
FetchResolve(f) ==
    /\ Cache!FetchResolve(f)
    /\ dataset' = IF result'[f] = Err THEN dataset ELSE Advanced(result'[f])
    /\ UNCHANGED <<mode, pinned, querySnapshot, taskVars, snap, ops, ghostVars>>

\* bg_cache.invalidate, the last call of update and of a reload.
Invalidate(t) ==
    /\ pc[t] = "invalidate"
    /\ Cache!Invalidate
    /\ Goto(t, "idle")
    /\ Ack(t, low[t])
    /\ UNCHANGED <<handleVars, snap, ops, low>>

-----------------------------------------------------------------------------
(* What the operations do with the dataset that get returned               *)

EndGet(t) ==
    /\ pc[t] = "got" /\ op[t] = "get"
    /\ Goto(t, "idle")
    /\ UNCHANGED <<latest, handleVars, snap, ops, ghostVars, cacheVars>>

\* Faulty variant: the snapshot keeps the dataset that get returned.
SampleReturned(t) ==
    /\ pc[t] = "got" /\ op[t] = "snapshot"
    /\ Goto(t, "idle")
    /\ snap' = [snap EXCEPT ![t] =
          [version |-> val[t], internal |-> querySnapshot \/ pinned = None]]
    /\ UNCHANGED <<latest, handleVars, ops, ghostVars, cacheVars>>

\* new_query_snapshot: version and provenance from one critical section.
Sample(t) ==
    /\ pc[t] = "got" /\ op[t] = "snapshot"
    /\ Goto(t, "idle")
    /\ snap' = [snap EXCEPT ![t] =
          [version |-> dataset, internal |-> querySnapshot \/ pinned = None]]
    /\ UNCHANGED <<latest, handleVars, ops, ghostVars, cacheVars>>

\* A write commits the next version, whatever version it read.
Commit(t) ==
    /\ pc[t] = "got" /\ op[t] \in {"write", "restore"}
    /\ latest < MaxVersion
    /\ latest' = latest + 1
    /\ Carry(t, IF op[t] = "write" THEN "update" ELSE "as_latest", latest')
    /\ UNCHANGED <<handleVars, snap, ops, ghostVars, cacheVars>>

\* Faulty variant: the cache is not invalidated after a write.
UpdateKeepsCache(t) ==
    /\ pc[t] = "update"
    /\ dataset' = Advanced(val[t])
    /\ low' = Stored(t)
    /\ Goto(t, "idle")
    /\ Ack(t, low'[t])
    /\ UNCHANGED <<latest, mode, pinned, querySnapshot, snap, ops, cacheVars>>

\* update, up to the invalidation; on a pinned handle it does nothing.
Update(t) ==
    /\ pc[t] = "update"
    /\ dataset' = Advanced(val[t])
    /\ low' = Stored(t)
    /\ IF pinned = None /\ mode = "Eventual"
       THEN Goto(t, "invalidate") /\ UNCHANGED acked
       ELSE Goto(t, "idle") /\ Ack(t, low'[t])
    /\ UNCHANGED <<latest, mode, pinned, querySnapshot, snap, ops, cacheVars>>

-----------------------------------------------------------------------------
(* as_latest, the rest of reload, and as_time_travel                       *)

\* checkout_latest reloads after as_latest; restore does not.
AfterAsLatest(t) == IF op[t] = "checkout_latest" THEN "reload" ELSE "idle"

AsLatest(t) ==
    /\ pc[t] = "as_latest"
    /\ Goto(t, IF pinned = None THEN AfterAsLatest(t) ELSE "latest_read")
    /\ UNCHANGED <<latest, handleVars, snap, ops, ghostVars, cacheVars>>

AsLatestRead(t) ==
    /\ pc[t] = "latest_read"
    /\ Carry(t, "latest_store", latest)
    /\ UNCHANGED <<latest, handleVars, snap, ops, ghostVars, cacheVars>>

\* Faulty variant: the handle is not checked again after the await.
AsLatestStoreUnchecked(t) ==
    /\ pc[t] = "latest_store"
    /\ dataset' = val[t] /\ pinned' = None /\ querySnapshot' = FALSE
    /\ Goto(t, IF mode = "Eventual" THEN "latest_invalidate" ELSE AfterAsLatest(t))
    /\ UNCHANGED <<latest, mode, snap, ops, ghostVars, cacheVars>>

AsLatestStore(t) ==
    /\ pc[t] = "latest_store"
    /\ IF pinned # None
       THEN dataset' = val[t] /\ pinned' = None /\ querySnapshot' = FALSE
       ELSE UNCHANGED <<dataset, pinned, querySnapshot>>
    /\ Goto(t, IF mode = "Eventual" THEN "latest_invalidate" ELSE AfterAsLatest(t))
    /\ UNCHANGED <<latest, mode, snap, ops, ghostVars, cacheVars>>

AsLatestInvalidate(t) ==
    /\ pc[t] = "latest_invalidate"
    /\ Cache!Invalidate
    /\ Goto(t, AfterAsLatest(t))
    /\ UNCHANGED <<handleVars, snap, ops, ghostVars>>

\* reload samples dataset and pin together; a pinned dataset is fetched again
\* only if it is not the pinned version.
Reload(t) ==
    /\ pc[t] = "reload"
    /\ CASE pinned = None    -> Goto(t, "refresh")
         [] pinned = dataset -> Goto(t, "idle")
         [] OTHER            -> Carry(t, "reload_store", pinned)
    /\ UNCHANGED <<latest, handleVars, snap, ops, ghostVars, cacheVars>>

\* Faulty variant: a checkout moves the dataset but forgets the pin.
StoreCheckoutUnpinned(t) ==
    /\ pc[t] = "checkout_store"
    /\ dataset' = val[t] /\ querySnapshot' = FALSE
    /\ acked' = 0 /\ low' = [x \in Task |-> 0]
    /\ Goto(t, "idle")
    /\ UNCHANGED <<latest, mode, pinned, snap, ops, cacheVars>>

\* The second critical section of as_time_travel, and of reload on a pin, which
\* stores its dataset only if the pin is still the one it sampled.
StoreCheckout(t) ==
    /\ pc[t] \in {"checkout_store", "reload_store"}
    /\ Goto(t, "idle")
    /\ IF pc[t] = "checkout_store"
       THEN /\ dataset' = val[t] /\ pinned' = val[t] /\ querySnapshot' = FALSE
            /\ acked' = 0 /\ low' = [x \in Task |-> 0]
       ELSE /\ dataset' = IF pinned = val[t] THEN val[t] ELSE dataset
            /\ UNCHANGED <<pinned, querySnapshot, ghostVars>>
    /\ UNCHANGED <<latest, mode, snap, ops, cacheVars>>

\* Any access to storage may fail; the error is returned before anything is stored.
StorageError(t) ==
    /\ \/ pc[t] \in {"refresh", "latest_read", "checkout_store", "reload_store"}
       \/ pc[t] = "got" /\ op[t] \in {"write", "restore"}
    /\ Goto(t, "idle")
    /\ UNCHANGED <<latest, handleVars, snap, ops, ghostVars, cacheVars>>

-----------------------------------------------------------------------------
(* The rest of the cache, and writers of the table that do not use this handle *)

CacheStep ==
    /\ mode = "Eventual"
    /\ Cache!Tick \/ \E f \in Fetch : Cache!FetchRead(f) \/ Cache!Publish(f)
    /\ UNCHANGED <<handleVars, taskVars, snap, ops, ghostVars>>

OtherCommit ==
    /\ latest < MaxVersion
    /\ latest' = latest + 1
    /\ UNCHANGED <<handleVars, taskVars, snap, ops, ghostVars, cacheVars>>

Next ==
    \/ \E t \in Task :
          \/ BeginGet(t) \/ BeginSnapshot(t) \/ BeginWrite(t)
          \/ BeginCheckoutLatest(t) \/ BeginReload(t) \/ BeginRestore(t)
          \/ \E v \in 0 .. latest, isTag \in BOOLEAN : BeginCheckout(t, v, isTag)
          \/ Get(t) \/ GetLazy(t) \/ TryGetCache(t) \/ GetFromCache(t)
          \/ RefreshRead(t) \/ RefreshStore(t) \/ Invalidate(t)
          \/ EndGet(t) \/ Sample(t) \/ Commit(t) \/ Update(t)
          \/ AsLatest(t) \/ AsLatestRead(t) \/ AsLatestStore(t) \/ AsLatestInvalidate(t)
          \/ Reload(t) \/ StoreCheckout(t) \/ StorageError(t)
    \/ \E f \in Fetch : FetchResolve(f)
    \/ CacheStep
    \/ OtherCommit

Spec == Init /\ [][Next]_vars

-----------------------------------------------------------------------------
(* Properties                                                              *)

\* A pinned handle shows exactly the version it is pinned to, whatever refresh,
\* update, as_latest or other checkout was in flight when it was pinned.
PinConsistent == pinned # None => dataset = pinned

\* Once a write (or a checkout_latest, or a reload) has returned, no operation
\* that begins later gets an older version, in any mode, until someone checks out
\* a version through the same handle.  In the Strong mode nothing older than the
\* newest version committed by anyone when the operation began is returned.
GetNotStale ==
    \A t \in Task : pc[t] = "got" => val[t] >= low[t]

\* A query snapshot is consistent with one instant of the handle: a snapshot of a
\* handle that a user pinned is that version and stays marked as the user's time
\* travel, even when the checkout raced with the get of new_query_snapshot.
SnapshotProvenance ==
    [][\A t \in Task : snap'[t] \notin {snap[t], None} =>
          IF pinned = None \/ querySnapshot
          THEN snap'[t].internal /\ snap'[t].version = dataset
          ELSE ~snap'[t].internal /\ snap'[t].version = pinned]_vars

\* The handle implements the abstract one: while tracking it never moves back,
\* and it moves only by the steps listed there.
Handle == INSTANCE TableHandle
HandleSpec == Handle!Spec

\* What restore asserts: the dataset it restores is the version it found pinned.
RestoresPinned ==
    \A t \in Task : pc[t] = "got" /\ op[t] = "restore" => val[t] = found[t]

-----------------------------------------------------------------------------
(* The inductive invariant behind PinConsistent and HandleSpec.            *)

\* The places from which a task stores the version it carries.
Storing == {"refresh_store", "update", "latest_store", "checkout_store", "reload_store"}

\* What is stored in the handle was committed before it was read.
HandleInv ==
    /\ mode \in Modes /\ latest \in Nat /\ dataset \in 0 .. latest /\ pinned \in {None, dataset}
    /\ pc \in [Task -> Locations]
    /\ val = [t \in Task |-> val[t]]
    /\ \A t \in Task : pc[t] \in Storing => val[t] \in 0 .. latest
    /\ stage = [f \in Fetch |-> stage[f]]
    /\ result \in [Fetch -> Nat \cup {None, Err}]
    /\ \A f \in Fetch : stage[f] = "read" => result[f] \in 0 .. latest

-----------------------------------------------------------------------------
(* The inductive invariant behind GetNotStale.                             *)

\* What operations were promised was committed; a tracking handle already shows
\* it, save what a Strong read has yet to fetch, and a checkout forgets it.
Promised ==
    /\ \A t \in Task : low[t] <= latest
    /\ pinned # None => acked = 0 /\ \A t \in Task : low[t] = 0
    /\ pinned = None => acked <= dataset
    /\ pinned = None /\ mode # "Strong" => \A t \in Task : low[t] <= dataset

\* How far each operation has come with its promise: what it carries keeps it, or
\* the cache will, since the promise is no newer than the invalidation the answer
\* of the cache is measured by.
PromiseKept ==
    /\ mode = "Eventual" => acked <= floor
    /\ \A t \in Task :
          /\ pc[t] \in {"refresh_store", "got"} => val[t] >= low[t]
          /\ pc[t] = "lazy" => mode = "Lazy"
          /\ pc[t] \in {"try_get", "cache_get", "invalidate"} => mode = "Eventual"
          /\ pc[t] \in {"get", "try_get"} /\ mode = "Eventual" => low[t] <= floor
          /\ pc[t] = "cache_get" =>
                low[t] <= IF call[t] = "idle" THEN floor ELSE asof[t]
          /\ call[t] # "idle" => pc[t] = "cache_get"

StaleInv == TypeOK /\ HandleInv /\ Cache!IInv /\ Promised /\ PromiseKept
=============================================================================
