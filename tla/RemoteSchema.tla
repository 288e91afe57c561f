----------------------------- MODULE RemoteSchema -----------------------------
(***************************************************************************)
(* The schema cache of a remote table handle (schema, fetch_schema and the *)
(* operations that invalidate it in remote/table.rs), composed with        *)
(* BackgroundCache.                                                        *)
(*                                                                         *)
(* schema() takes a snapshot of selector and freshness, asks the cache and, *)
(* on a miss, hands the cache a fetch that uses that snapshot; a fetch whose *)
(* timeline is over when it ends fails with SCHEMA_SELECTOR_CHANGED, and   *)
(* its callers start again.  A schema is (timeline, version), coded as one *)
(* number in that order; the timeline is the generation of the handle, of  *)
(* which every checkout begins a new one.                                  *)
(*                                                                         *)
(* The selector and FreshnessState::pinned change under one write lock, and *)
(* whoever reads the selector holds its read lock, so one Boolean stands   *)
(* for both.                                                               *)
(***************************************************************************)
EXTENDS Naturals

CONSTANTS
    Task, None, Err,
    TTL, RefreshWindow, Fetch, MaxTime, MaxGeneration,  \* of the cache
    MaxVersion,      \* bound on committed versions
    MaxCheckouts,    \* bound on checkouts
    MaxOps           \* bound on the operations the tasks begin

VARIABLES
    latest,       \* server: the newest version, each with a schema of its own
    timeline,     \* FreshnessState::generation
    pinned,       \* the selector names a version
    minVersion,   \* FreshnessState::min_version, 0 if none
    lock,         \* who holds the selector's write lock
    pc,           \* pc[t]: where task t is
    alter,        \* alter[t]: t is in a write that changes the schema
    snapshot,     \* snapshot[t]: timeline and min_version copied by t
    from,         \* from[f]: the snapshot that fetch f was given
    ops,          \* operations begun
    acked,        \* ghost: newest schema change that returned, as a schema
    due,          \* ghost: due[t] is acked when the call of t began
    state, generation, now, stage, fetchGen, result,
    call, waitFor, ret, floor, asof       \* the cache

cacheVars == <<state, generation, now, stage, fetchGen, result,
               call, waitFor, ret, floor, asof>>
handleVars == <<latest, timeline, pinned, minVersion, lock>>
ghostVars == <<acked, due>>
vars == <<latest, timeline, pinned, minVersion, lock, pc, alter, snapshot, from, ops, acked, due,
          state, generation, now, stage, fetchGen, result,
          call, waitFor, ret, floor, asof>>

Schema(t, v) == t * (MaxVersion + 1) + v
Timeline(s)  == s \div (MaxVersion + 1)

\* The oldest schema that a fetch of the cache might return is of no interest here.
Cache == INSTANCE BackgroundCache WITH source <- 0, Caller <- Task

Snapshot == [timeline: Nat, minVersion: Nat]

TypeOK ==
    /\ latest \in Nat /\ timeline \in Nat /\ pinned \in BOOLEAN /\ minVersion \in Nat
    /\ lock \in Task \cup {None}
    /\ pc \in [Task -> {"idle", "checked", "try", "get", "prepare", "send", "committed",
                       "track", "reset", "set"}]
    /\ alter \in [Task -> BOOLEAN]
    /\ snapshot \in [Task -> Snapshot] /\ from \in [Fetch -> Snapshot]
    /\ ops \in Nat /\ acked \in Nat /\ due \in [Task -> Nat]
    /\ \A t \in Task : pc[t] = "set" <=> lock = t

NoSnapshot == [timeline |-> 0, minVersion |-> 0]

Init ==
    /\ latest = 1 /\ timeline = 0 /\ pinned = FALSE /\ minVersion = 0 /\ lock = None
    /\ pc = [t \in Task |-> "idle"] /\ alter = [t \in Task |-> FALSE]
    /\ snapshot = [t \in Task |-> NoSnapshot]
    /\ from = [f \in Fetch |-> NoSnapshot]
    /\ ops = 0 /\ acked = 0 /\ due = [t \in Task |-> 0]
    /\ Cache!Untouched
    /\ state \in {Cache!Empty, Cache!Current(Schema(0, 1), now)}

-----------------------------------------------------------------------------
(* schema()                                                                *)

Goto(t, l) == pc' = [pc EXCEPT ![t] = l]

\* The operation of t ends, and what it carried with it.
End(t) ==
    /\ Goto(t, "idle")
    /\ alter' = [alter EXCEPT ![t] = FALSE]
    /\ snapshot' = [snapshot EXCEPT ![t] = NoSnapshot]

Begin(t, l) ==
    /\ pc[t] = "idle" /\ ops < MaxOps
    /\ ops' = ops + 1
    /\ Goto(t, l)

\* freshness_state_snapshot; a pinned handle sends no constraint.
TakeSnapshot(t) ==
    snapshot' = [snapshot EXCEPT ![t] =
        [timeline |-> timeline, minVersion |-> IF pinned THEN 0 ELSE minVersion]]

\* snapshot_read_state holds the selector's read lock.
BeginSchema(t) ==
    /\ lock = None
    /\ Begin(t, "try")
    /\ TakeSnapshot(t)
    /\ due' = [due EXCEPT ![t] = acked]
    /\ UNCHANGED <<handleVars, alter, from, acked, cacheVars>>

\* schema() has an answer: the caller gets it, or the write it is part of goes on.
Answer(t) == IF alter[t] THEN Goto(t, "prepare") /\ UNCHANGED <<alter, snapshot>> ELSE End(t)

\* schema_cache.try_get.
TryGet(t) ==
    /\ pc[t] = "try"
    /\ Cache!TryGet(t)
    /\ IF ret'[t] # None THEN Answer(t) ELSE Goto(t, "get") /\ UNCHANGED <<alter, snapshot>>
    /\ UNCHANGED <<handleVars, from, ops, ghostVars>>

\* schema_cache.get; whichever call starts a fetch gives it its own snapshot.  An
\* error is returned, or, if the selector changed, the loop begins again.
Get(t) ==
    /\ pc[t] = "get"
    /\ Cache!GetFast(t) \/ Cache!GetSlow(t) \/ Cache!GetDone(t)
    /\ from' = [f \in Fetch |-> IF stage'[f] = "running" /\ stage[f] # "running"
                                THEN snapshot[t] ELSE from[f]]
    /\ IF call'[t] # "idle" THEN UNCHANGED <<pc, alter, snapshot>>
       ELSE IF ret'[t] # Err THEN Answer(t)
       ELSE End(t) \/ (lock = None /\ Goto(t, "try") /\ TakeSnapshot(t) /\ UNCHANGED alter)
    /\ UNCHANGED <<handleVars, ops, ghostVars>>

\* Faulty variant: the timeline is not checked when the description arrives.
DescribeUnchecked(f) ==
    /\ stage[f] = "running"
    /\ stage' = [stage EXCEPT ![f] = "read"]
    /\ \E v \in (IF from[f].minVersion = 0 THEN 1 ELSE from[f].minVersion) .. latest :
          result' = [result EXCEPT ![f] = Schema(from[f].timeline, v)]
    /\ UNCHANGED <<handleVars, pc, alter, snapshot, from, ops, ghostVars>>
    /\ UNCHANGED <<state, generation, now, fetchGen, call, waitFor, ret, floor, asof>>

\* fetch_schema: a node answers with its version, no older than the snapshot
\* demands; a fetch whose timeline is over fails.
Describe(f) ==
    /\ stage[f] = "running"
    /\ stage' = [stage EXCEPT ![f] = "read"]
    /\ \E v \in (IF from[f].minVersion = 0 THEN 1 ELSE from[f].minVersion) .. latest :
          result' = [result EXCEPT ![f] =
              IF from[f].timeline = timeline THEN Schema(timeline, v) ELSE Err]
    /\ UNCHANGED <<handleVars, pc, alter, snapshot, from, ops, ghostVars>>
    /\ UNCHANGED <<state, generation, now, fetchGen, call, waitFor, ret, floor, asof>>

-----------------------------------------------------------------------------
(* What invalidates the cache                                              *)

\* checkout, checkout_tag and checkout_latest once the version is known.
BeginCheckout(t) ==
    /\ timeline < MaxCheckouts
    /\ Begin(t, "reset")
    /\ UNCHANGED <<handleVars, alter, snapshot, from, ghostVars, cacheVars>>

\* Under the selector's write lock: reset_freshness and the selector ...
Reset(t, pin) ==
    /\ pc[t] = "reset" /\ lock = None
    /\ lock' = t
    /\ timeline' = timeline + 1 /\ pinned' = pin /\ minVersion' = 0
    /\ Goto(t, "set")
    /\ UNCHANGED <<latest, alter, snapshot, from, ops, ghostVars, cacheVars>>

\* ... then invalidate_schema_cache, and the lock is released.
Release(t) ==
    /\ pc[t] = "set"
    /\ Cache!Invalidate
    /\ lock' = None
    /\ acked' = Schema(timeline, 0)
    /\ End(t)
    /\ UNCHANGED <<latest, timeline, pinned, minVersion, from, ops, due>>

\* A write that changes the schema (add_columns): check_mutable, ...
BeginAlter(t) ==
    /\ lock = None /\ ~pinned
    /\ Begin(t, "checked")
    /\ alter' = [alter EXCEPT ![t] = TRUE]
    /\ UNCHANGED <<handleVars, snapshot, from, ghostVars, cacheVars>>

\* ... a schema() of its own, ...
AlterSchema(t) ==
    /\ pc[t] = "checked" /\ lock = None
    /\ Goto(t, "try")
    /\ TakeSnapshot(t)
    /\ UNCHANGED <<handleVars, alter, from, ops, ghostVars, cacheVars>>

\* ... the headers of the request, taken without the selector's lock, ...
Prepare(t) ==
    /\ pc[t] = "prepare"
    /\ Goto(t, "send")
    /\ TakeSnapshot(t)
    /\ UNCHANGED <<handleVars, alter, from, ops, ghostVars, cacheVars>>

\* ... the server commits; an old server reports no version, and then the write
\* returns at once, ...
Alter(t) ==
    /\ pc[t] = "send" /\ latest < MaxVersion
    /\ latest' = latest + 1
    /\ \/ End(t)
       \/ /\ Goto(t, "committed")
          /\ snapshot' = [snapshot EXCEPT ![t].minVersion = latest']
          /\ UNCHANGED alter
    /\ UNCHANGED <<timeline, pinned, minVersion, lock, from, ops, ghostVars, cacheVars>>

\* ... the cache is invalidated, and after it the version is tracked.
InvalidateAltered(t) ==
    /\ pc[t] = "committed"
    /\ Cache!Invalidate
    /\ Goto(t, "track")
    /\ UNCHANGED <<handleVars, alter, snapshot, from, ops, ghostVars>>

TrackAltered(t) ==
    /\ pc[t] = "track"
    /\ End(t)
    /\ LET v == snapshot[t].minVersion IN
       IF snapshot[t].timeline = timeline
       THEN /\ minVersion' = IF v > minVersion THEN v ELSE minVersion
            /\ acked' = IF Schema(timeline, v) > acked THEN Schema(timeline, v) ELSE acked
       ELSE UNCHANGED <<minVersion, acked>>
    /\ UNCHANGED <<latest, timeline, pinned, lock, from, ops, due, cacheVars>>

\* The request of a write fails; a status that may be about the schema invalidates.
AlterFails(t) ==
    /\ pc[t] = "send"
    /\ Cache!Invalidate \/ UNCHANGED cacheVars
    /\ End(t)
    /\ UNCHANGED <<handleVars, from, ops, ghostVars>>

-----------------------------------------------------------------------------

CacheStep ==
    /\ Cache!Tick \/ \E f \in Fetch : Cache!FetchResolve(f) \/ Cache!Publish(f)
    /\ UNCHANGED <<handleVars, pc, alter, snapshot, from, ops, ghostVars>>

Next ==
    \/ \E t \in Task :
          \/ BeginSchema(t) \/ TryGet(t) \/ Get(t)
          \/ BeginCheckout(t) \/ (\E pin \in BOOLEAN : Reset(t, pin)) \/ Release(t)
          \/ BeginAlter(t) \/ AlterSchema(t) \/ Prepare(t) \/ Alter(t)
          \/ InvalidateAltered(t) \/ TrackAltered(t) \/ AlterFails(t)
    \/ \E f \in Fetch : Describe(f)
    \/ CacheStep

Spec == Init /\ [][Next]_vars

-----------------------------------------------------------------------------
(* Properties                                                              *)

\* A schema() call that began after a checkout had returned never gets the schema
\* of what was selected before, whoever started the fetch that answers it and
\* whatever snapshot that fetch was given.
SchemaFollowsCheckout ==
    \A t \in Task :
        pc[t] = "idle" /\ ret[t] \in Nat => Timeline(ret[t]) >= Timeline(due[t])

\* A value the cache holds belongs to the handle's timeline, except while a
\* checkout is between its reset of the freshness state and its invalidation.
CachedSchemaCurrent ==
    lock = None /\ state.entry # None => Timeline(state.entry.value) = timeline

\* "Provides read-your-write within a single handle: writes that return a version
\* update this, and reads send it": after a change of the schema has returned,
\* schema() returns that change.
SchemaReadsWrites ==
    \A t \in Task : pc[t] = "idle" /\ ret[t] \in Nat => ret[t] >= due[t]
=============================================================================
