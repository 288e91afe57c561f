--------------------------- MODULE RemoteFreshness ---------------------------
(***************************************************************************)
(* The freshness protocol of a remote table handle (remote/table.rs): the  *)
(* version selector, FreshnessState, and the headers that carry            *)
(* min_version, min_read_version and min_timestamp to the server.          *)
(*                                                                         *)
(* Tasks share one handle.  A request takes a snapshot of selector and     *)
(* freshness, travels, is served by any query node, and its response is    *)
(* recorded in the state only if the generation is still the one of the    *)
(* snapshot.  Checkouts hold the selector's write lock and change the      *)
(* freshness state and the selector one after the other; requests that do  *)
(* not read the selector take only the mutex of the freshness state.       *)
(*                                                                         *)
(* Versions start at 1, and 0 stands for an absent version, as it does in  *)
(* the code, which ignores a version of 0.  A timestamp is the newest      *)
(* version committed at that time.  The server is external: nodes cache a  *)
(* version and refresh when a request demands more.                        *)
(***************************************************************************)
EXTENDS Naturals

CONSTANTS
    Task,           \* concurrent users of the handle
    Node,           \* query nodes behind the load balancer
    None,           \* no selected version; nobody
    Intervals,      \* values of read_consistency_interval: "none", "zero", "positive"
    Origins,        \* what makes a handle: "open", "query_snapshot", "snapshot_at_current_version"
    MaxVersion,     \* bound on committed versions
    MaxGeneration   \* bound on checkouts

ASSUME HandleAssumption ==
    /\ Intervals \subseteq {"none", "zero", "positive"}
    /\ Origins \subseteq {"open", "query_snapshot", "snapshot_at_current_version"}
    /\ None \notin Nat /\ None \notin Task

VARIABLES
    latest,    \* server: the newest committed version
    node,      \* server: node[n] is the version cached by n
    interval,  \* read_consistency_interval of the connection
    version,   \* RemoteTable::version, the selector
    fresh,     \* RemoteTable::freshness
    lock,      \* the task that holds the selector's write lock, or None
    op, pc,    \* op[t], pc[t]: the operation of t and where it is
    req,       \* req[t]: the ReadSnapshot (or headers) t sent
    resp,      \* resp[t]: the version in the response to t
    seen,      \* ghost: newest version returned to the caller on this timeline
    due        \* ghost: due[t] is seen when the request of t took its snapshot,
               \* and once a job of t has run the version of its fill

vars == <<latest, node, interval, version, fresh, lock, op, pc, req, resp, seen, due>>
serverVars == <<latest, node, interval>>
ghostVars  == <<seen, due>>

FreshnessState == [generation: Nat, pinned: BOOLEAN, minVersion: Nat,
                   minRead: Nat, baseline: Nat]
Request == [version: Nat \cup {None}, generation: Nat, minVersion: Nat,
            minRead: Nat, minTimestamp: Nat]

Ops == {"none", "read", "write", "restore", "checkout", "checkout_latest", "job"}
Locations == {"idle", "prepare", "sent", "served", "track", "reset", "set", "running", "done"}

Max2(a, b) == IF a > b THEN a ELSE b

NoRequest == [version |-> None, generation |-> 0, minVersion |-> 0,
              minRead |-> 0, minTimestamp |-> 0]

\* FreshnessState::default for a handle of generation g.
DefaultState(g, pinned, baseline) ==
    [generation |-> g, pinned |-> pinned, minVersion |-> 0, minRead |-> 0,
     baseline |-> baseline]

TypeOK ==
    /\ latest \in Nat /\ node \in [Node -> Nat] /\ interval \in Intervals
    /\ version \in Nat \cup {None} /\ lock \in Task \cup {None}
    /\ fresh \in FreshnessState
    /\ op \in [Task -> Ops] /\ pc \in [Task -> Locations]
    /\ req \in [Task -> Request] /\ resp \in [Task -> Nat]
    /\ seen \in Nat /\ due \in [Task -> Nat]
    /\ \A t \in Task : pc[t] = "set" <=> lock = t

\* A handle made by open_table tracks the latest version; query_snapshot and
\* snapshot_at_current_version select the version they were made at, and only
\* the latter resets the freshness state.  Generations count from the moment the
\* handle is shared.
Init ==
    /\ latest = 1 /\ node = [n \in Node |-> 1]
    /\ interval \in Intervals
    /\ \E origin \in Origins :
          /\ version = IF origin = "open" THEN None ELSE 1
          /\ fresh = DefaultState(0, origin = "snapshot_at_current_version", 0)
    /\ lock = None
    /\ op = [t \in Task |-> "none"] /\ pc = [t \in Task |-> "idle"]
    /\ req = [t \in Task |-> NoRequest] /\ resp = [t \in Task |-> 0]
    /\ seen = 0 /\ due = [t \in Task |-> 0]

-----------------------------------------------------------------------------
(* Snapshots and updates of the freshness state                            *)

\* compute_min_timestamp; a positive interval reaches some way into the past.
Timestamps ==
    IF interval = "none" THEN {fresh.baseline}
    ELSE {Max2(t, fresh.baseline) : t \in IF interval = "zero" THEN {latest} ELSE 1 .. latest}

\* Faulty variant: a pinned handle still sends its constraints.
SnapshotsConstrained(selected) ==
    [version: {selected}, generation: {fresh.generation}, minVersion: {fresh.minVersion},
     minRead: {fresh.minRead}, minTimestamp: Timestamps]

\* freshness_state_snapshot: a pinned handle sends no constraint.
Snapshots(selected) ==
    IF fresh.pinned
    THEN {[NoRequest EXCEPT !.version = selected, !.generation = fresh.generation]}
    ELSE [version: {selected}, generation: {fresh.generation},
          minVersion: {fresh.minVersion}, minRead: {fresh.minRead},
          minTimestamp: Timestamps]

\* update_if_current: the generation the request of t carries is still the handle's.
IsCurrent(t) == req[t].generation = fresh.generation

\* observe_version.
Observed(t, v) ==
    IF IsCurrent(t) /\ v # 0 THEN [fresh EXCEPT !.minRead = Max2(@, v)] ELSE fresh

\* track_write_version.
Tracked(t, v) ==
    IF IsCurrent(t) /\ v # 0 THEN [fresh EXCEPT !.minVersion = Max2(@, v)] ELSE fresh

\* Faulty variant: a job that reports no version leaves no baseline.
CompletedUnreported(t, v) ==
    IF version = None THEN Observed(t, v) ELSE fresh

\* FreshnessJob::wait, once the job has ended with version v (0 if it reports none).
Completed(t, v) ==
    IF version # None THEN fresh
    ELSE IF v # 0 THEN Observed(t, v)
    ELSE IF IsCurrent(t) THEN [fresh EXCEPT !.baseline = latest]
    ELSE fresh

\* Ghost: the caller of t learns v, on the timeline its request belongs to.
Learn(t, v) == seen' = IF IsCurrent(t) THEN Max2(seen, v) ELSE seen

-----------------------------------------------------------------------------
(* Requests                                                                *)

Goto(t, l) == pc' = [pc EXCEPT ![t] = l] /\ UNCHANGED op

\* The operation of t ends, and what it carried with it.
End(t) ==
    /\ pc' = [pc EXCEPT ![t] = "idle"]
    /\ op' = [op EXCEPT ![t] = "none"]
    /\ req' = [req EXCEPT ![t] = NoRequest]
    /\ resp' = [resp EXCEPT ![t] = 0]
    /\ due' = [due EXCEPT ![t] = 0]

Begin(t, o, l) ==
    /\ pc[t] = "idle"
    /\ pc' = [pc EXCEPT ![t] = l]
    /\ op' = [op EXCEPT ![t] = o]

Send(t, selected) ==
    /\ \E r \in Snapshots(selected) : req' = [req EXCEPT ![t] = r]
    /\ due' = [due EXCEPT ![t] = seen]

\* snapshot_read_state holds the selector's read lock while it copies both.
BeginRead(t) ==
    /\ lock = None
    /\ Begin(t, "read", "sent")
    /\ Send(t, version)
    /\ UNCHANGED <<serverVars, version, fresh, lock, resp, seen>>

BeginRestore(t) ==
    /\ lock = None /\ version # None
    /\ Begin(t, "restore", "sent")
    /\ Send(t, version)
    /\ UNCHANGED <<serverVars, version, fresh, lock, resp, seen>>

\* check_mutable, for a write or for a job.
BeginWrite(t, o) ==
    /\ lock = None /\ version = None
    /\ Begin(t, o, "prepare")
    /\ UNCHANGED <<serverVars, version, fresh, lock, req, resp, ghostVars>>

\* A write takes its headers later, without looking at the selector again.
Prepare(t) ==
    /\ pc[t] = "prepare"
    /\ Goto(t, "sent")
    /\ Send(t, None)
    /\ UNCHANGED <<serverVars, version, fresh, lock, resp, seen>>

\* External: node n serves t.  A request for the latest version makes n refresh
\* if what it cached is older than the request demands.
Required(r) == Max2(r.minVersion, Max2(r.minRead, r.minTimestamp))

Serve(t, n) ==
    /\ pc[t] = "sent"
    /\ IF op[t] \in {"write", "restore"}
       THEN /\ latest < MaxVersion
            /\ latest' = latest + 1
            /\ resp' = [resp EXCEPT ![t] = latest']
            /\ UNCHANGED <<node, interval>>
       ELSE IF req[t].version # None
       THEN /\ resp' = [resp EXCEPT ![t] = req[t].version]
            /\ UNCHANGED serverVars
       ELSE /\ node' = [node EXCEPT ![n] = IF @ < Required(req[t]) THEN latest ELSE @]
            /\ resp' = [resp EXCEPT ![t] = node'[n]]
            /\ UNCHANGED <<latest, interval>>
    /\ Goto(t, "served")
    /\ UNCHANGED <<version, fresh, lock, req, ghostVars>>

\* The request or its response is lost, or the server answers with an error.
Fail(t) ==
    /\ pc[t] \in {"sent", "served"}
    /\ End(t)
    /\ UNCHANGED <<serverVars, version, fresh, lock, seen>>

\* send_with_retry sends a request whose response was lost again, with the headers
\* it had; a write may then be committed twice.
Retry(t) ==
    /\ pc[t] = "served"
    /\ Goto(t, "sent")
    /\ resp' = [resp EXCEPT ![t] = 0]
    /\ UNCHANGED <<serverVars, version, fresh, lock, req, ghostVars>>

\* The response of a read; an old server advertises no version.
EndRead(t) ==
    /\ pc[t] = "served" /\ op[t] = "read"
    /\ \/ fresh' = Observed(t, resp[t]) /\ Learn(t, resp[t])
       \/ UNCHANGED <<fresh, seen>>
    /\ End(t)
    /\ UNCHANGED <<serverVars, version, lock>>

\* The response of a write or a restore: first the advertised version.
Observe(t) ==
    /\ pc[t] = "served" /\ op[t] \in {"write", "restore"}
    /\ fresh' \in {Observed(t, resp[t]), fresh}
    /\ Goto(t, IF op[t] = "write" THEN "track" ELSE "reset")
    /\ UNCHANGED <<serverVars, version, lock, req, resp, ghostVars>>

\* A write then records the version of its result, 0 from an old server.
EndWrite(t) ==
    /\ pc[t] = "track"
    /\ \/ fresh' = Tracked(t, resp[t]) /\ Learn(t, resp[t])
       \/ UNCHANGED <<fresh, seen>>
    /\ End(t)
    /\ UNCHANGED <<serverVars, version, lock>>

-----------------------------------------------------------------------------
(* Server jobs (refresh_column_async, create_index_async): FreshnessJob    *)

\* The submission is answered; the job handle takes its headers only now.
SubmitJob(t) ==
    /\ pc[t] = "served" /\ op[t] = "job"
    /\ fresh' \in {Observed(t, resp[t]), fresh}
    /\ req' = [req EXCEPT ![t] = [NoRequest EXCEPT !.generation = fresh.generation]]
    /\ Goto(t, "running")
    /\ UNCHANGED <<serverVars, version, lock, resp, ghostVars>>

\* External: the job commits its fill, and may report the version.
RunJob(t) ==
    /\ pc[t] = "running" /\ latest < MaxVersion
    /\ latest' = latest + 1
    /\ resp' \in {[resp EXCEPT ![t] = latest'], [resp EXCEPT ![t] = 0]}
    /\ due' = [due EXCEPT ![t] = latest']
    /\ Goto(t, "done")
    /\ UNCHANGED <<node, interval, version, fresh, lock, req, seen>>

\* wait returns, under the selector's read lock.
EndJob(t) ==
    /\ pc[t] = "done" /\ lock = None
    /\ fresh' = Completed(t, resp[t])
    /\ IF version = None THEN Learn(t, due[t]) ELSE UNCHANGED seen
    /\ End(t)
    /\ UNCHANGED <<serverVars, version, lock>>

-----------------------------------------------------------------------------
(* Checkouts                                                               *)

\* checkout and checkout_tag validate the version without freshness headers.
BeginCheckout(t, v) ==
    /\ fresh.generation < MaxGeneration
    /\ Begin(t, "checkout", "reset")
    /\ req' = [req EXCEPT ![t] = [NoRequest EXCEPT !.version = v]]
    /\ UNCHANGED <<serverVars, version, fresh, lock, resp, ghostVars>>

BeginCheckoutLatest(t) ==
    /\ fresh.generation < MaxGeneration
    /\ Begin(t, "checkout_latest", "reset")
    /\ UNCHANGED <<serverVars, version, fresh, lock, req, resp, ghostVars>>

\* Faulty variant: the freshness state is reset without the selector's lock.
ResetUnlocked(t) ==
    /\ pc[t] = "reset"
    /\ LET baseline == IF op[t] = "checkout" THEN 0 ELSE latest IN
       /\ fresh' = DefaultState(fresh.generation + 1, op[t] = "checkout", baseline)
       /\ seen' = baseline
    /\ Goto(t, "set")
    /\ UNCHANGED <<serverVars, version, lock, req, resp, due>>

\* Under the selector's write lock: reset_freshness ...
Reset(t) ==
    /\ pc[t] = "reset" /\ lock = None
    /\ lock' = t
    /\ LET baseline == IF op[t] = "checkout" THEN 0 ELSE latest IN
       /\ fresh' = DefaultState(fresh.generation + 1, op[t] = "checkout", baseline)
       /\ seen' = baseline
    /\ Goto(t, "set")
    /\ UNCHANGED <<serverVars, version, req, resp, due>>

\* ... then the selector.
SetSelector(t) ==
    /\ pc[t] = "set"
    /\ version' = IF op[t] = "checkout" THEN req[t].version ELSE None
    /\ lock' = None
    /\ End(t)
    /\ UNCHANGED <<serverVars, fresh, seen>>

-----------------------------------------------------------------------------
(* External: nodes refresh when they like, other clients commit.           *)

RefreshNode(n) ==
    /\ node' = [node EXCEPT ![n] = latest]
    /\ UNCHANGED <<latest, interval, version, fresh, lock, op, pc, req, resp, ghostVars>>

OtherCommit ==
    /\ latest < MaxVersion
    /\ latest' = latest + 1
    /\ UNCHANGED <<node, interval, version, fresh, lock, op, pc, req, resp, ghostVars>>

Next ==
    \/ \E t \in Task :
          \/ BeginRead(t) \/ BeginRestore(t) \/ Prepare(t)
          \/ \E o \in {"write", "job"} : BeginWrite(t, o)
          \/ \E n \in Node : Serve(t, n)
          \/ Fail(t) \/ Retry(t) \/ EndRead(t) \/ Observe(t) \/ EndWrite(t)
          \/ SubmitJob(t) \/ RunJob(t) \/ EndJob(t)
          \/ \E v \in 1 .. latest : BeginCheckout(t, v)
          \/ BeginCheckoutLatest(t) \/ Reset(t) \/ SetSelector(t)
    \/ \E n \in Node : RefreshNode(n)
    \/ OtherCommit

Spec == Init /\ [][Next]_vars

-----------------------------------------------------------------------------
(* Properties                                                              *)

\* Monotonic reads, read-your-writes and checkout_latest, on whatever node serves:
\* a read of the latest version never returns less than what any read, write,
\* job or checkout_latest of the same timeline had returned when it began.
ReadsFresh ==
    \A t \in Task :
        pc[t] = "served" /\ op[t] = "read" /\ req[t].version = None => resp[t] >= due[t]

\* "Exact-version, tag, and snapshot handles must not carry latest-timeline
\* constraints": no request that names a version carries one, although selector
\* and freshness state are changed one after the other.
PinnedUnconstrained ==
    \A t \in Task :
        pc[t] = "sent" /\ req[t].version # None => Required(req[t]) = 0

\* Constraints can be met: the handle never demands a version that was not committed.
ConstraintsSatisfiable ==
    /\ fresh.minVersion <= latest /\ fresh.minRead <= latest /\ fresh.baseline <= latest

\* Whatever a request demands can be met, by both of the above.
ConstraintsMeetable == PinnedUnconstrained /\ ConstraintsSatisfiable

-----------------------------------------------------------------------------
(* The inductive invariant behind ReadsFresh and ConstraintsMeetable.      *)

\* Nobody has seen, selected or asks for a version that was not committed.
Committed ==
    /\ ConstraintsSatisfiable
    /\ seen <= latest /\ version \in {None} \cup 0 .. latest
    /\ \A n \in Node : node[n] <= latest
    /\ \A t \in Task : /\ resp[t] <= latest /\ due[t] <= latest
                       /\ req[t].version \in {None} \cup 0 .. latest
                       /\ pc[t] = "done" => resp[t] \in {0, due[t]}

\* A pinned handle has selected a version, except while a checkout is between
\* the reset and the selector: then the checkout will select the one it names.
PinnedSelects ==
    /\ lock = None /\ fresh.pinned => version # None
    /\ \A t \in Task :
          /\ pc[t] = "set" => (fresh.pinned <=> op[t] = "checkout")
          /\ pc[t] \in {"reset", "set"} /\ op[t] = "checkout" => req[t].version # None

\* The state of a handle that tracks the latest version demands all its callers
\* have seen on this timeline, and so does every read that is under way.
Covered ==
    /\ ~fresh.pinned =>
          seen <= Max2(fresh.minVersion, Max2(fresh.minRead, fresh.baseline))
    /\ \A t \in Task :
          /\ pc[t] = "prepare" => op[t] # "read"
          /\ pc[t] \in {"sent", "served"} /\ op[t] = "read" /\ req[t].version = None
                => due[t] <= Required(req[t])

FreshInv == TypeOK /\ Committed /\ PinnedSelects /\ Covered /\ ReadsFresh

\* For a handle that open_table or snapshot_at_current_version made: a selected
\* version is a pinned one, and a request that names it carries no constraint.
PinInv ==
    /\ lock = None /\ version # None => fresh.pinned
    /\ \A t \in Task :
          pc[t] \in {"sent", "served"} /\ req[t].version # None => Required(req[t]) = 0
=============================================================================
