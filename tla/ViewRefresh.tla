---------------------------- MODULE ViewRefresh ----------------------------
(***************************************************************************)
(* Full refresh of a materialized view (materialized_view/refresh.rs).     *)
(* Calls in several processes replace every fragment of the view by the    *)
(* result of its query at one version of the source.  Calls of one process *)
(* take turns under refresh_lock; calls of two processes meet only in the  *)
(* commit.  Meanwhile the source moves on, the view is compacted or        *)
(* indexed, and a handle of the view is checked out at an older version.   *)
(*                                                                         *)
(* A row of a result is <<call, k>>, a fragment a set of rows with an      *)
(* identity.                                                               *)
(***************************************************************************)
EXTENDS Integers, Sequences, FiniteSets, FiniteSetsExt

CONSTANTS
    MaxCalls,       \* bound: calls that refresh the view
    Processes,      \* bound: the processes they run in
    MaxSource,      \* bound: versions of the source
    MaxRows,        \* bound: fragments of a result
    MaxView         \* bound: versions of the view other writers commit on

VARIABLES
    source,         \* the latest version of the source
    view,           \* the versions of the view, oldest first
    home,           \* the process of a call, and so its lock and handle
    pin,            \* the version a process's handle is checked out at, or 0
    lock,           \* the call that holds refresh_lock in a process
    job             \* the progress of each call

viewVars == <<source, view, home, pin, lock, job>>

Calls == 1..MaxCalls
Nobody == 0

\* "latest" and "pinned" are execute_refresh; "given" is
\* replace_materialized_view_fragments, whose caller brings the result.
Kinds == <<"latest", "pinned", "given">>

Running == {"locking", "reload", "open", "stage", "commit"}
Returned == {"ok", "raced", "failed"}

Fragment(id, rows) == [id |-> id, rows |-> rows]
Top == view[Len(view)]
Ids(version) == {fragment.id : fragment \in version.frags}

Call(kind, pc) == [kind |-> kind, pc |-> pc, base |-> 0, src |-> 0, rows |-> {}]
Move(c, pc) == job' = [job EXCEPT ![c].pc = pc]

\* Calls are numbered by kind and processes by their calls: any other numbering
\* is the same state.
ViewInit ==
    /\ source = 1
    /\ view = <<[kind |-> "create", frags |-> {}, removed |-> {}, by |-> Nobody, src |-> 0]>>
    /\ home \in [Calls -> 1..Processes] /\ home[1] = 1
    /\ pin = [p \in 1..Processes |-> 0]
    /\ lock = [p \in 1..Processes |-> Nobody]
    /\ \E kind \in [Calls -> DOMAIN Kinds] :
          /\ \A c, d \in Calls : c < d => kind[c] <= kind[d]
          /\ job = [c \in Calls |-> Call(Kinds[kind[c]], "idle")]

-----------------------------------------------------------------------------
(* The steps of a refresh.                                                 *)

\* ensure_mutable; a given result is of some version up to now.
execute_refresh(c) ==
    /\ job[c].pc = "idle"
    /\ IF pin[home[c]] # 0 THEN Move(c, "failed")
       ELSE \E s \in 1..source :
              /\ job[c].kind = "latest" => s = source
              /\ job' = [job EXCEPT ![c].pc = "locking",
                                    ![c].src = IF job[c].kind = "latest" THEN 0 ELSE s]
    /\ UNCHANGED <<source, view, home, pin, lock>>

refresh_lock(c) ==
    /\ job[c].pc = "locking" /\ lock[home[c]] = Nobody
    /\ lock' = [lock EXCEPT ![home[c]] = c]
    /\ Move(c, "reload")
    /\ UNCHANGED <<source, view, home, pin>>

\* The version of the view the refresh replaces: the latest one, or the one
\* the handle was checked out at while the call waited.
reload(c) ==
    /\ job[c].pc = "reload"
    /\ job' = [job EXCEPT ![c].pc = IF job[c].kind = "given" THEN "stage" ELSE "open",
                          ![c].base = IF pin[home[c]] # 0 THEN pin[home[c]] ELSE Len(view)]
    /\ UNCHANGED <<source, view, home, pin, lock>>

\* Variant: the source was opened before the lock was taken.
OpenedEarly(c) ==
    /\ job[c].pc = "open"
    /\ \E s \in 1..source :
          job' = [job EXCEPT ![c].pc = "stage",
                             ![c].src = IF job[c].kind = "pinned" THEN @ ELSE s]
    /\ UNCHANGED <<source, view, home, pin, lock>>

\* The source is opened at its latest version and, for a pinned refresh,
\* checked out at the given one.
open_source(c) ==
    /\ job[c].pc = "open"
    /\ job' = [job EXCEPT ![c].pc = "stage",
                          ![c].src = IF job[c].kind = "pinned" THEN @ ELSE source]
    /\ UNCHANGED <<source, view, home, pin, lock>>

\* compute_stream, staged as fragments nobody sees; the result may be empty.
compute_stream(c, n) ==
    /\ job[c].pc = "stage"
    /\ job' = [job EXCEPT ![c].pc = "commit", ![c].rows = {<<c, k>> : k \in 1..n}]
    /\ UNCHANGED <<source, view, home, pin, lock>>

Removed(c) == Ids(view[job[c].base])

\* Variant: the transaction carries no token.
NoToken(version) == FALSE

\* refresh_conflict_filter: every refresh inserts the same key.
refresh_conflict_filter(version) == version.kind = "refresh"

\* External: the commit of an Update that removes fragments over a version
\* committed since it was read.
Conflicts(c, version) ==
    \/ refresh_conflict_filter(version)
    \/ version.removed \cap Removed(c) # {}

Conflicted(c) == \E v \in job[c].base + 1..Len(view) : Conflicts(c, view[v])

Release(c) == lock' = [p \in 1..Processes |-> IF lock[p] = c THEN Nobody ELSE lock[p]]

\* The commit, rebased over versions it does not conflict with; a rebased one
\* returns the error "a concurrent commit raced this refresh".  Otherwise the
\* handle takes the new version and the call returns it.
replace_fragments(c) ==
    /\ job[c].pc = "commit" /\ ~Conflicted(c)
    /\ LET kept == {fragment \in Top.frags : fragment.id \notin Removed(c)}
           new == {Fragment(<<Len(view) + 1, row[2]>>, {row}) : row \in job[c].rows}
       IN  view' = Append(view, [kind |-> "refresh", frags |-> kept \cup new,
                                 removed |-> Removed(c), by |-> c, src |-> job[c].src])
    /\ Move(c, IF Len(view) = job[c].base THEN "ok" ELSE "raced")
    /\ Release(c)
    /\ UNCHANGED <<source, home, pin>>

\* A conflict; a definition that no longer plans; an error of the store; or
\* the caller drops the call.  Nothing the call staged is visible.
RefreshFails(c) ==
    /\ job[c].pc \in Running
    /\ job' = [job EXCEPT ![c] = Call(job[c].kind, "failed")]
    /\ Release(c)
    /\ UNCHANGED <<source, view, home, pin>>

-----------------------------------------------------------------------------
(* Everyone else.  Writes to the view are refused (ensure_not_a_view).      *)

WriteSource ==
    /\ source < MaxSource
    /\ source' = source + 1
    /\ UNCHANGED <<view, home, pin, lock, job>>

Other(kind, frags, removed) ==
    /\ Len(view) < MaxView
    /\ view' = Append(view, [kind |-> kind, frags |-> frags, removed |-> removed,
                             by |-> Nobody, src |-> 0])
    /\ UNCHANGED <<source, home, pin, lock, job>>

CompactView ==
    /\ Top.frags # {}
    /\ Other("rewrite", {Fragment(<<Len(view) + 1, 1>>, UNION {f.rows : f \in Top.frags})}, Ids(Top))

\* An index or a configuration change.
AnnotateView == Other("other", Top.frags, {})

\* checkout on the handle of a process, while a call has yet to read it.
CheckoutView(p) ==
    /\ pin[p] = 0
    /\ \E v \in DOMAIN view : pin' = [pin EXCEPT ![p] = v]
    /\ \E c \in Calls : home[c] = p /\ job[c].pc \in {"idle", "locking", "reload"}
    /\ UNCHANGED <<source, view, home, lock, job>>

Refresh(c) ==
    \/ execute_refresh(c) \/ refresh_lock(c) \/ reload(c) \/ open_source(c)
    \/ \E n \in 0..MaxRows : compute_stream(c, n)
    \/ replace_fragments(c) \/ RefreshFails(c)

ViewNext ==
    \/ \E c \in Calls : Refresh(c)
    \/ WriteSource \/ CompactView \/ AnnotateView
    \/ \E p \in 1..Processes : CheckoutView(p)

ViewSpec == ViewInit /\ [][ViewNext]_viewVars

-----------------------------------------------------------------------------
ViewTypeOK ==
    /\ source \in 1..MaxSource
    /\ \A p \in 1..Processes :
          /\ pin[p] \in 0..Len(view)
          /\ lock[p] = Nobody \/ (home[lock[p]] = p /\ job[lock[p]].pc \in Running \ {"locking"})
    /\ \A c \in Calls :
          /\ job[c].pc \in Running \cup Returned \cup {"idle"}
          /\ job[c].base \in 0..Len(view) /\ job[c].src \in 0..MaxSource

\* At every version the view holds the whole result of the last refresh, each
\* row once (or nothing before the first), whatever refreshes of other processes,
\* compactions and index builds were committed while it ran ("atomically replaces
\* every fragment of the view").
ViewIsOneResult ==
    LET refreshes == {v \in DOMAIN view : view[v].kind = "refresh"}
        result == IF refreshes = {} THEN {} ELSE job[view[Max(refreshes)].by].rows
    IN  /\ UNION {fragment.rows : fragment \in Top.frags} = result
        /\ \A f, g \in Top.frags : f # g => f.rows \cap g.rows = {}

\* A refresh to the latest source never replaces the result of a newer source
\* version, although it reads the source long before it commits and another
\* process may refresh in between.
SourceNeverRegresses ==
    \A v, w \in DOMAIN view :
        v < w /\ view[w].kind = "refresh" /\ job[view[w].by].kind = "latest"
            => view[v].src <= view[w].src
=============================================================================
