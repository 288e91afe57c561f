----------------------------- MODULE TableHandle -----------------------------
(***************************************************************************)
(* What a table handle promises about the version it shows, without locks, *)
(* caches or awaits: a handle either tracks the latest version or is       *)
(* pinned to one.  Tracking, it only moves forward; pinned, it does not    *)
(* move at all; it shows only versions that were committed.                *)
(***************************************************************************)
EXTENDS Naturals

CONSTANT None    \* not pinned; no version

VARIABLES
    latest,   \* the newest committed version
    dataset,  \* the version the handle shows
    pinned    \* the version the handle is pinned to, or None

vars == <<latest, dataset, pinned>>

Init ==
    /\ latest \in Nat
    /\ dataset \in 0 .. latest
    /\ pinned \in {None, dataset}

\* Someone, through this handle or not, commits a version.
Commit ==
    /\ latest' = latest + 1
    /\ UNCHANGED <<dataset, pinned>>

\* A tracking handle moves forward.
Advance ==
    /\ pinned = None
    /\ dataset' \in dataset .. latest
    /\ UNCHANGED <<latest, pinned>>

Checkout ==
    /\ dataset' \in 0 .. latest
    /\ pinned' = dataset'
    /\ UNCHANGED latest

CheckoutLatest ==
    /\ pinned # None
    /\ pinned' = None
    /\ dataset' \in 0 .. latest
    /\ UNCHANGED latest

Next == Commit \/ Advance \/ Checkout \/ CheckoutLatest

Spec == Init /\ [][Next]_vars
=============================================================================
