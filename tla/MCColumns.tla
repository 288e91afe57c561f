----------------------------- MODULE MCColumns -----------------------------
(* TLC instance of the two ways derived data is refreshed: ComputedColumns  *)
(* (two refreshers, or one and a cleanup) and ViewRefresh (two calls in one *)
(* or two processes).  They share no state: "model" says which one runs,    *)
(* the other rests.                                                         *)
EXTENDS ComputedColumns, TLC

CONSTANTS MaxCalls, Processes, MaxSource, MaxRows, MaxView

VARIABLES model, source, view, home, pin, lock, job

V == INSTANCE ViewRefresh

views == <<source, view, home, pin, lock, job>>

Symmetry == Permutations(Refreshers)

MCInit ==
    \/ /\ model = "column" /\ Init
       /\ source = 1 /\ view = <<>> /\ home = <<>> /\ pin = <<>> /\ lock = <<>> /\ job = <<>>
    \/ /\ model = "view" /\ V!ViewInit
       /\ Actors({}, FALSE)
       /\ \E input \in Inputs \ {Undefined} : Table(0, input, Null, Stamp(EmptyMap))

MCNext == \/ model = "column" /\ Next /\ UNCHANGED <<model, views>>
          \/ model = "view" /\ V!ViewNext /\ UNCHANGED <<model, vars>>

MCSpec == MCInit /\ [][MCNext]_<<model, vars, views>>

\* The type invariants of both.
BothTypesOK == IF model = "view" THEN V!ViewTypeOK ELSE TypeOK

\* The view holds the whole result of one refresh.
ViewIsOneResult == model = "view" => V!ViewIsOneResult

\* A refresh to the latest source does not take the view back to an older one.
SourceNeverRegresses == model = "view" => V!SourceNeverRegresses
=============================================================================
