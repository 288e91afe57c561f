-------------------------- MODULE ComputedColumns --------------------------
(***************************************************************************)
(* Filling a computed column of a native table (table/refresh.rs) and      *)
(* remembering from which input each fragment was filled                   *)
(* (table/freshness.rs).  The table is its log of manifests.  Writers      *)
(* append, rewrite, move, delete and compact rows; refreshers pin a        *)
(* version, compute the column over it, commit the values and then stamp   *)
(* the input signatures in a second commit; a cleanup drops old versions   *)
(* and the stamps' sidecar objects nobody references.                      *)
(*                                                                         *)
(* A row holds one input and one output.  A signature identifies the       *)
(* storage an input comes from, so it is the version that last wrote the   *)
(* inputs of the fragment.  A sidecar is named by the digest of its        *)
(* content, so it is the signature map itself.                             *)
(***************************************************************************)
EXTENDS Integers, Sequences, FiniteSets, FiniteSetsExt, SequencesExt, Functions

CONSTANTS
    Refreshers,     \* processes that call refresh_column
    Inputs,         \* values an input column can take
    Undefined,      \* the input the expression maps to null
    Supplied,       \* a value of the computed column nobody computed
    Null,           \* a row whose column is not filled
    MaxVersion      \* bound: versions of the table

VARIABLES
    history,        \* the manifests, by version
    oldest,         \* the oldest version cleanup kept
    tracked,        \* the column was declared with signatures
    sidecars,       \* the objects under _computed/
    refresh,        \* one refresh_column call per refresher
    prune           \* a cleanup between listing and deleting sidecars

vars == <<history, oldest, tracked, sidecars, refresh, prune>>

ASSUME ColumnsAssumption == Undefined \in Inputs /\ Null \notin Inputs \cup {Supplied}

Latest == Len(history)
EmptyMap == <<>>

\* The SQL expression of the column.
Expression(input) == IF input = Undefined THEN Null ELSE input

Row(input, output) == [input |-> input, output |-> output, live |-> TRUE]
Live(fragment) == {k \in DOMAIN fragment.rows : fragment.rows[k].live}
LiveRows(fragment) == SelectSeq(fragment.rows, LAMBDA row : row.live)

Concat(seqs) ==
    LET upTo[k \in 0..Len(seqs)] == IF k = 0 THEN <<>> ELSE upTo[k - 1] \o seqs[k]
    IN  upTo[Len(seqs)]

\* BTreeMap::extend.
Extend(entries, map) == entries @@ map
Retain(map, ids) == Restrict(map, DOMAIN map \cap ids)

Ascending(ids) ==
    [k \in 1..Cardinality(ids) |->
        CHOOSE id \in ids : Cardinality({other \in ids : other < id}) = k - 1]

-----------------------------------------------------------------------------
(* What a manifest says of the column.                                     *)

\* A map is inline when it is empty and a sidecar otherwise.
stored_signatures(manifest) ==
    IF manifest.stamp.absent THEN "absent"
    ELSE IF manifest.stamp.map = EmptyMap \/ manifest.stamp.map \in sidecars
         THEN "present" ELSE "unreadable"

signatures_for(manifest, ids) ==
    [id \in ids \cap DOMAIN manifest.frags |-> manifest.frags[id].sig]

\* Whether an append since the stamp created the fragment and its inputs did
\* not move after; "missing" when the version before that append is gone.
appended_untouched(appends, id, current) ==
    LET born == {v \in appends : /\ id \in DOMAIN history[v].frags
                                 /\ \/ v = oldest
                                    \/ id \notin DOMAIN history[v - 1].frags}
    IN  IF born = {} THEN "no"
        ELSE IF Max(born) = oldest THEN "missing"
        ELSE IF history[Max(born)].frags[id].sig = current THEN "yes" ELSE "no"

\* Offsets, in the concatenation of the products, of the rows that came from
\* the sources in `ids`.
Offsets(before, consumed, ids) ==
    LET end[k \in 0..Len(consumed)] ==
            IF k = 0 THEN 0 ELSE end[k - 1] + Cardinality(Live(before.frags[consumed[k]]))
    IN  UNION {end[k - 1] + 1 .. end[k] :
                  k \in {j \in DOMAIN consumed : consumed[j] \in ids}}

\* Whether the column holds a value at one of the offsets.
holds_values_in(after, produced, offsets) ==
    LET rows == Concat([k \in DOMAIN produced |-> after.frags[produced[k]].rows])
    IN  \E k \in offsets \cap DOMAIN rows : rows[k].output # Null

\* What one compaction hands on: nothing that was not fresh, and no row an
\* append supplied a value for.  "missing" when a version it needs is gone.
Handed(acc, v) ==
    LET before == history[v - 1]
        consumed == history[v].consumed
        status(id) ==
            LET current == before.frags[id].sig
            IN  IF id \in DOMAIN acc.fresh /\ acc.fresh[id] = current THEN "recorded"
                ELSE appended_untouched(acc.appends, id, current)
        stops == {k \in DOMAIN consumed : status(consumed[k]) \in {"no", "missing"}}
        appended == {id \in ToSet(consumed) : status(id) = "yes"}
    IN  IF v - 1 < oldest THEN "missing"
        ELSE IF stops # {} THEN status(consumed[Min(stops)])
        ELSE IF holds_values_in(history[v], history[v].produced,
                                Offsets(before, consumed, appended)) THEN "no"
        ELSE "yes"

\* Variant: the products are not followed through a second compaction.
CarryOnce(acc, v) ==
    LET product == signatures_for(history[v], ToSet(history[v].produced))
    IN  CASE Handed(acc, v) = "missing" -> [acc EXCEPT !.failed = TRUE]
          [] Handed(acc, v) = "no" -> acc
          [] Handed(acc, v) = "yes" -> [acc EXCEPT !.inherited = Extend(product, @)]

\* One compaction of the log since the stamp.
CarryCompaction(acc, v) ==
    LET product == signatures_for(history[v], ToSet(history[v].produced))
    IN  CASE Handed(acc, v) = "missing" -> [acc EXCEPT !.failed = TRUE]
          [] Handed(acc, v) = "no" -> acc
          [] Handed(acc, v) = "yes" ->
               [acc EXCEPT !.fresh = Extend(product, @), !.inherited = Extend(product, @)]

CarryStep(acc, v) ==
    IF acc.failed \/ v < oldest THEN acc
    ELSE IF history[v].kind = "append" THEN [acc EXCEPT !.appends = @ \cup {v}]
    ELSE IF history[v].kind = "rewrite" THEN CarryCompaction(acc, v)
    ELSE acc

carried_forward(at) ==
    LET stamp == history[at].stamp
        upTo[v \in stamp.recordedAt..at] ==
            IF v = stamp.recordedAt
            THEN [fresh |-> stamp.map, inherited |-> EmptyMap, appends |-> {}, failed |-> FALSE]
            ELSE CHOOSE next \in {CarryStep(acc, v) : acc \in {upTo[v - 1]}} : TRUE
    IN  upTo[at]

staleness_against(at) ==
    LET manifest == history[at]
        ids == DOMAIN manifest.frags
        stored == manifest.stamp.map
        carried == IF ids \subseteq DOMAIN stored
                   THEN [inherited |-> EmptyMap, failed |-> FALSE] ELSE carried_forward(at)
        known == Extend(stored, carried.inherited)
        dirty == {id \in ids : \/ id \notin DOMAIN known
                               \/ known[id] # manifest.frags[id].sig}
    IN  CASE stored_signatures(manifest) = "absent" ->
               [failed |-> FALSE, dirty |-> {}, inherited |-> EmptyMap]
          [] stored_signatures(manifest) = "unreadable" ->
               [failed |-> FALSE, dirty |-> ids, inherited |-> EmptyMap]
          [] OTHER ->
               [failed |-> carried.failed, dirty |-> dirty,
                inherited |-> Retain(carried.inherited, ids \ dirty)]

-----------------------------------------------------------------------------
(* The writers.                                                            *)

Idle == [pc |-> "idle", pinned |-> 0, base |-> 0, inherited |-> EmptyMap,
         computed |-> EmptyMap, fills |-> EmptyMap, map |-> EmptyMap]

Manifest(kind, frags) ==
    [kind |-> kind, frags |-> frags, stamp |-> history[Latest].stamp,
     consumed |-> <<>>, produced |-> <<>>]

\* Who acts beside the writers.
Actors(callers, cleaning) ==
    /\ refresh = [r \in Refreshers |->
          IF r \in callers THEN Idle ELSE [Idle EXCEPT !.pc = "away"]]
    /\ prune = [pc |-> IF cleaning THEN "idle" ELSE "done", listed |-> {}, unreferenced |-> {}]

\* A table of n fragments of one row, with or without a value, under a stamp.
Table(n, input, output, stamp) ==
    /\ history = <<[kind |-> "create", stamp |-> stamp, consumed |-> <<>>, produced |-> <<>>,
                    frags |-> [id \in {1 + k * MaxVersion : k \in 0..n - 1} |->
                                  [sig |-> 1, rows |-> <<Row(input, output)>>]]]>>
    /\ sidecars = {stamp.map} \ {EmptyMap}
    /\ tracked = ~stamp.absent
    /\ oldest = 1

Stamp(map) == [absent |-> FALSE, map |-> map, recordedAt |-> 1]

\* The column is declared, which leaves the empty map; or filled and stamped;
\* or it was filled before signatures existed and has no map.  Two refreshers
\* run, or one beside a cleanup, or, for a column without a map, one.
Init ==
    \E input \in Inputs \ {Undefined}, callers \in SUBSET Refreshers, cleaning \in BOOLEAN :
        /\ Actors(callers, cleaning)
        /\ \/ /\ Cardinality(callers) = (IF cleaning THEN 1 ELSE 2)
              /\ \/ Table(1, input, Null, Stamp(EmptyMap))
                 \/ Table(2, input, Expression(input),
                          Stamp([id \in {1, 1 + MaxVersion} |-> 1]))
           \/ /\ Cardinality(callers) = 1 /\ ~cleaning
              /\ Table(1, input, Expression(input), [Stamp(EmptyMap) EXCEPT !.absent = TRUE])

Commit(manifest) ==
    /\ Latest < MaxVersion
    /\ history' = Append(history, manifest)

Others == UNCHANGED <<oldest, tracked, sidecars, refresh, prune>>
Frags == history[Latest].frags
NextVersion == Latest + 1

\* add leaves the column null; an append by another writer of the format may
\* supply a value.
AppendRows(input, output) ==
    /\ Commit(Manifest("append",
          Frags @@ (NextVersion :> [sig |-> NextVersion, rows |-> <<Row(input, output)>>])))
    /\ Others

\* A write that replaces the input column's files of a fragment, or overlays
\* them.
RewriteInputs(id, input) ==
    /\ \E k \in Live(Frags[id]) : Frags[id].rows[k].input # input
    /\ Commit(Manifest("other",
          [Frags EXCEPT ![id] = [sig |-> NextVersion,
              rows |-> [k \in DOMAIN @.rows |-> [@.rows[k] EXCEPT !.input = input]]]]))
    /\ Others

WithoutRow(id, k) == [Frags EXCEPT ![id].rows[k].live = FALSE]
NonEmpty(frags) == Restrict(frags, {id \in DOMAIN frags : Live(frags[id]) # {}})

\* The row is rewritten to a new fragment with its new input and its old output.
execute_update(id, k, input) ==
    /\ Frags[id].rows[k].input # input
    /\ Commit(Manifest("other",
          NonEmpty(WithoutRow(id, k))
          @@ (NextVersion :> [sig |-> NextVersion, rows |-> <<Row(input, Frags[id].rows[k].output)>>])))
    /\ Others

execute_delete(id, k) ==
    /\ Commit(Manifest("other", NonEmpty(WithoutRow(id, k))))
    /\ Others

\* The sources' live rows, in order, in one new fragment or in two.
compact_files_impl(ids, split) ==
    /\ Cardinality(ids) > 1 \/ \E id \in ids : Live(Frags[id]) # DOMAIN Frags[id].rows
    /\ LET consumed == Ascending(ids)
           rows == Concat([k \in DOMAIN consumed |-> LiveRows(Frags[consumed[k]])])
           fragment(part) == [sig |-> NextVersion, rows |-> part]
           products == IF split
                       THEN (NextVersion :> fragment(SubSeq(rows, 1, 1)))
                            @@ (NextVersion + MaxVersion :> fragment(SubSeq(rows, 2, Len(rows))))
                       ELSE NextVersion :> fragment(rows)
       IN  /\ split => Len(rows) > 1
           /\ Commit([Manifest("rewrite", Restrict(Frags, DOMAIN Frags \ ids) @@ products)
                      EXCEPT !.consumed = consumed,
                             !.produced = Ascending(DOMAIN products)])
    /\ Others

-----------------------------------------------------------------------------
(* refresh_column.                                                         *)

\* Variant: a dirty fragment's values are kept.
FillNullsOnly(fragment, recompute) ==
    [k \in DOMAIN fragment.rows |->
        LET row == fragment.rows[k]
        IN  IF row.live /\ row.output = Null THEN Expression(row.input) ELSE row.output]

\* The column over one fragment: every live row of a dirty fragment is
\* computed anew, otherwise only the rows without a value.
fill_stream(fragment, recompute) ==
    [k \in DOMAIN fragment.rows |->
        LET row == fragment.rows[k]
        IN  IF row.live /\ (recompute \/ row.output = Null)
            THEN Expression(row.input) ELSE row.output]

Unfilled(fragment) == {k \in Live(fragment) : fragment.rows[k].output = Null}

count_fragment_gains(fragment) ==
    Cardinality({k \in Unfilled(fragment) : Expression(fragment.rows[k].input) # Null})

\* Pin the version the handle shows, decide what is stale in it and compute
\* the column over it.
Plan(r) ==
    /\ refresh[r].pc = "idle"
    /\ LET at == Latest
           staleness == staleness_against(at)
           frags == history[at].frags
           staged == {id \in DOMAIN frags :
                        id \in staleness.dirty \/ count_fragment_gains(frags[id]) > 0}
           whole == {id \in staged : \/ id \in staleness.dirty
                                     \/ Unfilled(frags[id]) = Live(frags[id])}
       IN  /\ ~staleness.failed
           /\ refresh' = [refresh EXCEPT ![r] =
                [pc |-> IF staged = {} THEN "record" ELSE "commit",
                 pinned |-> at, base |-> at, inherited |-> staleness.inherited,
                 computed |-> [id \in whole |-> frags[id].sig],
                 fills |-> [id \in staged |-> fill_stream(frags[id], id \in staleness.dirty)],
                 map |-> EmptyMap]]
    /\ UNCHANGED <<history, oldest, tracked, sidecars, prune>>

\* External: a data replacement commits over later versions unless one of them
\* replaced the column of the same fragments or removed a fragment.
Rebases(r) ==
    /\ refresh[r].pinned >= oldest - 1
    /\ DOMAIN refresh[r].fills \subseteq DOMAIN Frags
    /\ \A v \in (refresh[r].pinned + 1)..Latest :
          history[v].kind = "replace" => \A id \in DOMAIN refresh[r].fills :
              id \notin ToSet(history[v].produced)

Filled(frags, fills) ==
    [id \in DOMAIN frags |->
        IF id \in DOMAIN fills
        THEN [frags[id] EXCEPT !.rows =
                [k \in DOMAIN @ |-> [@[k] EXCEPT !.output = fills[id][k]]]]
        ELSE frags[id]]

\* The commit of the values.
CommitValues(r) ==
    /\ refresh[r].pc = "commit"
    /\ Rebases(r)
    /\ Commit([Manifest("replace", Filled(Frags, refresh[r].fills))
               EXCEPT !.produced = Ascending(DOMAIN refresh[r].fills)])
    /\ refresh' = [refresh EXCEPT ![r].pc = "record", ![r].base = NextVersion]
    /\ UNCHANGED <<oldest, tracked, sidecars, prune>>

\* What the refresh has to record: the fragments it computed in full and those
\* it found carried forward, or every pinned one if the column has no map yet.
Entries(r) ==
    LET pinned == history[refresh[r].pinned]
    IN  Extend(refresh[r].computed,
               IF history[refresh[r].base].stamp.absent
               THEN signatures_for(pinned, DOMAIN pinned.frags)
               ELSE refresh[r].inherited)

\* Variant: the fragments are signed as the values landed, not as they were read.
SignedAtLanding(r) == signatures_for(history[refresh[r].base], DOMAIN Entries(r))

\* The entries the version the values landed at still agrees with.
Verified(r) ==
    LET current == signatures_for(history[refresh[r].base], DOMAIN Entries(r))
    IN  Restrict(current, {id \in DOMAIN current : current[id] = Entries(r)[id]})

Return(r) == refresh' = [refresh EXCEPT ![r] = Idle]

\* Merge the entries into the stored map and put the sidecar, if there is
\* anything to record.
record_freshness(r) ==
    /\ refresh[r].pc = "record"
    /\ LET latest == history[refresh[r].base]
           stored == IF stored_signatures(latest) = "present" THEN latest.stamp.map ELSE EmptyMap
           merged == Retain(Extend(Verified(r), stored), DOMAIN latest.frags)
       IN  IF Entries(r) = EmptyMap /\ ~latest.stamp.absent
           THEN Return(r) /\ UNCHANGED sidecars
           ELSE /\ sidecars' = sidecars \cup ({merged} \ {EmptyMap})
                /\ refresh' = [refresh EXCEPT ![r].pc = "stamp", ![r].map = merged]
    /\ UNCHANGED <<history, oldest, tracked, prune>>

\* Variant: the stamp says it describes the version it lands at.
DescribesItself(base) == NextVersion

\* The version whose fragments the map describes.
Describes(base) == base

\* The commit of the stamp.  External: it fails if the column's metadata
\* changed since.  The refresh has succeeded either way.
write_signatures(r) ==
    /\ refresh[r].pc = "stamp"
    /\ LET base == refresh[r].base
       IN  IF base >= oldest - 1 /\ \A v \in (base + 1)..Latest : history[v].kind # "stamp"
           THEN Commit([Manifest("stamp", Frags) EXCEPT !.stamp =
                          [absent |-> FALSE, map |-> refresh[r].map,
                           recordedAt |-> Describes(base)]])
           ELSE UNCHANGED history
    /\ Return(r)
    /\ UNCHANGED <<oldest, tracked, sidecars, prune>>

\* A lost commit race, an error of the store or a crash, at any point.
RefreshFails(r) ==
    /\ refresh[r].pc \notin {"idle", "away"}
    /\ refresh' = [refresh EXCEPT ![r] = Idle]
    /\ UNCHANGED <<history, oldest, tracked, sidecars, prune>>

-----------------------------------------------------------------------------
(* cleanup_old_versions.                                                   *)

\* A sidecar young enough to belong to a stamp in flight.
InFlight == {refresh[r].map : r \in {q \in Refreshers : refresh[q].pc = "stamp"}}

\* External: the versions before `keep` go, never the latest one.  Then the
\* sidecars are listed, the young ones only on request.
cleanup_old_versions(keep, delete_unverified) ==
    /\ prune.pc = "idle"
    /\ keep \in {oldest, Latest}
    /\ oldest' = keep
    /\ LET listed == IF delete_unverified THEN sidecars ELSE sidecars \ InFlight
       IN  prune' = [prune EXCEPT !.pc = IF listed = {} THEN "done" ELSE "list", !.listed = listed]
    /\ UNCHANGED <<history, tracked, sidecars, refresh>>

referenced_digests ==
    /\ prune.pc = "list"
    /\ prune' = [pc |-> "delete", listed |-> {},
                 unreferenced |-> prune.listed \ {history[v].stamp.map : v \in oldest..Latest}]
    /\ UNCHANGED <<history, oldest, tracked, sidecars, refresh>>

prune_sidecars ==
    /\ prune.pc = "delete"
    /\ sidecars' = sidecars \ prune.unreferenced
    /\ prune' = [pc |-> "done", listed |-> {}, unreferenced |-> {}]
    /\ UNCHANGED <<history, oldest, tracked, refresh>>

-----------------------------------------------------------------------------
Write ==
    \/ \E input \in Inputs : AppendRows(input, Null)
    \/ \E input \in Inputs \ {Undefined} : AppendRows(input, Supplied)
    \/ \E id \in DOMAIN Frags :
          \/ \E input \in Inputs : RewriteInputs(id, input)
          \/ \E k \in Live(Frags[id]) :
                execute_delete(id, k) \/ \E input \in Inputs : execute_update(id, k, input)
    \/ \E ids \in SUBSET DOMAIN Frags, split \in BOOLEAN : compact_files_impl(ids, split)

Next ==
    \/ Latest < MaxVersion /\ Write
    \/ \E r \in Refreshers :
          \/ Plan(r) \/ CommitValues(r) \/ record_freshness(r) \/ write_signatures(r) \/ RefreshFails(r)
    \/ \E keep \in 1..MaxVersion, unverified \in BOOLEAN : cleanup_old_versions(keep, unverified)
    \/ referenced_digests
    \/ prune_sidecars

Spec == Init /\ [][Next]_vars

-----------------------------------------------------------------------------
(* Properties.                                                             *)

\* Fragments, stamps and the state of the refreshers have the shape the code
\* gives them, and a stamp describes a version before its own.
TypeOK ==
    /\ Latest \in 1..MaxVersion /\ oldest \in 1..Latest
    /\ \A v \in 1..Latest :
          /\ \A id \in DOMAIN history[v].frags :
                /\ history[v].frags[id].sig \in 1..v
                /\ Len(history[v].frags[id].rows) \in 1..MaxVersion
          /\ v > 1 => history[v].stamp.recordedAt \in 1..v - 1
          /\ IsInjective(history[v].consumed) /\ IsInjective(history[v].produced)
    /\ \A r \in Refreshers :
          /\ refresh[r].pc \in {"away", "idle", "commit", "record", "stamp"}
          /\ refresh[r].pinned <= refresh[r].base /\ refresh[r].base <= Latest
    /\ prune.pc \in {"idle", "list", "delete", "done"}

Current(row) == row.output = Expression(row.input)
CurrentOrUnfilled(row) == row.output = Null \/ Current(row)

\* What a refresh would not recompute is right: in a fragment the latest
\* manifest's stamp calls fresh, every value is the expression over the inputs
\* the fragment holds now, whatever writes, compactions, concurrent refreshes,
\* failures and cleanups came in between.
FreshMeansCurrent ==
    LET staleness == staleness_against(Latest)
    IN  (tracked /\ ~staleness.failed) =>
           \A id \in DOMAIN Frags \ staleness.dirty :
              \A k \in Live(Frags[id]) : CurrentOrUnfilled(Frags[id].rows[k])

\* A refresh that has committed its values has filled the column: every row of
\* the pinned version whose inputs did not move under the commit holds the
\* value of the expression.  A column from before signatures only promises that
\* no row is left without its value.
RefreshFills ==
    \A r \in Refreshers : refresh[r].pc = "record" =>
        LET pinned == history[refresh[r].pinned].frags
            landed == history[refresh[r].base].frags
        IN  \A id \in DOMAIN pinned \cap DOMAIN landed : pinned[id].sig = landed[id].sig =>
               \A k \in Live(landed[id]) :
                  \/ Current(landed[id].rows[k])
                  \/ ~tracked /\ landed[id].rows[k].output # Null

Clean(at) == ~staleness_against(at).failed /\ staleness_against(at).dirty = {}

\* A compaction recomputes nothing: a table whose fragments are all fresh stays
\* so when some of them are rewritten into others, as long as the versions
\* since the stamp are there to be followed.
CompactionKeepsFreshness ==
    [][ (/\ Latest' = Latest + 1 /\ history'[Latest'].kind = "rewrite"
         /\ ~history[Latest].stamp.absent /\ oldest <= history[Latest].stamp.recordedAt
         /\ Clean(Latest))
        => Clean(Latest)' ]_vars

\* "the unknown recomputes like every other unknown here" (freshness.rs): what
\* cleanup removed from the log may cost a recompute, never the refresh itself.
AlwaysRefreshable == ~staleness_against(Latest).failed

=============================================================================
