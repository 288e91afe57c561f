--------------------------- MODULE MemWalCheckpoint ---------------------------
(***************************************************************************)
(* checkpoint_memwal (table/checkpoint.rs): freeze the memtables once, fix *)
(* the newest SSTable generation of each shard as its target, then trigger *)
(* compaction and poll until nothing at or below the targets is left.      *)
(*                                                                         *)
(* The client is modelled statement by statement.  The server is external, *)
(* modelled from what the client relies on: shards with a memtable and     *)
(* numbered SSTables, a claim that a crash loses and only flush regains, a  *)
(* latch per shard that a compaction pass holds, and passes that merge the *)
(* oldest SSTable into the base table.  Other clients write, freeze and    *)
(* compact at the same time.  The unit of data is a batch of rows.         *)
(***************************************************************************)
EXTENDS FiniteSets, Integers, FiniteSetsExt

CONSTANTS
    Shard, Batch,
    ShardOf,       \* ShardOf[b]: the shard a batch belongs to
    MAX_REISSUES,  \* 3 in the code
    MAX_RETRIES,   \* 8 in the code
    MaxCrashes,    \* bound on lost claims
    MaxFaults      \* bound on other faults

VARIABLES
    place,       \* place[b]: "none", "memtable", "sstable" or "base"
    gen,         \* gen[b]: the generation of the SSTable that holds b
    current,     \* current[s]: the generation the next SSTable of s gets
    latch,       \* latch[s]: a compaction pass owns s
    claimed,     \* the node holds its claim on the table
    walBacked,   \* the table has a MemWAL
    crashes, faults,
    pc,          \* where the client is
    reissue, retries,  \* the loop counters
    targets,     \* targets[s], 0 if s has no target
    start,       \* ghost: what was written when the call began
    lost         \* ghost: how often this call was told that the claim is lost

serverVars == <<place, gen, current, latch, claimed, walBacked>>
vars == <<place, gen, current, latch, claimed, walBacked, crashes, faults,
          pc, reissue, retries, targets, start, lost>>

Running == {"flush", "stats", "poll", "compact"}
Ended   == {"ok", "error", "claim_lost"}

TypeOK ==
    /\ place \in [Batch -> {"none", "memtable", "sstable", "base"}]
    /\ gen \in [Batch -> Nat] /\ current \in [Shard -> Nat]
    /\ latch \in [Shard -> BOOLEAN] /\ claimed \in BOOLEAN /\ walBacked \in BOOLEAN
    /\ crashes \in 0 .. MaxCrashes /\ faults \in 0 .. MaxFaults
    /\ pc \in {"start"} \cup Running \cup Ended
    /\ reissue \in 0 .. MAX_REISSUES /\ retries \in 0 .. MAX_RETRIES
    /\ targets \in [Shard -> Nat]
    /\ start \in SUBSET Batch /\ lost \in Nat

Init ==
    /\ place = [b \in Batch |-> "none"] /\ gen = [b \in Batch |-> 0]
    /\ current = [s \in Shard |-> 1] /\ latch = [s \in Shard |-> FALSE]
    /\ claimed = TRUE /\ walBacked = TRUE
    /\ crashes = 0 /\ faults = 0
    /\ pc = "start" /\ reissue = 0 /\ retries = 0
    /\ targets = [s \in Shard |-> 0]
    /\ start = {} /\ lost = 0

-----------------------------------------------------------------------------
(* What the stats say of a shard (memwal_stats.rs)                         *)

In(s, p) == {b \in Batch : ShardOf[b] = s /\ place[b] = p}

SSTables(s) == {gen[b] : b \in In(s, "sstable")}

\* newest_sstable_generation, 0 for None.
Newest(s) == Max({0} \cup SSTables(s))

\* Faulty variant: the newest SSTable is not counted.
OutstandingBelow(s, target) == {g \in SSTables(s) : g < target}

\* outstanding_sstables.
Outstanding(s, target) == {g \in SSTables(s) : g <= target}

-----------------------------------------------------------------------------
(* The server (external)                                                   *)

clientVars == <<pc, reissue, retries, targets, start, lost>>

Write(b) ==
    /\ walBacked /\ claimed /\ place[b] = "none"
    /\ place' = [place EXCEPT ![b] = "memtable"]
    /\ UNCHANGED <<gen, current, latch, claimed, walBacked, crashes, faults, clientVars>>

\* The memtables of the shards in ss become SSTables; an empty one does not.
Freeze(ss) ==
    /\ place' = [b \in Batch |-> IF ShardOf[b] \in ss /\ place[b] = "memtable"
                                 THEN "sstable" ELSE place[b]]
    /\ gen' = [b \in Batch |-> IF ShardOf[b] \in ss /\ place[b] = "memtable"
                               THEN current[ShardOf[b]] ELSE gen[b]]
    /\ current' = [s \in Shard |-> IF s \in ss /\ In(s, "memtable") # {}
                                   THEN current[s] + 1 ELSE current[s]]

FreezeFull(s) ==
    /\ walBacked /\ claimed /\ In(s, "memtable") # {}
    /\ Freeze({s})
    /\ UNCHANGED <<latch, claimed, walBacked, crashes, faults, clientVars>>

\* A pass of someone else takes the latch of an idle shard.
OtherCompact(s) ==
    /\ walBacked /\ claimed /\ ~latch[s] /\ SSTables(s) # {}
    /\ latch' = [latch EXCEPT ![s] = TRUE]
    /\ UNCHANGED <<place, gen, current, claimed, walBacked, crashes, faults, clientVars>>

\* A pass merges the oldest SSTable and ends.
Pass(s) ==
    /\ latch[s]
    /\ latch' = [latch EXCEPT ![s] = FALSE]
    /\ place' = [b \in Batch |-> IF b \in In(s, "sstable") /\ gen[b] = Min(SSTables(s))
                                 THEN "base" ELSE place[b]]
    /\ UNCHANGED <<gen, current, claimed, walBacked, crashes, faults, clientVars>>

\* A pass that fails gives up its latch and has merged nothing.
PassFails(s) ==
    /\ latch[s] /\ faults < MaxFaults
    /\ faults' = faults + 1
    /\ latch' = [latch EXCEPT ![s] = FALSE]
    /\ UNCHANGED <<place, gen, current, claimed, walBacked, crashes, clientVars>>

\* The node loses its claim and the passes it ran; memtables live on in the WAL.
Crash ==
    /\ walBacked /\ claimed /\ crashes < MaxCrashes
    /\ claimed' = FALSE /\ crashes' = crashes + 1
    /\ latch' = [s \in Shard |-> FALSE]
    /\ UNCHANGED <<place, gen, current, walBacked, faults, clientVars>>

\* Someone turns the MemWAL off.
TurnOff ==
    /\ walBacked /\ claimed
    /\ walBacked' = FALSE
    /\ latch' = [s \in Shard |-> FALSE]
    /\ UNCHANGED <<place, gen, current, claimed, crashes, faults, clientVars>>

-----------------------------------------------------------------------------
(* The client                                                              *)

Begin ==
    /\ pc = "start"
    /\ pc' = "flush"
    /\ start' = {b \in Batch : place[b] # "none"}
    /\ UNCHANGED <<serverVars, crashes, faults, reissue, retries, targets, lost>>

\* issue: 429 and 503 are retried in place, against a budget per request.
Contended ==
    /\ faults < MaxFaults /\ faults' = faults + 1
    /\ IF retries < MAX_RETRIES
       THEN retries' = retries + 1 /\ UNCHANGED pc
       ELSE pc' = "error" /\ UNCHANGED retries
    /\ UNCHANGED <<reissue, targets, start, lost>>

\* Any other failure ends the call.
Fatal ==
    /\ faults < MaxFaults /\ faults' = faults + 1
    /\ pc' = "error"
    /\ UNCHANGED <<reissue, retries, targets, start, lost>>

\* 421: begin again from flush, at most MAX_REISSUES times.
LostClaim ==
    /\ lost' = lost + 1
    /\ retries' = 0
    /\ IF reissue < MAX_REISSUES
       THEN pc' = "flush" /\ reissue' = reissue + 1
       ELSE pc' = "claim_lost" /\ UNCHANGED reissue
    /\ UNCHANGED <<faults, targets, start>>

Answered(l) ==
    /\ pc' = l /\ retries' = 0
    /\ UNCHANGED <<faults, reissue, start, lost>>

\* flush_memwal regains the claim, replays the WAL and freezes; a node that keeps
\* crashing answers 421; an error may be reported after the freeze took effect.
Flush ==
    /\ pc = "flush"
    /\ \/ /\ walBacked /\ Freeze(Shard) /\ claimed' = TRUE
          /\ \/ Answered("stats") /\ UNCHANGED targets
             \/ Contended
          /\ UNCHANGED <<latch, walBacked, crashes>>
       \/ /\ ~claimed /\ crashes < MaxCrashes /\ crashes' = crashes + 1
          /\ LostClaim
          /\ UNCHANGED serverVars
       \/ /\ Contended \/ Fatal
          /\ UNCHANGED <<serverVars, crashes>>
       \/ /\ ~walBacked
          /\ pc' = "error"
          /\ UNCHANGED <<serverVars, crashes, faults, reissue, retries, targets, start, lost>>

\* get_memwal_stats after the freeze fixes the targets; none, or no MemWAL, is done.
\* A node without the claim takes it, as a read would, or answers 421.
Stats ==
    /\ pc = "stats"
    /\ \/ /\ claimed' = TRUE
          /\ targets' = [s \in Shard |-> Newest(s)]
          /\ Answered(IF walBacked /\ \E s \in Shard : Newest(s) # 0 THEN "poll" ELSE "ok")
       \/ ~claimed /\ LostClaim /\ UNCHANGED claimed
       \/ (Contended \/ Fatal) /\ UNCHANGED claimed
    /\ UNCHANGED <<place, gen, current, latch, walBacked, crashes>>

\* What drain_to_targets still waits for; a shard without a target is skipped.
Left(s) == IF targets[s] = 0 THEN {} ELSE Outstanding(s, targets[s])

\* One turn of drain_to_targets up to the decision to compact.
Poll ==
    /\ pc = "poll"
    /\ \/ /\ claimed' = TRUE /\ UNCHANGED targets
          /\ LET open == {s \in Shard : Left(s) # {}} IN
             Answered(IF ~walBacked \/ open = {} THEN "ok"
                      ELSE IF \A s \in open : latch[s] THEN "poll" ELSE "compact")
       \/ ~claimed /\ LostClaim /\ UNCHANGED claimed
       \/ (Contended \/ Fatal) /\ UNCHANGED claimed
    /\ UNCHANGED <<place, gen, current, latch, walBacked, crashes>>

\* compact_memwal dispatches a pass on every idle shard; contention is not retried
\* here, the next poll decides again.
Compact ==
    /\ pc = "compact"
    /\ \/ /\ claimed
          /\ latch' = [s \in Shard |-> latch[s] \/ (walBacked /\ SSTables(s) # {})]
          /\ Answered("poll")
          /\ UNCHANGED <<place, gen, current, claimed, walBacked, targets>>
       \/ /\ ~claimed /\ LostClaim
          /\ UNCHANGED serverVars
       \/ /\ faults < MaxFaults /\ faults' = faults + 1
          /\ pc' \in {"poll", "error"}
          /\ UNCHANGED <<serverVars, reissue, retries, targets, start, lost>>
    /\ UNCHANGED crashes

\* A call that has ended, well or badly, may be made again.
Again ==
    /\ pc \in Ended
    /\ pc' = "start" /\ reissue' = 0 /\ retries' = 0 /\ lost' = 0
    /\ start' = {} /\ targets' = [s \in Shard |-> 0]
    /\ UNCHANGED <<serverVars, crashes, faults>>

Client == Begin \/ Flush \/ Stats \/ Poll \/ Compact \/ Again

Server ==
    \/ \E b \in Batch : Write(b)
    \/ \E s \in Shard : FreezeFull(s) \/ OtherCompact(s) \/ Pass(s) \/ PassFails(s)
    \/ Crash \/ TurnOff

Next == Client \/ Server

Spec == Init /\ [][Next]_vars

-----------------------------------------------------------------------------
(* Properties                                                              *)

\* A checkpoint that returns Ok has merged into the base table everything written
\* before it was called, whatever crashes, lost claims, retries and concurrent
\* freezes and passes came in between, unless the MemWAL was turned off meanwhile.
Converged == pc = "ok" /\ walBacked => \A b \in start : place[b] = "base"

\* The two budgets are separate: a call that blames lost claims was told so
\* MAX_REISSUES + 1 times, however contended the table was.
BlamesClaimRightly == pc = "claim_lost" => lost = MAX_REISSUES + 1

=============================================================================
