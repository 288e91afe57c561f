------------------------------ MODULE MCWrites ------------------------------
(* TLC instance of RemoteWrites (one call against a server that fails in     *)
(* every way the client tells apart), of LocalInserts (two adds on one       *)
(* handle) and of MemWalCheckpoint (two shards, three batches, two of which  *)
(* share a shard so that it can have several SSTables).  The three share no  *)
(* state: "model" says which one runs, the others rest.                      *)
EXTENDS RemoteWrites, TLC

CONSTANTS Adds, Partitions, MaxVersion,
          s1, s2, b1, b2, b3, MAX_REISSUES, MAX_RETRIES, MaxCrashes, MaxFaults

VARIABLES model, caller, task, txns, table, handle, version, progress,
          place, gen, current, latch, claimed, walBacked, crashes, faults,
          client, reissue, retries, targets, start, lost

Shard == {s1, s2}
Batch == {b1, b2, b3}
ShardOf == (b1 :> s1) @@ (b2 :> s1) @@ (b3 :> s2)

L == INSTANCE LocalInserts
K == INSTANCE MemWalCheckpoint WITH pc <- client

local == <<caller, task, txns, table, handle, version, progress>>
memwal == <<place, gen, current, latch, claimed, walBacked, crashes, faults,
            client, reissue, retries, targets, start, lost>>
all == <<model, vars, local, memwal>>

MCInit == /\ model \in {"remote", "local", "checkpoint"}
          /\ L!Init
          /\ Init
          /\ model # "remote" => conf = CHOOSE c \in Config : TRUE
          /\ K!Init

Remote(A) == model = "remote" /\ A /\ UNCHANGED <<model, local, memwal>>
Local(A)  == model = "local" /\ A /\ UNCHANGED <<model, vars, memwal>>
Checkpoint(A) == model = "checkpoint" /\ A /\ UNCHANGED <<model, vars, local>>

MCNext == Remote(Next) \/ Local(L!Next) \/ Checkpoint(K!Next)

\* The client of a checkpoint runs together with the callers of the others.
MCStep == \/ Remote(Step)
          \/ Local(\E a \in Adds : L!Step(a))
          \/ Checkpoint(K!Flush \/ K!Stats \/ K!Poll \/ K!Compact)

MCSpec == /\ MCInit /\ [][MCNext]_all
          /\ WF_all(MCStep)
          /\ WF_all(Checkpoint(K!Pass(s1))) /\ WF_all(Checkpoint(K!Pass(s2)))

\* The type invariants of all three.
TypesOK == TypeOK /\ L!TypeOK /\ K!TypeOK

\* What a checkpoint says is so: after Ok everything written before it is merged,
\* and when it blames lost claims it was told so often enough.
VerdictRight == K!Converged /\ K!BlamesClaimRightly

\* A write is committed whole and once, or not at all: the input of a remote call
\* (once unless a lost answer is masked), every partition of a native add; a
\* native add that failed on a partition never commits anything.
WholeAndOnce ==
    /\ CommitsWhole /\ OnceUnlessMasked
    /\ L!OneWholeCommit /\ L!FailedWritesNothing

\* Ok means written, and the version a native add returns contains it.
OkMeansWritten == OkMeansCommitted /\ L!OkVersionCovers

Pending == model = "checkpoint" => client = "flush"

Settled == CASE model = "remote" -> pc = "end"
             [] model = "local" -> \A a \in Adds : caller[a] \in L!Ended
             [] model = "checkpoint" -> client \in K!Ended

\* Every remote call returns: no sequence of answers keeps its two nested retry
\* loops going for ever.  So do both native adds, and so does a checkpoint, as
\* long as passes end and faults are finitely many.
CallsReturn == Pending ~> Settled
=============================================================================
