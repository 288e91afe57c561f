-------------------------------- MODULE MCJobs --------------------------------
(* TLC instance of Jobs (a SQL query used directly, or by a job) and of        *)
(* SqlExchange (a statement with parameters).  They share no state: "model"    *)
(* says which one runs.                                                        *)
EXTENDS Jobs, FiniteSets

CONSTANTS Readers, Stoppers, MaxBatches

VARIABLES model, response, ended, started, alive, call, run, out, stop

X == INSTANCE SqlExchange

exchange == <<response, ended, started, alive, call, run, out, stop>>

(* n callers of cancel, and calls made before: all of them by one who never   *)
(* calls.                                                                     *)
Cancelling(n) == cancel = [c \in Cancellers |-> IF c \in CHOOSE cs \in SUBSET Cancellers :
                                                            Cardinality(cs) = n
                                               THEN NoCancel ELSE Absent]
Read(n) == reader.calls = MaxCalls - n
Describe(n) == describer.calls = MaxCalls - n

(* Who uses a query, or a job: two of the three kinds of callers of a short   *)
(* statement, cancellers alone, or one reader of the longest result.  Status  *)
(* is asked of jobs that have one canceller.                                  *)
Users ==
    /\ \/ /\ srv.cap = 1 /\ srv.empty = {}
          /\ \/ Cancelling(2) /\ Read(MaxCalls) /\ Describe(0)
             \/ task = "none" /\ Cancelling(1) /\ Read(1) /\ Describe(MaxCalls)
             \/ task = "none" /\ Cancelling(2) /\ Read(0) /\ Describe(MaxCalls)
             \/ task = "none" /\ Cancelling(Cardinality(Cancellers)) /\ Read(0) /\ Describe(0)
       \/ /\ srv.cap = MaxEndpoints /\ (task = "submit" <=> srv.empty = {})
          /\ Cancelling(1) /\ Read(1) /\ Describe(0)
    /\ refresh = IF task = "submit" /\ Cancelling(1) THEN "idle" ELSE "absent"

MCInit == /\ model \in {"query", "exchange"}
          /\ X!ExchangeInit
          /\ JobInit /\ Users
          /\ IF model = "query" THEN run.total = 0
             ELSE task = "submit" /\ srv.cap = 1

MCNext == \/ model = "query" /\ Next /\ UNCHANGED <<model, exchange>>
          \/ model = "exchange" /\ X!ExchangeNext /\ UNCHANGED <<model, vars>>

all == <<model, vars, exchange>>

FairStep == model = "query" /\ Step /\ UNCHANGED <<model, exchange>>

MCSpec == MCInit /\ [][MCNext]_all /\ WF_all(FairStep)

\* The type invariants of both.
BothTypesOK == TypeOK /\ X!ExchangeTypeOK

\* A stream that ends without an error has delivered every batch, be it of a polled
\* query or of a statement with parameters.
EndIsWhole == CleanEndIsWhole /\ X!ExchangeEndIsWhole

\* The rows of a statement with parameters are kept exactly as long as somebody may
\* read them: not once it has ended, and for the next reader if one was abandoned.
RowsKeptForReaders == X!EndedHoldsNoCall /\ X!UnreadStaysReadable

\* Every call on a query returns, and every job ends.
AllReturn == model = "query" => QueriesReturn
===============================================================================
