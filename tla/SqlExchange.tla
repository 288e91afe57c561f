----------------------------- MODULE SqlExchange -----------------------------
(***************************************************************************)
(* A SQL statement sent with parameters (ExchangeQuery).  It runs on the   *)
(* one call that returns its rows, and whoever holds those rows keeps the  *)
(* call, and the statement on the server, alive: the query (response), a   *)
(* reader that waits for the first batch (Borrowed), or the task that      *)
(* streams the rest.  Readers may fail, time out or be abandoned, callers  *)
(* of cancel run beside them, and the handle may be dropped.               *)
(*                                                                         *)
(* Source: rust/lancedb/src/remote/sql/exchange.rs.  The rows are the      *)
(* batches 1..run.total; 0 in the channel is an error.                       *)
(***************************************************************************)
EXTENDS Naturals, Sequences

CONSTANTS Readers,   \* calls of reader on the one handle
          Stoppers,  \* calls of cancel
          MaxBatches \* the batches of a result that is not empty

VARIABLES response,  \* the rows are in ExchangeQuery.response
          ended,     \* ExchangeQuery.lifecycle
          started,   \* result_started of the handle
          alive,     \* the handle exists
          call,      \* where each call of reader is
          run,       \* the streaming task, and the length of the result
          out,       \* the stream: channel, received batches, state
          stop       \* where each call of cancel is
exchangeVars == <<response, ended, started, alive, call, run, out, stop>>

ExchangeInit ==
    /\ response = TRUE /\ ended = "Running" /\ started = FALSE /\ alive = TRUE
    /\ call = [r \in Readers |-> "idle"]
    /\ run \in [pc : {"none"}, read : {0}, total : {0, MaxBatches}]
    /\ out = [chan |-> <<>>, got |-> <<>>, state |-> "none"]
    /\ stop = [s \in Stoppers |-> "idle"]

settle(state) == ended' = IF ended = "Running" THEN state ELSE ended

(* The rows in the hands of a reader that will not use them. *)
PutBackAlways == response' = TRUE
DropBorrowed == response' = (ended = "Running")

(***************************************************************************)
(* reader: the flag, then prepare under the overall timeout.               *)
(***************************************************************************)
reader(r) ==
    /\ alive /\ call[r] = "idle"
    /\ started' = TRUE
    /\ call' = [call EXCEPT ![r] = IF started THEN "refused" ELSE "prepare"]
    /\ UNCHANGED <<response, ended, alive, run, out, stop>>

prepare(r) ==
    /\ call[r] = "prepare"
    /\ call' = [call EXCEPT ![r] = IF response THEN "borrowed" ELSE "failing"]
    /\ response' = FALSE
    /\ UNCHANGED <<ended, started, alive, run, out, stop>>

(* The first batch, or the end of an empty result. *)
FirstBatch(r) ==
    /\ call[r] = "borrowed"
    /\ call' = [call EXCEPT ![r] = "ok"]
    /\ IF run.total = 0 THEN settle("Finished") ELSE UNCHANGED ended
    /\ run' = IF run.total = 0 THEN [run EXCEPT !.pc = "ended"]
              ELSE [run EXCEPT !.pc = "send", !.read = 1]
    /\ out' = [out EXCEPT !.state = "open"]
    /\ UNCHANGED <<response, started, alive, stop>>

(* The read fails: the rows are this attempt's and go with it. *)
FirstFails(r) ==
    /\ call[r] = "borrowed"
    /\ call' = [call EXCEPT ![r] = "failing"]
    /\ UNCHANGED <<response, ended, started, alive, run, out, stop>>

(* The overall timeout, or the cancellation, drops the borrowed rows. *)
FirstDropped(r) ==
    /\ call[r] = "borrowed"
    /\ call' = [call EXCEPT ![r] = "failing"]
    /\ DropBorrowed
    /\ UNCHANGED <<ended, started, alive, run, out, stop>>

SettleFailure(r) ==
    /\ call[r] = "failing"
    /\ call' = [call EXCEPT ![r] = "settled"]
    /\ settle("Failed")
    /\ UNCHANGED <<response, started, alive, run, out, stop>>

DropPutBack(r) ==
    /\ call[r] = "settled"
    /\ call' = [call EXCEPT ![r] = "err"]
    /\ response' = FALSE
    /\ started' = FALSE
    /\ UNCHANGED <<ended, alive, run, out, stop>>

(* The caller gives up on reader: its futures are dropped, innermost first. *)
ResultStartGuard == started' = FALSE

AbandonReader(r) ==
    /\ call[r] \in {"prepare", "borrowed"}
    /\ call' = [call EXCEPT ![r] = "idle"]
    /\ IF call[r] = "borrowed" THEN DropBorrowed ELSE UNCHANGED response
    /\ ResultStartGuard
    /\ UNCHANGED <<ended, alive, run, out, stop>>

(***************************************************************************)
(* run and send, the streaming task.  run.read is the batch in hand.       *)
(***************************************************************************)
send ==
    /\ run.pc = "send" /\ out.state # "dropped" /\ out.chan = <<>>
    /\ out' = [out EXCEPT !.chan = <<run.read>>]
    /\ run' = [run EXCEPT !.pc = "next"]
    /\ UNCHANGED <<response, ended, started, alive, call, stop>>

NextBatch ==
    /\ run.pc = "next" /\ out.state # "dropped" /\ run.read < run.total
    /\ run' = [run EXCEPT !.pc = "send", !.read = @ + 1]
    /\ UNCHANGED <<response, ended, started, alive, call, out, stop>>

LastBatch ==
    /\ run.pc = "next" /\ out.state # "dropped" /\ run.read = run.total
    /\ settle("Finished")
    /\ run' = [run EXCEPT !.pc = "ended"]
    /\ UNCHANGED <<response, started, alive, call, out, stop>>

(* The consumer is gone. *)
StreamGone ==
    /\ run.pc \in {"send", "next"} /\ out.state = "dropped"
    /\ settle("Cancelled")
    /\ run' = [run EXCEPT !.pc = "ended"]
    /\ UNCHANGED <<response, started, alive, call, out, stop>>

(* A read fails, the timeout fires or the query is cancelled: the task's    *)
(* rows are dropped, then its error is settled and sent.                   *)
RunFails ==
    /\ run.pc \in {"send", "next"}
    /\ settle("Failed")
    /\ run' = [run EXCEPT !.pc = "report"]
    /\ UNCHANGED <<response, started, alive, call, out, stop>>

ReportFailure ==
    /\ run.pc = "report" /\ (out.state = "dropped" \/ out.chan = <<>>)
    /\ out' = IF out.state = "dropped" THEN out ELSE [out EXCEPT !.chan = <<0>>]
    /\ run' = [run EXCEPT !.pc = "ended"]
    /\ UNCHANGED <<response, ended, started, alive, call, stop>>

(* The consumer. *)
Consume ==
    /\ out.state = "open"
    /\ \/ /\ out.chan # <<>> /\ out.chan # <<0>>
          /\ out' = [out EXCEPT !.chan = <<>>, !.got = @ \o out.chan]
       \/ out.chan = <<0>> /\ out' = [out EXCEPT !.chan = <<>>, !.state = "error"]
       \/ /\ out.chan = <<>> /\ run.pc = "ended"
          /\ out' = [out EXCEPT !.state = "end"]
       \/ out' = [out EXCEPT !.chan = <<>>, !.state = "dropped"]
    /\ UNCHANGED <<response, ended, started, alive, call, run, stop>>

(***************************************************************************)
(* cancel settles first and takes the rows after; Drop of the handle, when *)
(* no call borrows it, does both for rows that nobody took.                *)
(***************************************************************************)
cancel(s) ==
    /\ alive /\ stop[s] = "idle"
    /\ stop' = [stop EXCEPT ![s] = "settled"]
    /\ settle("Cancelled")
    /\ UNCHANGED <<response, started, alive, call, run, out>>

TakeResponse(s) ==
    /\ stop[s] = "settled"
    /\ stop' = [stop EXCEPT ![s] = "done"]
    /\ response' = FALSE
    /\ UNCHANGED <<ended, started, alive, call, run, out>>

Resting == /\ \A r \in Readers : call[r] \in {"idle", "ok", "err", "refused"}
           /\ \A s \in Stoppers : stop[s] # "settled"

DropHandle ==
    /\ alive /\ Resting
    /\ alive' = FALSE
    /\ response' = FALSE
    /\ IF response THEN settle("Cancelled") ELSE UNCHANGED ended
    /\ UNCHANGED <<started, call, run, out, stop>>

ExchangeNext ==
    \/ \E r \in Readers : \/ reader(r) \/ prepare(r) \/ FirstBatch(r)
                          \/ FirstFails(r) \/ FirstDropped(r)
                          \/ SettleFailure(r) \/ DropPutBack(r)
                          \/ AbandonReader(r)
    \/ send \/ NextBatch \/ LastBatch \/ StreamGone \/ RunFails \/ ReportFailure
    \/ Consume \/ \E s \in Stoppers : cancel(s) \/ TakeResponse(s)
    \/ DropHandle

ExchangeSpec == ExchangeInit /\ [][ExchangeNext]_exchangeVars
-----------------------------------------------------------------------------
ExchangeTypeOK ==
    /\ {response, started, alive} \subseteq BOOLEAN
    /\ ended \in {"Running", "Finished", "Cancelled", "Failed"}
    /\ run.read \in 0..run.total
    /\ out.state \in {"none", "open", "end", "error", "dropped"}

\* A query that has ended keeps no call open: rows a reader puts back while the
\* query is being cancelled, or times out with, are always taken again.
EndedHoldsNoCall ==
    response => \/ ended = "Running"
                \/ \E s \in Stoppers : stop[s] = "settled"
                \/ \E r \in Readers : call[r] = "settled"

\* A running query nobody reads can still be read: an abandoned reader leaves the
\* rows and the right to read them to the next one.
UnreadStaysReadable ==
    (ended = "Running" /\ alive /\ Resting /\ run.pc = "none") =>
        response /\ ~started

\* A stream that ends without an error has delivered every batch, and its query
\* is finished, or was cancelled when the last batch had been read.
ExchangeEndIsWhole ==
    out.state = "end" => /\ out.got = [i \in 1..run.total |-> i]
                         /\ ended \in {"Finished", "Cancelled"}
==============================================================================
