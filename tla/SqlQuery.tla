------------------------------ MODULE SqlQuery ------------------------------
(***************************************************************************)
(* A submitted SQL query of a remote connection (RemoteQuery): its one     *)
(* reader, which prepares the result and then streams it from a spawned    *)
(* task, callers of cancel and a caller of describe.  They share the last  *)
(* PollInfo, a gate that admits one poll at a time, a gate that admits one *)
(* cancellation at a time, and the lifecycle.                              *)
(*                                                                         *)
(* Source: rust/lancedb/src/remote/sql.rs.  An endpoint of the result      *)
(* holds one batch, its number, or none.  The SQL service is external.     *)
(* Waiting on a Notify is waiting for the condition it announces: every    *)
(* wait in the code registers before it tests.                             *)
(***************************************************************************)
EXTENDS Naturals, Sequences

CONSTANTS Cancellers,     \* concurrent calls of cancel
          MaxEndpoints,   \* bound on the endpoints of the result
          MaxPolls,       \* bound on distinct continuation descriptors
          Capacity,       \* of the channel between the task and the stream
          MaxCalls,       \* bound on calls of reader, and on calls of describe
          Nobody

ASSUME QueryAssumption ==
    /\ MaxEndpoints \in Nat \ {0} /\ MaxPolls \in Nat \ {0}
    /\ Capacity \in Nat /\ MaxCalls \in Nat \ {0}
    /\ Nobody \notin Cancellers \cup {"reader", "describer"}
    /\ Cancellers \cap {"reader", "describer"} = {}

VARIABLES srv,        \* external: the statement on the SQL service
          late,       \* external: a cancel request the client gave up on
          poll,       \* RemoteQuery.state: descriptor (0: none) and info
          lifecycle,  \* RemoteQuery.lifecycle
          uncertain,  \* RemoteQuery.cancel_request_uncertain
          gate,       \* holder of poll_gate
          cancelGate, \* holder of cancel_gate
          reader,     \* the call of reader, then its spawned task
          stream,     \* the consumer's end: channel and what it received
          cancel,     \* the calls of cancel
          describer,  \* the call of describe
          overruled   \* ghost: a definite answer has cleared "uncertain" although
                      \* an earlier request may still be carried out

doubt == <<uncertain, overruled>>
queryVars == <<srv, late, poll, lifecycle, uncertain, gate, cancelGate, reader,
               stream, cancel, describer, overruled>>

Reader == "reader"
Describer == "describer"
ErrorItem == 0   \* an Err in the channel; batches are 1..MaxEndpoints

NoStream == [chan |-> <<>>, got |-> <<>>, state |-> "none", error |-> "none"]
NoReader == [pc |-> "idle", next |-> 0, open |-> 0, batch |-> 0, desc |-> 0,
             back |-> "none", error |-> "none", calls |-> 0]
NoCancel == [pc |-> "idle", desc |-> 0, answer |-> "none", running |-> FALSE,
             before |-> FALSE]
NoDescribe == [pc |-> "idle", poll |-> [desc |-> 0, info |-> FALSE, eps |-> 0],
               status |-> "none", over |-> FALSE, calls |-> 0]

is_cancellation_requested == lifecycle \in {"Cancelling", "Cancelled"}
Over == lifecycle \in {"Cancelled", "Completed"}

(***************************************************************************)
(* The service, external.  It publishes endpoints while it runs, finishes, *)
(* and answers a poll with what it has: a new descriptor while it runs     *)
(* (the last poll of the bound is held until it is done), none once it is  *)
(* done, an error once it is cancelled.                                    *)
(***************************************************************************)
Works == srv.state \in {"running", "cancelling"}

Publish ==
    /\ Works /\ srv.eps < srv.cap
    /\ srv' = [srv EXCEPT !.info = TRUE, !.eps = @ + 1]
    /\ UNCHANGED <<late, poll, lifecycle, doubt, gate, cancelGate, reader,
                   stream, cancel, describer>>

FinishStatement ==
    /\ Works
    /\ \E info \in {srv.info, TRUE} :
         srv' = [srv EXCEPT !.state = "done", !.info = info]
    /\ UNCHANGED <<late, poll, lifecycle, doubt, gate, cancelGate, reader,
                   stream, cancel, describer>>

Answers(desc) == srv.state = "done" \/ (Works /\ desc < MaxPolls)
Answer(desc) ==
    [desc |-> IF srv.state = "done" THEN 0 ELSE desc + 1,
     info |-> srv.info, eps |-> srv.eps]

(* What the service says to a cancellation, and the state it leaves.  The  *)
(* status Unspecified is ambiguous too: it leaves the outcome open.        *)
CancelAnswers ==
    CASE srv.state = "running" ->
           {<<"Cancelled", "cancelled">>, <<"Cancelling", "cancelling">>,
            <<"NotCancellable", "running">>, <<"refused", "running">>,
            <<"ambiguous", "cancelled">>, <<"ambiguous", "running">>}
      [] srv.state = "done" ->
           {<<"Cancelled", "cancelled">>, <<"NotCancellable", "done">>,
            <<"NotFound", "done">>}
      [] srv.state = "cancelling" ->
           {<<"Cancelling", "cancelling">>, <<"Cancelled", "cancelled">>,
            <<"NotCancellable", "done">>, <<"ambiguous", "cancelled">>}
      [] srv.state = "cancelled" ->
           {<<"Cancelled", "cancelled">>, <<"NotFound", "cancelled">>}

(* A request the client gave up on is still carried out. *)
LateCancel ==
    /\ late
    /\ late' = FALSE
    /\ \E a \in CancelAnswers : srv' = [srv EXCEPT !.state = a[2]]
    /\ UNCHANGED <<poll, lifecycle, doubt, gate, cancelGate, reader, stream,
                   cancel, describer>>

(***************************************************************************)
(* Transitions of the lifecycle.                                           *)
(***************************************************************************)
mark_ready(now) == IF now = "Running" THEN "Ready" ELSE now

(* cancel_request_uncertain is cleared. *)
Certain == uncertain' = FALSE /\ overruled' = (overruled \/ uncertain)

mark_cancelled ==
    /\ Certain
    /\ lifecycle' = IF Over THEN lifecycle ELSE "Cancelled"

mark_cancelling ==
    /\ Certain
    /\ lifecycle' = IF lifecycle \in {"Running", "Ready"} THEN "Cancelling"
                    ELSE lifecycle

CompletedAnyway == lifecycle' = "Completed"
mark_result_completed ==
    lifecycle' = IF is_cancellation_requested THEN lifecycle ELSE "Completed"

(* update_state: the answer to a poll of descriptor desc, which nobody     *)
(* else has replaced meanwhile.                                            *)
update_state(desc, updated) ==
    IF poll.desc = desc
    THEN /\ poll' = updated
         /\ lifecycle' = IF updated.desc = 0 THEN mark_ready(lifecycle)
                         ELSE lifecycle
    ELSE UNCHANGED <<poll, lifecycle>>

(***************************************************************************)
(* poll_next_state, called by prepare_result (back = "prepare") and by     *)
(* run_result_stream (back = "loop").                                      *)
(***************************************************************************)
(* How the reader's call or its task fails: reader returns the error and   *)
(* its ResultStartGuard admits another call; the task sends the error.     *)
Fails(r, error) ==
    IF r.back = "prepare"
    THEN [NoReader EXCEPT !.pc = "failed", !.error = error, !.calls = r.calls]
    ELSE [r EXCEPT !.pc = "report", !.error = error]

PollGate ==
    /\ reader.pc = "gate" /\ gate = Nobody /\ ~is_cancellation_requested
    /\ IF poll.desc = reader.desc
       THEN gate' = Reader /\ reader' = [reader EXCEPT !.pc = "polling"]
       ELSE gate' = gate /\ reader' = [reader EXCEPT !.pc = reader.back]
    /\ UNCHANGED <<srv, late, poll, lifecycle, doubt, cancelGate, stream,
                   cancel, describer>>

(* The answer may be received just before a cancellation is requested and  *)
(* applied just after.                                                     *)
PollAnswered ==
    /\ reader.pc = "polling" /\ Answers(reader.desc)
    /\ update_state(reader.desc, Answer(reader.desc))
    /\ gate' = Nobody
    /\ reader' = [reader EXCEPT !.pc = reader.back]
    /\ UNCHANGED <<srv, late, doubt, cancelGate, stream, cancel, describer>>

(***************************************************************************)
(* reader, and prepare_result up to the first batch.                       *)
(***************************************************************************)
start_reader ==
    /\ reader.pc \in {"idle", "failed"}
    /\ reader.calls < MaxCalls
    /\ reader' = [NoReader EXCEPT !.pc = "prepare", !.back = "prepare",
                                  !.calls = reader.calls + 1]
    /\ UNCHANGED <<srv, late, poll, lifecycle, doubt, gate, cancelGate,
                   stream, cancel, describer>>

(* The stream is handed to the caller and the task is spawned. *)
Prepared(next, batch, open) ==
    /\ reader' = [reader EXCEPT !.pc = IF batch = 0 THEN "loop" ELSE "send",
                                !.back = "loop", !.next = next, !.open = open,
                                !.batch = batch]
    /\ stream' = [stream EXCEPT !.state = "open"]

prepare_result ==
    /\ reader.pc = "prepare"
    /\ CASE is_cancellation_requested ->
              reader' = Fails(reader, "cancelled") /\ UNCHANGED stream
         [] ~is_cancellation_requested /\ poll.info /\ poll.eps > 0 ->
              reader' = [reader EXCEPT !.pc = "open"] /\ UNCHANGED stream
         [] ~is_cancellation_requested /\ poll.info /\ poll.eps = 0
              /\ poll.desc = 0 -> Prepared(0, 0, 0)
         [] ~is_cancellation_requested /\ ~poll.info /\ poll.desc = 0 ->
              reader' = Fails(reader, "failed") /\ UNCHANGED stream
         [] OTHER -> /\ reader' = [reader EXCEPT !.pc = "gate", !.desc = poll.desc]
                     /\ UNCHANGED stream
    /\ UNCHANGED <<srv, late, poll, lifecycle, doubt, gate, cancelGate,
                   cancel, describer>>

Rows(endpoint) == IF endpoint \in srv.empty THEN 0 ELSE endpoint

PreparedAgain(batch) == Prepared(0, batch, IF batch = 0 THEN 0 ELSE 1)
PreparedFirst(batch) == Prepared(1, batch, IF batch = 0 THEN 0 ELSE 1)

(* open_result_endpoint and the first next_batch. *)
FirstBatch ==
    /\ reader.pc = "open" /\ srv.state # "cancelled"
    /\ PreparedFirst(Rows(1))
    /\ UNCHANGED <<srv, late, poll, lifecycle, doubt, gate, cancelGate,
                   cancel, describer>>

(***************************************************************************)
(* run_result_stream, the spawned task.  reader.open is the endpoint being *)
(* read; its only batch is sent when it is opened (see OpenNext).          *)
(***************************************************************************)
Closed == stream.state = "dropped"

(* send_result_batch waits for room in the channel. *)
send_result_batch ==
    /\ reader.pc = "send" /\ ~Closed
    /\ Len(stream.chan) < Capacity
    /\ stream' = [stream EXCEPT !.chan = Append(@, reader.batch)]
    /\ reader' = [reader EXCEPT !.pc = "loop", !.batch = 0]
    /\ UNCHANGED <<srv, late, poll, lifecycle, doubt, gate, cancelGate,
                   cancel, describer>>

run_result_stream ==
    /\ reader.pc = "loop"
    /\ reader' =
         CASE is_cancellation_requested -> Fails(reader, "cancelled")
           [] ~is_cancellation_requested /\ reader.open > 0 ->
                [reader EXCEPT !.pc = "next"]
           [] ~is_cancellation_requested /\ reader.open = 0
                /\ reader.next > poll.eps -> Fails(reader, "failed")
           [] ~is_cancellation_requested /\ reader.open = 0
                /\ reader.next < poll.eps ->
                [reader EXCEPT !.pc = "opening", !.next = @ + 1]
           [] ~is_cancellation_requested /\ reader.open = 0
                /\ reader.next = poll.eps /\ poll.desc > 0 ->
                [reader EXCEPT !.pc = "gate", !.desc = poll.desc]
           [] OTHER -> [reader EXCEPT !.pc = "complete"]
    /\ UNCHANGED <<srv, late, poll, lifecycle, doubt, gate, cancelGate,
                   stream, cancel, describer>>

(* An endpoint is opened, and its batch read if it has one. *)
OpenNext ==
    /\ reader.pc = "opening" /\ srv.state # "cancelled"
    /\ reader' = [reader EXCEPT !.pc = IF Rows(reader.next) = 0 THEN "loop"
                                       ELSE "send",
                                !.batch = Rows(reader.next),
                                !.open = Rows(reader.next)]
    /\ UNCHANGED <<srv, late, poll, lifecycle, doubt, gate, cancelGate,
                   stream, cancel, describer>>

EndOfEndpoint ==
    /\ reader.pc = "next" /\ srv.state # "cancelled"
    /\ reader' = [reader EXCEPT !.pc = "loop", !.open = 0]
    /\ UNCHANGED <<srv, late, poll, lifecycle, doubt, gate, cancelGate,
                   stream, cancel, describer>>

CompleteResult ==
    /\ reader.pc = "complete"
    /\ mark_result_completed
    /\ reader' = IF lifecycle' = "Completed" THEN [NoReader EXCEPT
                                !.pc = "ended", !.calls = reader.calls]
                 ELSE Fails(reader, "cancelled")
    /\ UNCHANGED <<srv, late, poll, doubt, gate, cancelGate, stream, cancel,
                   describer>>

Waiting == {"gate", "polling", "open", "send", "next", "opening"}
StillHeld(actor) == gate' = gate
Release(actor) == gate' = IF gate = actor THEN Nobody ELSE gate

(* A request fails, its own retries included, or the overall timeout ends  *)
(* the call or the task.                                                   *)
ReadFails ==
    /\ reader.pc \in Waiting
    /\ reader' = Fails(reader, IF is_cancellation_requested THEN "cancelled"
                               ELSE "failed")
    /\ Release(Reader)
    /\ UNCHANGED <<srv, late, poll, lifecycle, doubt, cancelGate, stream,
                   cancel, describer>>

(* wait_for_cancellation in the selects of both. *)
ReadCancelled ==
    /\ reader.pc \in Waiting /\ is_cancellation_requested
    /\ reader' = Fails(reader, "cancelled")
    /\ Release(Reader)
    /\ UNCHANGED <<srv, late, poll, lifecycle, doubt, cancelGate, stream,
                   cancel, describer>>

(* The task's error goes through the same channel. *)
ReportError ==
    /\ reader.pc = "report"
    /\ Closed \/ Len(stream.chan) < Capacity
    /\ stream' = IF Closed THEN stream
                 ELSE [stream EXCEPT !.chan = Append(@, ErrorItem),
                                     !.error = reader.error]
    /\ reader' = [NoReader EXCEPT !.pc = "ended", !.calls = reader.calls]
    /\ UNCHANGED <<srv, late, poll, lifecycle, doubt, gate, cancelGate,
                   cancel, describer>>

(* The stream was dropped: the task ends at its next select on it. *)
StreamClosed ==
    /\ Closed /\ reader.pc \in Waiting
    /\ reader' = [NoReader EXCEPT !.pc = "ended", !.calls = reader.calls]
    /\ Release(Reader)
    /\ UNCHANGED <<srv, late, poll, lifecycle, doubt, cancelGate, stream,
                   cancel, describer>>

(***************************************************************************)
(* The consumer of the stream, and a caller that gives up on reader.       *)
(***************************************************************************)
Receive ==
    /\ stream.state = "open" /\ stream.chan # <<>>
    /\ stream' = [stream EXCEPT
           !.chan = Tail(@),
           !.got = IF Head(stream.chan) = ErrorItem THEN @
                   ELSE Append(@, Head(stream.chan)),
           !.state = IF Head(stream.chan) = ErrorItem THEN "error" ELSE "open"]
    /\ UNCHANGED <<srv, late, poll, lifecycle, doubt, gate, cancelGate,
                   reader, cancel, describer>>

ReceiveEnd ==
    /\ stream.state = "open" /\ stream.chan = <<>> /\ reader.pc = "ended"
    /\ stream' = [stream EXCEPT !.state = "end"]
    /\ UNCHANGED <<srv, late, poll, lifecycle, doubt, gate, cancelGate,
                   reader, cancel, describer>>

DropStream ==
    /\ stream.state = "open"
    /\ stream' = [stream EXCEPT !.state = "dropped", !.chan = <<>>]
    /\ UNCHANGED <<srv, late, poll, lifecycle, doubt, gate, cancelGate,
                   reader, cancel, describer>>

DropReader ==
    /\ reader.back = "prepare"
    /\ reader' = [NoReader EXCEPT !.calls = reader.calls]
    /\ Release(Reader)
    /\ UNCHANGED <<srv, late, poll, lifecycle, doubt, cancelGate, stream,
                   cancel, describer>>

(***************************************************************************)
(* cancel_inner.                                                           *)
(***************************************************************************)
Returned(c, result) ==
    /\ cancel' = [cancel EXCEPT ![c] = [NoCancel EXCEPT !.pc = result]]
    /\ cancelGate' = IF cancelGate = c THEN Nobody ELSE cancelGate

start_cancel(c) ==
    /\ cancel[c].pc = "idle"
    /\ cancel' = [cancel EXCEPT ![c].pc = "queued"]
    /\ UNCHANGED <<srv, late, poll, lifecycle, doubt, gate, cancelGate,
                   reader, stream, describer>>

EnterCancel(c) ==
    /\ cancel[c].pc = "queued" /\ cancelGate = Nobody
    /\ IF Over THEN Returned(c, "ok")
       ELSE /\ cancelGate' = c
            /\ cancel' = [cancel EXCEPT ![c].pc = "look"]
    /\ UNCHANGED <<srv, late, poll, lifecycle, doubt, gate, reader, stream,
                   describer>>

(* With info the request can be sent; without, the state must advance.     *)
LookAtState(c) ==
    /\ cancel[c].pc = "look"
    /\ IF ~poll.info /\ poll.desc = 0 THEN Returned(c, "ok")
       ELSE /\ cancel' = [cancel EXCEPT
                 ![c] = [@ EXCEPT !.pc = IF poll.info THEN "send" ELSE "gate",
                                  !.desc = IF poll.info THEN 0 ELSE poll.desc,
                                  !.before = poll.info /\ uncertain]]
            /\ UNCHANGED cancelGate
    /\ UNCHANGED <<srv, late, poll, lifecycle, doubt, gate, reader, stream,
                   describer>>

CancelGate(c) ==
    /\ cancel[c].pc = "gate" /\ gate = Nobody
    /\ IF poll.desc = cancel[c].desc
       THEN /\ gate' = c
            /\ cancel' = [cancel EXCEPT ![c].pc = "polling"]
       ELSE /\ UNCHANGED gate
            /\ cancel' = [cancel EXCEPT ![c].pc = "look"]
    /\ UNCHANGED <<srv, late, poll, lifecycle, doubt, cancelGate, reader,
                   stream, describer>>

(* state_changed: another actor's poll has advanced the state. *)
StateChanged(c) ==
    /\ cancel[c].pc = "gate" /\ poll.desc # cancel[c].desc
    /\ cancel' = [cancel EXCEPT ![c].pc = "look"]
    /\ UNCHANGED <<srv, late, poll, lifecycle, doubt, gate, cancelGate,
                   reader, stream, describer>>

CancelPolled(c) ==
    /\ cancel[c].pc = "polling" /\ Answers(cancel[c].desc)
    /\ update_state(cancel[c].desc, Answer(cancel[c].desc))
    /\ gate' = Nobody
    /\ cancel' = [cancel EXCEPT ![c].pc = "look"]
    /\ UNCHANGED <<srv, late, doubt, cancelGate, reader, stream, describer>>

(* The interceptor records that the request is dispatched. *)
Dispatch(c) ==
    /\ cancel[c].pc = "send"
    /\ cancel' = [cancel EXCEPT ![c].pc = "sent"]
    /\ UNCHANGED <<srv, late, poll, lifecycle, doubt, gate, cancelGate,
                   reader, stream, describer>>

(* The service handles the request and the answer arrives.  CancelAttempt  *)
(* is resolved by any other status, by NotFound and by an error that says  *)
(* the request was not carried out.                                        *)
cancellation_status_is_ambiguous(answer) == answer = "ambiguous"

CancelAnswered(c) ==
    /\ cancel[c].pc = "sent"
    /\ \E a \in CancelAnswers :
         /\ srv' = [srv EXCEPT !.state = a[2]]
         /\ uncertain' = (uncertain \/ cancellation_status_is_ambiguous(a[1]))
         /\ cancel' = [cancel EXCEPT ![c].pc = "answered", ![c].answer = a[1]]
    /\ UNCHANGED <<late, poll, lifecycle, overruled, gate, cancelGate, reader,
                   stream, describer>>

NotFoundResult(c) == IF cancel[c].before THEN "unknown" ELSE "not_found"

OfferedNotFound(c) ==
    IF lifecycle = "Cancelling" THEN mark_cancelled /\ Returned(c, "ok")
    ELSE Returned(c, NotFoundResult(c)) /\ UNCHANGED <<lifecycle, doubt>>

ApplyAnswer(c) ==
    /\ cancel[c].pc = "answered"
    /\ LET answer == cancel[c].answer
       IN CASE Over -> Returned(c, "ok") /\ UNCHANGED <<lifecycle, doubt>>
            [] ~Over /\ answer = "Cancelled" -> mark_cancelled /\ Returned(c, "ok")
            [] ~Over /\ answer = "Cancelling" -> mark_cancelling /\ Returned(c, "ok")
            [] ~Over /\ answer = "NotFound" -> OfferedNotFound(c)
            [] ~Over /\ answer = "NotCancellable" ->
                 /\ Certain
                 /\ cancel' = [cancel EXCEPT ![c].pc = "restore",
                                             ![c].running = poll.desc > 0]
                 /\ UNCHANGED <<lifecycle, cancelGate>>
            [] OTHER -> Returned(c, "err") /\ UNCHANGED <<lifecycle, doubt>>
    /\ UNCHANGED <<srv, late, poll, gate, reader, stream, describer>>

(* The second half of restore_after_rejected_cancellation, which has read  *)
(* whether the query is running and released the state.                    *)
restore_after_rejected_cancellation(c) ==
    /\ cancel[c].pc = "restore"
    /\ lifecycle' = IF lifecycle # "Cancelling" THEN lifecycle
                    ELSE IF cancel[c].running THEN "Running" ELSE "Ready"
    /\ Returned(c, "err")
    /\ UNCHANGED <<srv, late, poll, doubt, gate, reader, stream, describer>>

(* A poll or the request fails, the overall timeout ends the call or its   *)
(* caller drops it.  A request that was dispatched may still be handled,   *)
(* and Drop of CancelAttempt notes it.                                     *)
Forgotten(c) == uncertain' = uncertain
Noted(c) == uncertain' = (uncertain \/ cancel[c].pc = "sent")

CancelFails(c) ==
    /\ cancel[c].pc \in {"queued", "gate", "polling", "send", "sent"}
    /\ Noted(c)
    /\ late' = (srv.state # "cancelled" /\ (late \/ cancel[c].pc = "sent"))
    /\ Returned(c, "err")
    /\ Release(c)
    /\ UNCHANGED <<srv, poll, lifecycle, overruled, reader, stream, describer>>

(***************************************************************************)
(* describe_inner.  Each return builds query_description from the state    *)
(* read earlier and the lifecycle as it is now.                            *)
(***************************************************************************)
StatusOfLifecycle(seen) ==
    CASE lifecycle \in {"Cancelling", "Cancelled"} -> lifecycle
      [] lifecycle = "Running" -> "Running"
      [] OTHER -> "Finished"
query_description(seen) ==
    CASE lifecycle \in {"Cancelling", "Cancelled"} -> lifecycle
      [] lifecycle = "Running" /\ seen.desc > 0 -> "Running"
      [] OTHER -> "Finished"

Described(seen) ==
    describer' = [NoDescribe EXCEPT
        !.status = query_description(seen), !.over = describer.over,
        !.calls = describer.calls]

start_describe ==
    /\ describer.pc = "idle" /\ describer.calls < MaxCalls
    /\ describer' = [describer EXCEPT !.pc = "state", !.status = "none",
                                      !.over = (poll.desc = 0), !.calls = @ + 1]
    /\ UNCHANGED <<srv, late, poll, lifecycle, doubt, gate, cancelGate,
                   reader, stream, cancel>>

DescribeState ==
    /\ describer.pc = "state"
    /\ IF is_cancellation_requested \/ poll.desc = 0
       THEN describer' = [describer EXCEPT !.pc = "known", !.poll = poll]
       ELSE describer' = [describer EXCEPT !.pc = "gate", !.poll = poll]
    /\ UNCHANGED <<srv, late, poll, lifecycle, doubt, gate, cancelGate,
                   reader, stream, cancel>>

DescribeGate ==
    /\ describer.pc = "gate" /\ gate = Nobody /\ ~is_cancellation_requested
    /\ IF poll.desc = describer.poll.desc
       THEN /\ gate' = Describer
            /\ describer' = [describer EXCEPT !.pc = "polling", !.poll = poll]
       ELSE /\ UNCHANGED gate
            /\ describer' = [describer EXCEPT !.pc = "known", !.poll = poll]
    /\ UNCHANGED <<srv, late, poll, lifecycle, doubt, cancelGate, reader,
                   stream, cancel>>

DescribePolled ==
    /\ describer.pc = "polling" /\ Answers(describer.poll.desc)
    /\ LET updated == Answer(describer.poll.desc)
       IN update_state(describer.poll.desc, updated)
    /\ describer' = [describer EXCEPT !.pc = "known", !.poll = poll']
    /\ gate' = Nobody
    /\ UNCHANGED <<srv, late, doubt, cancelGate, reader, stream, cancel>>

DescribeKnown ==
    /\ describer.pc = "known"
    /\ Described(describer.poll)
    /\ UNCHANGED <<srv, late, poll, lifecycle, doubt, gate, cancelGate,
                   reader, stream, cancel>>

(* No gate or no answer within STATUS_POLL_TIMEOUT, or a cancellation.     *)
DescribeStale ==
    /\ describer.pc \in {"gate", "polling"}
    /\ Described(describer.poll)
    /\ Release(Describer)
    /\ UNCHANGED <<srv, late, poll, lifecycle, doubt, cancelGate, reader,
                   stream, cancel>>

(* The poll fails, or the overall timeout ends the call. *)
DescribeFails ==
    /\ describer.pc \in {"gate", "polling"}
    /\ describer' = [NoDescribe EXCEPT !.calls = describer.calls]
    /\ Release(Describer)
    /\ UNCHANGED <<srv, late, poll, lifecycle, doubt, cancelGate, reader,
                   stream, cancel>>

-----------------------------------------------------------------------------
(* RemoteQuery::new from the first poll's answer. *)
Submitted(first) ==
    /\ poll' = first
    /\ lifecycle' = IF first.desc = 0 THEN "Ready" ELSE "Running"

(* A canceller that is "absent" never calls, nor does a reader or describer *)
(* that has made all its calls.                                            *)
Absent == [NoCancel EXCEPT !.pc = "absent"]

QueryInit ==
    /\ srv \in [state : {"running"}, info : {FALSE}, eps : {0},
                empty : {{}, {1}}, cap : 1..MaxEndpoints]
    /\ late = FALSE /\ uncertain = FALSE /\ overruled = FALSE
    /\ poll = [desc |-> 1, info |-> FALSE, eps |-> 0] /\ lifecycle = "Running"
    /\ gate = Nobody /\ cancelGate = Nobody
    /\ stream = NoStream
    /\ \E n \in 0..MaxCalls : reader = [NoReader EXCEPT !.calls = n]
    /\ \E n \in 0..MaxCalls : describer = [NoDescribe EXCEPT !.calls = n]
    /\ cancel \in [Cancellers -> {NoCancel, Absent}]

ServerNext == Publish \/ FinishStatement \/ LateCancel

ReaderStep == \/ PollGate \/ PollAnswered \/ prepare_result \/ FirstBatch
              \/ send_result_batch \/ run_result_stream \/ OpenNext
              \/ EndOfEndpoint \/ CompleteResult \/ ReadCancelled
              \/ ReportError \/ StreamClosed
ConsumerStep == Receive \/ ReceiveEnd
CancelStep(c) == \/ EnterCancel(c) \/ LookAtState(c) \/ CancelGate(c)
                 \/ StateChanged(c) \/ CancelPolled(c) \/ Dispatch(c)
                 \/ CancelAnswered(c) \/ ApplyAnswer(c)
                 \/ restore_after_rejected_cancellation(c)
DescribeStep == \/ DescribeState \/ DescribeGate \/ DescribePolled \/ DescribeKnown
                \/ DescribeStale

UserNext == start_reader \/ DropStream \/ DropReader \/ start_describe
            \/ DescribeFails \/ DescribeStep \/ \E c \in Cancellers : start_cancel(c)

QueryNext == \/ ServerNext \/ ReaderStep \/ ReadFails \/ ConsumerStep
             \/ \E c \in Cancellers : CancelStep(c) \/ CancelFails(c)
             \/ UserNext

QuerySpec == QueryInit /\ [][QueryNext]_queryVars
-----------------------------------------------------------------------------
Polls == [desc : 0..MaxPolls, info : BOOLEAN, eps : 0..MaxEndpoints]
Actors == Cancellers \cup {Reader, Describer, Nobody}

QueryTypeOK ==
    /\ poll \in Polls /\ describer.poll \in Polls
    /\ lifecycle \in {"Running", "Ready", "Cancelling", "Cancelled", "Completed"}
    /\ {gate, cancelGate} \subseteq Actors /\ {late, uncertain, overruled} \subseteq BOOLEAN
    /\ Len(stream.chan) <= Capacity
    /\ gate = Reader <=> reader.pc = "polling"
    /\ gate = Describer <=> describer.pc = "polling"
    /\ \A c \in Cancellers : gate = c <=> cancel[c].pc = "polling"
    /\ \A c \in Cancellers : cancelGate = c <=> cancel[c].pc \in
           {"look", "gate", "polling", "send", "sent", "answered", "restore"}

\* A stream that ends without an error has delivered the batch of every
\* endpoint the service published, once and in order, whatever polls, failed
\* readers and cancellations went before.
CleanEndIsWhole ==
    stream.state = "end" =>
        /\ lifecycle = "Completed" /\ srv.state # "running"
        /\ stream.got = SelectSeq([e \in 1..srv.eps |-> e],
                                  LAMBDA e : e \notin srv.empty)

\* A query that is cancelled or completed stays so, and one whose cancellation
\* the service has accepted is never taken for complete: not by a task that had
\* already looked for a cancellation, nor by a late answer to a poll.
EndsOnce ==
    [][/\ Over => lifecycle' = lifecycle
       /\ lifecycle = "Cancelling" => lifecycle' # "Completed"]_queryVars

\* cancel reports that there is no such query only when none of its earlier
\* requests can have stopped it, save one that the client gave up on and of which
\* it thought no more after the definite answer to a later request.
NotFoundIsSure ==
    \A c \in Cancellers :
        (/\ cancel[c].pc = "answered" /\ cancel[c].answer = "NotFound"
         /\ lifecycle \in {"Running", "Ready"}
         /\ NotFoundResult(c) = "not_found") => srv.state # "cancelled" \/ overruled

\* A describe that starts when the last poll has been answered never reports the
\* query as running, not even if a rejected cancellation, which looked at the
\* state before that answer, has put its lifecycle back to running.
OverIsNotRunning == ~(describer.over /\ describer.status = "Running")
=============================================================================
