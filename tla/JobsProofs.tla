------------------------------ MODULE JobsProofs ------------------------------
(***************************************************************************)
(* What Jobs promises of a SQL query and of the job that runs it, for      *)
(* every number of callers, polls, endpoints and calls: what cancel and    *)
(* status report is so, and a query ends once.                             *)
(***************************************************************************)
EXTENDS Jobs, TLAPS

-----------------------------------------------------------------------------
(* What keeps each part of the invariant                                   *)

Before == {"submit", "unsubmitted"}
Ending == {"Cancelling", "Cancelled", "Completed"}

(* How a step may change the lifecycle and the state of the last poll.     *)
Onward ==
    /\ lifecycle' \in Lifecycles
    /\ lifecycle \in Ending => lifecycle' \in Ending
    /\ srv.state = "running" => lifecycle' \in {"Running", "Ready"}
    /\ task \in Before => lifecycle' = lifecycle
Advanced ==
    /\ poll' \in Polls
    /\ poll.desc = 0 => poll'.desc = 0
    /\ srv.state = "running" => poll'.desc # 0
(* The poll gate passes between nobody and this actor, or stays.           *)
GateOf(actor) == gate' = gate \/ {gate, gate'} \subseteq {actor, Nobody}

(* A step of the job's task, or of nobody, along with one of the reader.   *)
JobSteady == /\ UNCHANGED <<outcome, handle>> /\ JobOK'
             /\ task' \in Before => task \in Before

\* The callers are told apart.
LEMMA Apart ==
  /\ Reader # Nobody /\ Describer # Nobody /\ Reader # Describer
  /\ \A c \in Cancellers : c # Reader /\ c # Describer /\ c # Nobody
BY QueryAssumption, Zenon DEF Reader, Describer

\* A call of another actor leaves the reader's part as it is.
LEMMA ReaderFrame ==
  ASSUME ReaderOK, UNCHANGED reader, poll.desc = 0 => poll'.desc = 0,
         GateOf(Describer) \/ \E c \in Cancellers : GateOf(c)
  PROVE  ReaderOK'
<1>1. gate' = Reader <=> gate = Reader
  BY Apart, Zenon DEF GateOf
<1> QED BY <1>1, Zenon DEF ReaderOK

\* A call of the reader leaves the cancellations' part as it is, and so does a describe.
LEMMA CancelFrame ==
  ASSUME CancelOK, UNCHANGED <<cancel, cancelGate>>, GateOf(Reader) \/ GateOf(Describer)
  PROVE  CancelOK'
<1>1. \A c \in Cancellers : gate' = c <=> gate = c
  BY Apart, Zenon DEF GateOf
<1> QED BY <1>1, Zenon DEF CancelOK

\* A call of another actor leaves the describe's part as it is.
LEMMA DescribeFrame ==
  ASSUME DescribeOK, UNCHANGED describer, poll.desc = 0 => poll'.desc = 0,
         GateOf(Reader) \/ \E c \in Cancellers : GateOf(c)
  PROVE  DescribeOK'
<1>1. gate' = Describer <=> gate = Describer
  BY Apart, Zenon DEF GateOf
<1> QED BY <1>1, Zenon DEF DescribeOK

\* The state of the last poll and the lifecycle move on: no one has been told more.
LEMMA RunsFrame ==
  ASSUME StatementRuns, UNCHANGED <<srv, cancel, handle, outcome>>, Onward, Advanced
  PROVE  StatementRuns'
BY Zenon DEF StatementRuns, Onward, Advanced, Settled

\* Nor is there a new doubt.
LEMMA DoubtFrame ==
  ASSUME Doubt, UNCHANGED <<late, doubt, srv, cancel>>, Onward
  PROVE  Doubt'
<1>1. UNCHANGED <<late, uncertain, overruled, srv, cancel>>
  BY Zenon DEF doubt
<1>2. /\ \A c \in Cancellers : Rejected(c)' <=> Rejected(c)
      /\ \A c \in Cancellers : Accepted(c)' <=> Accepted(c)
      /\ \A c \in Cancellers : Doubtful(c)' <=> Doubtful(c)
  BY <1>1, Zenon DEF Rejected, Accepted, Doubtful
<1>3. lifecycle \in Ending => lifecycle' \in Ending
  BY Zenon DEF Onward
<1> QED BY <1>1, <1>2, <1>3, SMTT(30) DEF Doubt, Ending

LEMMA JobFrame ==
  ASSUME JobOK, UNCHANGED jobVars
  PROVE  JobOK'
BY Zenon DEF JobOK, jobVars, Settled

LEMMA NoJobStep ==
  ASSUME JobInv, UNCHANGED jobVars
  PROVE  JobSteady
BY JobFrame, Zenon DEF JobInv, JobSteady, jobVars

-----------------------------------------------------------------------------
(* A step of the reader, of its stream's consumer or of a describe         *)

\* A step that changes the reader's call and stream alone.
LEMMA ReaderEffect ==
  ASSUME JobInv, UNCHANGED <<srv, late, doubt, cancelGate, cancel, describer>>,
         JobSteady, Onward, Advanced, GateOf(Reader),
         stream' \in Channel, Len(stream'.chan) <= Capacity, ReaderOK',
         task \in Before => reader'.pc = "idle" /\ reader'.back = "none"
  PROVE  JobInv'
<1> USE DEF JobInv
<1>1. /\ UNCHANGED <<uncertain, overruled, outcome, handle>>
      /\ task' \in Before => task \in Before
  BY Zenon DEF doubt, JobSteady
<1>2. gate' \in Actors
  BY Zenon DEF GateOf, StateOK, Actors
<1>3. StateOK'
  BY <1>1, <1>2, Zenon DEF StateOK, Onward, Advanced
<1>4. CancelOK' /\ DescribeOK'
  BY CancelFrame, DescribeFrame, Zenon DEF Advanced
<1>5. StatementRuns' /\ Doubt' /\ JobOK'
  BY <1>1, RunsFrame, DoubtFrame, Zenon DEF JobSteady
<1>6. Unsubmitted'
  BY <1>1, Zenon DEF Unsubmitted, Onward, Before
<1> QED BY <1>3, <1>4, <1>5, <1>6, Zenon

\* A step that changes the call of describe alone.
LEMMA DescribeEffect ==
  ASSUME JobInv, UNCHANGED <<srv, late, doubt, cancelGate, cancel, reader, stream, jobVars>>,
         Onward, Advanced, GateOf(Describer), DescribeOK', task \notin Before
  PROVE  JobInv'
<1> USE DEF JobInv
<1>1. UNCHANGED <<uncertain, overruled, task, outcome, handle>>
  BY Zenon DEF doubt, jobVars
<1>2. gate' \in Actors
  BY Zenon DEF GateOf, StateOK, Actors
<1>3. StateOK'
  BY <1>1, <1>2, Zenon DEF StateOK, Onward, Advanced
<1>4. CancelOK' /\ ReaderOK'
  BY CancelFrame, ReaderFrame, Zenon DEF Advanced
<1>5. StatementRuns' /\ Doubt' /\ JobOK'
  BY <1>1, RunsFrame, DoubtFrame, JobFrame, Zenon
<1>6. Unsubmitted'
  BY <1>1, Zenon DEF Unsubmitted, Before
<1> QED BY <1>3, <1>4, <1>5, <1>6, Zenon

\* A step of the job alone.
LEMMA JobEffect ==
  ASSUME JobInv, UNCHANGED queryVars, JobOK', task' \in Before => task \in Before,
         \A c \in Cancellers : handle'[c] = "ok" =>
            handle[c] = "ok" \/ outcome # "none" \/ srv.state # "running",
         outcome # "none" => outcome' # "none"
  PROVE  JobInv'
<1> USE DEF JobInv
<1>1. UNCHANGED <<srv, late, poll, lifecycle, uncertain, gate, cancelGate, reader,
                  stream, cancel, describer, overruled>>
  BY Zenon DEF queryVars
<1>2. StateOK' /\ ReaderOK' /\ CancelOK' /\ DescribeOK'
  BY <1>1, ZenonT(40) DEF StateOK, ReaderOK, CancelOK, DescribeOK
<1>3. Unsubmitted'
  BY <1>1, Zenon DEF Unsubmitted, Before
<1>4. StatementRuns'
  BY <1>1, Zenon DEF StatementRuns, Settled
<1>5. Doubt'
  BY <1>1, Zenon DEF Doubt, Rejected, Accepted, Doubtful
<1> QED BY <1>2, <1>3, <1>4, <1>5, Zenon

-----------------------------------------------------------------------------
(* What the steps of a call share                                          *)

\* A step that polls nothing and decides nothing.
LEMMA Steady ==
  ASSUME JobInv, UNCHANGED <<poll, lifecycle>>
  PROVE  Onward /\ Advanced
BY Zenon DEF JobInv, StateOK, StatementRuns, Onward, Advanced, Ending

\* The answer to a poll: the last one is final.
LEMMA Updated ==
  ASSUME JobInv, NEW desc \in 0..MaxPolls, desc # 0, Answers(desc), task \notin Before,
         update_state(desc, Answer(desc))
  PROVE  Onward /\ Advanced
<1>1. CASE poll.desc # desc
  BY <1>1, Steady, Zenon DEF update_state
<1>2. CASE poll.desc = desc
  <2>1. poll' = Answer(desc)
    BY <1>2, Zenon DEF update_state
  <2>2. srv.info \in BOOLEAN /\ srv.eps \in 0..MaxEndpoints
    BY Zenon DEF JobInv, StateOK, Server
  <2>3. /\ MaxPolls \in Nat
        /\ srv.state = "done" => Answer(desc).desc = 0
        /\ srv.state # "done" => Answer(desc).desc = desc + 1 /\ desc < MaxPolls
    BY QueryAssumption, Zenon DEF Answer, Answers, Works
  <2>4. Answer(desc).desc \in 0..MaxPolls
    BY <2>3, SMTT(30)
  <2>5. Answer(desc) \in Polls
    BY <2>2, <2>4, Zenon DEF Answer, Polls
  <2>6. srv.state = "running" => poll'.desc # 0
    BY <2>1, <2>3, SMTT(30)
  <2>7. Advanced
    BY <1>2, <2>1, <2>5, <2>6, Zenon DEF Advanced
  <2>8. \/ lifecycle' = lifecycle
        \/ lifecycle = "Running" /\ lifecycle' = "Ready"
    BY <1>2, Zenon DEF update_state, mark_ready
  <2>9. Onward
    BY <2>8, Zenon DEF Onward, JobInv, StateOK, StatementRuns, Lifecycles, Ending
  <2> QED BY <2>7, <2>9, Zenon
<1> QED BY <1>1, <1>2, Zenon

\* How a call or the task of a reader fails.
LEMMA Failing ==
  ASSUME ReaderOK, reader.pc \notin {"idle", "failed", "ended"}, NEW error \in Errors
  PROVE  /\ Fails(reader, error) \in ReadCall
         /\ Fails(reader, error).pc \in {"failed", "report"}
         /\ Fails(reader, error).pc = "report" => Fails(reader, error).back # "none"
<1>1. reader \in ReadCall /\ reader.back # "none" /\ reader.calls \in Nat /\ MaxPolls \in Nat
  BY QueryAssumption, Zenon DEF ReaderOK, ReadCall
<1>2. CASE reader.back = "prepare"
  <2>1. Fails(reader, error) =
          [pc |-> "failed", next |-> 0, open |-> 0, batch |-> 0, desc |-> 0,
           back |-> "none", error |-> error, calls |-> reader.calls]
    BY <1>2, Zenon DEF Fails, NoReader
  <2> QED BY <1>1, <2>1, SMTT(30) DEF ReadCall
<1>3. CASE reader.back # "prepare"
  <2>1. Fails(reader, error) = [reader EXCEPT !.pc = "report", !.error = error]
    BY <1>3, Zenon DEF Fails
  <2> QED BY <1>1, <2>1, Zenon DEF ReadCall
<1> QED BY <1>2, <1>3, Zenon

\* How a reader that is done or dropped rests.
Resting(at) == [pc |-> at, next |-> 0, open |-> 0, batch |-> 0, desc |-> 0,
                back |-> "none", error |-> "none", calls |-> reader.calls]

LEMMA AtRest ==
  ASSUME ReaderOK, NEW at \in {"idle", "ended"}
  PROVE  Resting(at) \in ReadCall /\ Resting(at).pc = at /\ Resting(at).back = "none"
<1>1. reader.calls \in Nat /\ MaxPolls \in Nat
  BY QueryAssumption, Zenon DEF ReaderOK, ReadCall
<1> QED BY <1>1, SMTT(30) DEF Resting, ReadCall, Errors

-----------------------------------------------------------------------------
(* The reader                                                              *)

\* What a step of the reader leaves alone.
ReadsOnly == /\ UNCHANGED <<srv, late, poll, lifecycle, doubt, cancelGate, cancel, describer>>
             /\ JobSteady

\* A reader that is not idle belongs to a submitted query.
LEMMA ReaderInUse ==
  ASSUME JobInv, reader.pc # "idle" \/ reader.back # "none"
  PROVE  task \notin Before
BY Zenon DEF JobInv, Unsubmitted, Before

\* A step of the reader that gives up the gate or does not hold it.
LEMMA ReaderMoves ==
  ASSUME JobInv, ReadsOnly, task \notin Before,
         UNCHANGED stream \/ (stream' \in Channel /\ Len(stream'.chan) <= Capacity),
         (gate' = gate /\ reader.pc # "polling") \/ Release(Reader),
         reader' \in ReadCall, reader'.pc \notin {"gate", "polling", "complete"},
         reader'.pc \in {"idle", "failed", "ended"} \/ reader'.back # "none"
  PROVE  JobInv'
<1>1. GateOf(Reader) /\ gate' # Reader
  BY Apart, Zenon DEF GateOf, Release, JobInv, ReaderOK
<1>2. Onward /\ Advanced
  BY Steady, Zenon DEF ReadsOnly
<1>3. ReaderOK'
  BY <1>1, Zenon DEF ReaderOK
<1>4. stream' \in Channel /\ Len(stream'.chan) <= Capacity
  BY Zenon DEF JobInv, StateOK
<1> QED BY <1>1, <1>2, <1>3, <1>4, ReaderEffect, Zenon DEF ReadsOnly

\* The gate to the polls is free.
LEMMA PollGateKeeps ==
  ASSUME JobInv, PollGate, UNCHANGED jobVars
  PROVE  JobInv'
<1> USE DEF JobInv
<1>1. task \notin Before /\ Onward /\ Advanced
  BY ReaderInUse, Steady, Zenon DEF PollGate
<1>2. stream' \in Channel /\ Len(stream'.chan) <= Capacity
  BY Zenon DEF PollGate, StateOK
<1>3. reader.back \in {"prepare", "loop"} /\ reader.desc # 0 /\ reader \in ReadCall
  BY Zenon DEF PollGate, ReaderOK, ReadCall
<1>4. CASE poll.desc = reader.desc
  <2>1. gate = Nobody /\ gate' = Reader /\ reader' = [reader EXCEPT !.pc = "polling"]
    BY <1>4, Zenon DEF PollGate
  <2>2. reader' \in ReadCall /\ reader'.pc = "polling" /\ reader'.desc = reader.desc
        /\ reader'.back = reader.back
    BY <1>3, <2>1, Zenon DEF ReadCall
  <2>3. ReaderOK' /\ GateOf(Reader)
    BY <1>3, <2>1, <2>2, Zenon DEF ReaderOK, GateOf
  <2> QED BY <1>1, <1>2, <2>3, ReaderEffect, NoJobStep, Zenon DEF PollGate
<1>5. CASE poll.desc # reader.desc
  <2>1. gate' = gate /\ gate = Nobody /\ reader' = [reader EXCEPT !.pc = reader.back]
    BY <1>5, Zenon DEF PollGate
  <2>2. reader' \in ReadCall /\ reader'.pc = reader.back /\ reader'.back = reader.back
    BY <1>3, <2>1, Zenon DEF ReadCall
  <2>3. reader.pc = "gate"
    BY Zenon DEF PollGate
  <2> QED BY <1>1, <1>3, <2>1, <2>2, <2>3, ReaderMoves, NoJobStep, Zenon DEF ReadsOnly, PollGate
<1> QED BY <1>4, <1>5, Zenon

\* The reader's poll is answered.
LEMMA PollAnsweredKeeps ==
  ASSUME JobInv, PollAnswered, UNCHANGED jobVars
  PROVE  JobInv'
<1> USE DEF JobInv
<1>1. task \notin Before
  BY ReaderInUse, Zenon DEF PollAnswered
<1>2. stream' \in Channel /\ Len(stream'.chan) <= Capacity
  BY Zenon DEF PollAnswered, StateOK
<1>3. reader.back \in {"prepare", "loop"} /\ reader.desc # 0 /\ reader \in ReadCall
      /\ reader.desc \in 0..MaxPolls /\ gate = Reader
  BY Zenon DEF PollAnswered, ReaderOK, ReadCall
<1>4. Onward /\ Advanced
  BY <1>1, <1>3, Updated, Zenon DEF PollAnswered
<1>5. gate' = Nobody /\ reader' = [reader EXCEPT !.pc = reader.back]
  BY Zenon DEF PollAnswered
<1>6. reader' \in ReadCall /\ reader'.pc = reader.back /\ reader'.back = reader.back
  BY <1>3, <1>5, Zenon DEF ReadCall
<1>7. ReaderOK' /\ GateOf(Reader)
  BY <1>3, <1>5, <1>6, Apart, Zenon DEF ReaderOK, GateOf
<1> QED BY <1>1, <1>2, <1>4, <1>7, ReaderEffect, NoJobStep, Zenon DEF PollAnswered

\* A call of reader begins.
LEMMA start_readerKeeps ==
  ASSUME JobInv, start_reader, JobSteady, task \notin Before
  PROVE  JobInv'
<1>1. reader.calls \in Nat
  BY Zenon DEF JobInv, ReaderOK, ReadCall
<1>2. reader' = [NoReader EXCEPT !.pc = "prepare", !.back = "prepare",
                                 !.calls = reader.calls + 1]
  BY Zenon DEF start_reader
<1>3. reader' = [pc |-> "prepare", next |-> 0, open |-> 0, batch |-> 0, desc |-> 0,
                 back |-> "prepare", error |-> "none", calls |-> reader.calls + 1]
  BY <1>2, Zenon DEF NoReader
<1>4. reader' \in ReadCall /\ reader'.pc = "prepare" /\ reader'.back = "prepare"
  BY <1>1, <1>3, QueryAssumption, SMTT(30) DEF ReadCall, Errors
<1>5. gate' = gate /\ reader.pc # "polling"
  BY Zenon DEF start_reader
<1> QED BY <1>4, <1>5, ReaderMoves, Zenon DEF start_reader, ReadsOnly

\* The stream is handed out, with the first batch if there is one.
LEMMA PreparedKeeps ==
  ASSUME JobInv, ReadsOnly, gate' = gate, reader.pc \in {"prepare", "open"},
         NEW next \in Nat, NEW batch \in Nat, NEW open \in Nat, Prepared(next, batch, open)
  PROVE  JobInv'
<1>1. task \notin Before
  BY ReaderInUse, Zenon
<1>2. reader \in ReadCall
  BY Zenon DEF JobInv, ReaderOK
<1>3. stream \in Channel /\ Len(stream.chan) <= Capacity
  BY Zenon DEF JobInv, StateOK
<1>4. stream' = [stream EXCEPT !.state = "open"]
  BY Zenon DEF Prepared
<1>5. stream' \in Channel /\ Len(stream'.chan) <= Capacity
  BY <1>3, <1>4, Zenon DEF Channel
<1>6. PICK at \in {"loop", "send"} :
        reader' = [reader EXCEPT !.pc = at, !.back = "loop", !.next = next,
                                 !.open = open, !.batch = batch]
  BY Zenon DEF Prepared
<1>7. reader' \in ReadCall /\ reader'.pc = at /\ reader'.back = "loop"
  BY <1>2, <1>6, Zenon DEF ReadCall
<1> QED BY <1>1, <1>5, <1>7, ReaderMoves, Zenon

\* The reader asks for a poll, of a descriptor.
LEMMA AsksForPoll ==
  ASSUME JobInv, ReadsOnly, UNCHANGED <<gate, stream>>, reader.pc \in {"prepare", "loop"},
         poll.desc # 0, reader' = [reader EXCEPT !.pc = "gate", !.desc = poll.desc]
  PROVE  JobInv'
<1>1. task \notin Before /\ Onward /\ Advanced
  BY ReaderInUse, Steady, Zenon DEF ReadsOnly
<1>2. reader \in ReadCall /\ reader.back # "none" /\ gate # Reader /\ poll.desc \in 0..MaxPolls
  BY Zenon DEF JobInv, ReaderOK, StateOK, Polls
<1>3. reader' \in ReadCall /\ reader'.pc = "gate" /\ reader'.desc = poll.desc
      /\ reader'.back = reader.back
  BY <1>2, Zenon DEF ReadCall
<1>4. ReaderOK' /\ GateOf(Reader)
  BY <1>2, <1>3, Zenon DEF ReaderOK, GateOf
<1>5. stream' \in Channel /\ Len(stream'.chan) <= Capacity
  BY Zenon DEF JobInv, StateOK
<1> QED BY <1>1, <1>4, <1>5, ReaderEffect, Zenon DEF ReadsOnly

\* The call or the task of a reader fails, and gives up the gate.
LEMMA FailsKeeps ==
  ASSUME JobInv, ReadsOnly, UNCHANGED stream,
         (gate' = gate /\ reader.pc # "polling") \/ Release(Reader),
         reader.pc \notin {"idle", "failed", "ended"}, NEW error \in Errors,
         reader' = Fails(reader, error)
  PROVE  JobInv'
<1>1. task \notin Before
  BY ReaderInUse, Zenon
<1>2. /\ reader' \in ReadCall /\ reader'.pc \in {"failed", "report"}
      /\ reader'.pc = "report" => reader'.back # "none"
  BY Failing, Zenon DEF JobInv
<1> QED BY <1>1, <1>2, ReaderMoves, Zenon

\* The state shows a result, or is polled.
LEMMA prepare_resultKeeps ==
  ASSUME JobInv, prepare_result, UNCHANGED jobVars
  PROVE  JobInv'
<1>1. ReadsOnly /\ reader.pc = "prepare" /\ gate' = gate
  BY NoJobStep, Zenon DEF prepare_result, ReadsOnly
<1>2. poll.eps \in Nat /\ poll.desc \in Nat /\ poll.info \in BOOLEAN
  BY QueryAssumption, SMTT(30) DEF JobInv, StateOK, Polls
<1>3. CASE is_cancellation_requested
  <2>1. reader' = Fails(reader, "cancelled") /\ UNCHANGED stream
    BY <1>3, Zenon DEF prepare_result
  <2> QED BY <1>1, <2>1, FailsKeeps, Zenon DEF Errors
<1>4. CASE ~is_cancellation_requested /\ poll.info /\ poll.eps > 0
  <2>1. reader' = [reader EXCEPT !.pc = "open"] /\ UNCHANGED stream
    BY <1>4, SMTT(30) DEF prepare_result
  <2>2. reader \in ReadCall /\ reader.back # "none" /\ task \notin Before
    BY <1>1, ReaderInUse, Zenon DEF JobInv, ReaderOK
  <2>3. reader' \in ReadCall /\ reader'.pc = "open" /\ reader'.back = reader.back
    BY <2>1, <2>2, Zenon DEF ReadCall
  <2> QED BY <1>1, <2>1, <2>2, <2>3, ReaderMoves, Zenon
<1>5. CASE ~is_cancellation_requested /\ poll.info /\ poll.eps = 0 /\ poll.desc = 0
  <2>1. Prepared(0, 0, 0)
    BY <1>5, SMTT(30) DEF prepare_result
  <2> QED BY <1>1, <2>1, PreparedKeeps, Zenon
<1>6. CASE ~is_cancellation_requested /\ ~poll.info /\ poll.desc = 0
  <2>1. reader' = Fails(reader, "failed") /\ UNCHANGED stream
    BY <1>6, Zenon DEF prepare_result
  <2> QED BY <1>1, <2>1, FailsKeeps, Zenon DEF Errors
<1>7. CASE /\ ~is_cancellation_requested /\ poll.desc # 0
           /\ ~(poll.info /\ poll.eps > 0)
  <2>1. reader' = [reader EXCEPT !.pc = "gate", !.desc = poll.desc] /\ UNCHANGED stream
    BY <1>7, Zenon DEF prepare_result
  <2> QED BY <1>1, <1>7, <2>1, AsksForPoll, Zenon
<1> QED BY <1>2, <1>3, <1>4, <1>5, <1>6, <1>7, SMTT(30)

\* The first endpoint is opened.
LEMMA FirstBatchKeeps ==
  ASSUME JobInv, FirstBatch, UNCHANGED jobVars
  PROVE  JobInv'
<1>1. ReadsOnly /\ reader.pc = "open" /\ gate' = gate
  BY NoJobStep, Zenon DEF FirstBatch, ReadsOnly
<1>2. Rows(1) \in Nat
  BY Zenon DEF Rows
<1>3. Prepared(1, Rows(1), IF Rows(1) = 0 THEN 0 ELSE 1)
  BY Zenon DEF FirstBatch, PreparedFirst
<1>4. (IF Rows(1) = 0 THEN 0 ELSE 1) \in Nat
  BY Zenon
<1> QED BY <1>1, <1>2, <1>3, <1>4, PreparedKeeps, Zenon

\* A batch goes into the channel if there is room.
LEMMA send_result_batchKeeps ==
  ASSUME JobInv, send_result_batch, UNCHANGED jobVars
  PROVE  JobInv'
<1>1. ReadsOnly /\ reader.pc = "send" /\ gate' = gate /\ task \notin Before
  BY NoJobStep, ReaderInUse, Zenon DEF send_result_batch, ReadsOnly
<1>2. reader \in ReadCall /\ reader.back # "none" /\ reader.batch \in Nat
  BY <1>1, Zenon DEF JobInv, ReaderOK, ReadCall
<1>3. stream \in Channel /\ stream.chan \in Seq(Nat) /\ Len(stream.chan) < Capacity
      /\ Capacity \in Nat
  BY QueryAssumption, Zenon DEF JobInv, StateOK, Channel, send_result_batch
<1>4. stream' = [stream EXCEPT !.chan = Append(stream.chan, reader.batch)]
  BY Zenon DEF send_result_batch
<1>5. /\ Append(stream.chan, reader.batch) \in Seq(Nat)
      /\ Len(Append(stream.chan, reader.batch)) <= Capacity
  BY <1>2, <1>3, SMTT(30)
<1>6. stream' \in Channel /\ Len(stream'.chan) <= Capacity
  BY <1>3, <1>4, <1>5, Zenon DEF Channel
<1>7. reader' = [reader EXCEPT !.pc = "loop", !.batch = 0]
  BY Zenon DEF send_result_batch
<1>8. reader' \in ReadCall /\ reader'.pc = "loop" /\ reader'.back = reader.back
  BY <1>2, <1>7, Zenon DEF ReadCall
<1> QED BY <1>1, <1>2, <1>6, <1>8, ReaderMoves, Zenon

\* The task of the stream looks at what is next.
LEMMA run_result_streamKeeps ==
  ASSUME JobInv, run_result_stream, UNCHANGED jobVars
  PROVE  JobInv'
<1>1. ReadsOnly /\ reader.pc = "loop" /\ UNCHANGED <<gate, stream>> /\ task \notin Before
  BY NoJobStep, ReaderInUse, Zenon DEF run_result_stream, ReadsOnly
<1>2. reader \in ReadCall /\ reader.back # "none" /\ reader.next \in Nat /\ reader.open \in Nat
  BY <1>1, Zenon DEF JobInv, ReaderOK, ReadCall
<1>3. poll.eps \in Nat /\ poll.desc \in Nat
  BY QueryAssumption, SMTT(30) DEF JobInv, StateOK, Polls
<1>4. CASE is_cancellation_requested
  <2>1. reader' = Fails(reader, "cancelled")
    BY <1>4, Zenon DEF run_result_stream
  <2> QED BY <1>1, <2>1, FailsKeeps, Zenon DEF Errors
<1>5. CASE ~is_cancellation_requested /\ reader.open > 0
  <2>1. reader' = [reader EXCEPT !.pc = "next"]
    BY <1>5, <1>2, SMTT(30) DEF run_result_stream
  <2>2. reader' \in ReadCall /\ reader'.pc = "next" /\ reader'.back = reader.back
    BY <1>2, <2>1, Zenon DEF ReadCall
  <2> QED BY <1>1, <1>2, <2>2, ReaderMoves, Zenon
<1>6. CASE ~is_cancellation_requested /\ reader.open = 0 /\ reader.next > poll.eps
  <2>1. reader' = Fails(reader, "failed")
    BY <1>6, <1>2, <1>3, SMTT(30) DEF run_result_stream
  <2> QED BY <1>1, <2>1, FailsKeeps, Zenon DEF Errors
<1>7. CASE ~is_cancellation_requested /\ reader.open = 0 /\ reader.next < poll.eps
  <2>3. PICK n \in Nat : n = reader.next + 1
    BY <1>2, SMTT(30)
  <2>4. ~(reader.next > poll.eps) /\ ~(reader.open > 0)
    BY <1>2, <1>3, <1>7, SMTT(30)
  <2>1. reader' = [reader EXCEPT !.pc = "opening", !.next = n]
    BY <1>7, <2>3, <2>4, Zenon DEF run_result_stream
  <2>2. reader' \in ReadCall /\ reader'.pc = "opening" /\ reader'.back = reader.back
    BY <1>2, <2>1, Zenon DEF ReadCall
  <2> QED BY <1>1, <1>2, <2>2, ReaderMoves, Zenon
<1>8. CASE /\ ~is_cancellation_requested /\ reader.open = 0 /\ reader.next = poll.eps
           /\ poll.desc > 0
  <2>1. reader' = [reader EXCEPT !.pc = "gate", !.desc = poll.desc]
    BY <1>8, <1>2, <1>3, SMTT(30) DEF run_result_stream
  <2> QED BY <1>1, <1>8, <2>1, AsksForPoll, SMTT(30)
<1>9. CASE /\ ~is_cancellation_requested /\ reader.open = 0 /\ reader.next = poll.eps
           /\ poll.desc = 0
  <2>1. reader' = [reader EXCEPT !.pc = "complete"]
    BY <1>9, <1>2, <1>3, SMTT(30) DEF run_result_stream
  <2>2. reader' \in ReadCall /\ reader'.pc = "complete" /\ reader'.back = reader.back
    BY <1>2, <2>1, Zenon DEF ReadCall
  <2>3. Onward /\ Advanced /\ poll' = poll
    BY <1>1, Steady, Zenon DEF ReadsOnly
  <2>4. ReaderOK' /\ GateOf(Reader)
    BY <1>1, <1>2, <1>9, <2>2, <2>3, Zenon DEF ReaderOK, GateOf, JobInv
  <2>5. stream' \in Channel /\ Len(stream'.chan) <= Capacity
    BY <1>1, Zenon DEF JobInv, StateOK
  <2> QED BY <1>1, <2>3, <2>4, <2>5, ReaderEffect, Zenon DEF ReadsOnly
<1> QED BY <1>2, <1>3, <1>4, <1>5, <1>6, <1>7, <1>8, <1>9, SMTT(30)

\* The next endpoint is opened.
LEMMA OpenNextKeeps ==
  ASSUME JobInv, OpenNext, UNCHANGED jobVars
  PROVE  JobInv'
<1>1. ReadsOnly /\ reader.pc = "opening" /\ UNCHANGED <<gate, stream>> /\ task \notin Before
  BY NoJobStep, ReaderInUse, Zenon DEF OpenNext, ReadsOnly
<1>2. reader \in ReadCall /\ reader.back # "none" /\ reader.next \in Nat
  BY <1>1, Zenon DEF JobInv, ReaderOK, ReadCall
<1>3. PICK rows \in Nat : rows = Rows(reader.next)
  BY <1>2, Zenon DEF Rows
<1>4. PICK at \in {"loop", "send"} :
        reader' = [reader EXCEPT !.pc = at, !.batch = rows, !.open = rows]
  BY <1>3, Zenon DEF OpenNext
<1>5. reader' \in ReadCall /\ reader'.pc = at /\ reader'.back = reader.back
  BY <1>2, <1>4, Zenon DEF ReadCall
<1> QED BY <1>1, <1>2, <1>5, ReaderMoves, Zenon

\* An endpoint is read to its end.
LEMMA EndOfEndpointKeeps ==
  ASSUME JobInv, EndOfEndpoint, UNCHANGED jobVars
  PROVE  JobInv'
<1>1. ReadsOnly /\ reader.pc = "next" /\ UNCHANGED <<gate, stream>> /\ task \notin Before
  BY NoJobStep, ReaderInUse, Zenon DEF EndOfEndpoint, ReadsOnly
<1>2. reader \in ReadCall /\ reader.back # "none"
  BY <1>1, Zenon DEF JobInv, ReaderOK
<1>3. reader' = [reader EXCEPT !.pc = "loop", !.open = 0]
  BY Zenon DEF EndOfEndpoint
<1>4. reader' \in ReadCall /\ reader'.pc = "loop" /\ reader'.back = reader.back
  BY <1>2, <1>3, Zenon DEF ReadCall
<1> QED BY <1>1, <1>2, <1>4, ReaderMoves, Zenon

\* The result is complete, unless a cancellation was requested.
LEMMA CompleteResultKeeps ==
  ASSUME JobInv, CompleteResult, UNCHANGED jobVars
  PROVE  JobInv'
<1>1. reader.pc = "complete" /\ task \notin Before /\ UNCHANGED <<poll, gate, stream>>
  BY ReaderInUse, Zenon DEF CompleteResult
<1>2. poll.desc = 0 /\ srv.state # "running" /\ gate # Reader
  BY <1>1, Zenon DEF JobInv, ReaderOK, StatementRuns
<1>3. lifecycle \in Lifecycles /\ (lifecycle' = lifecycle \/ lifecycle' = "Completed")
  BY Zenon DEF JobInv, StateOK, CompleteResult, mark_result_completed
<1>4. Onward
  BY <1>1, <1>2, <1>3, Zenon DEF Onward, Ending, Lifecycles
<1>5. Advanced
  BY <1>1, <1>2, Zenon DEF Advanced, JobInv, StateOK
<1>6. /\ reader' \in ReadCall /\ reader'.pc \in {"ended", "failed", "report"}
      /\ reader'.pc = "report" => reader'.back # "none"
  <2>1. CASE lifecycle' = "Completed"
    <3>1. reader' = Resting("ended")
      BY <2>1, Zenon DEF CompleteResult, NoReader, Resting
    <3> QED BY <3>1, AtRest, Zenon DEF JobInv
  <2>2. CASE lifecycle' # "Completed"
    <3>1. reader' = Fails(reader, "cancelled")
      BY <2>2, Zenon DEF CompleteResult
    <3> QED BY <1>1, <3>1, Failing, Zenon DEF JobInv, Errors
  <2> QED BY <2>1, <2>2, Zenon
<1>7. ReaderOK' /\ GateOf(Reader)
  BY <1>1, <1>2, <1>6, Zenon DEF ReaderOK, GateOf
<1>8. stream' \in Channel /\ Len(stream'.chan) <= Capacity
  BY <1>1, Zenon DEF JobInv, StateOK
<1> QED BY <1>1, <1>4, <1>5, <1>7, <1>8, ReaderEffect, NoJobStep, Zenon DEF CompleteResult

\* A request of the reader fails, or a cancellation ends it.
LEMMA ReadFailsKeeps ==
  ASSUME JobInv, ReadFails \/ ReadCancelled, UNCHANGED jobVars
  PROVE  JobInv'
<1>1. ReadsOnly /\ UNCHANGED stream /\ Release(Reader)
  BY NoJobStep, Zenon DEF ReadFails, ReadCancelled, ReadsOnly
<1>2. reader.pc \notin {"idle", "failed", "ended"}
  BY Zenon DEF ReadFails, ReadCancelled, Waiting
<1>3. PICK error \in Errors : reader' = Fails(reader, error)
  BY Zenon DEF ReadFails, ReadCancelled, Errors
<1> QED BY <1>1, <1>2, <1>3, FailsKeeps, Zenon

\* A reader comes to rest.
LEMMA RestsKeeps ==
  ASSUME JobInv, ReadsOnly, task \notin Before,
         UNCHANGED stream \/ (stream' \in Channel /\ Len(stream'.chan) <= Capacity),
         (gate' = gate /\ reader.pc # "polling") \/ Release(Reader),
         NEW at \in {"idle", "ended"}, reader' = Resting(at)
  PROVE  JobInv'
<1>1. reader' \in ReadCall /\ reader'.pc = at /\ reader'.back = "none"
  BY AtRest, Zenon DEF JobInv
<1> QED BY <1>1, ReaderMoves, Zenon

\* The task reports its error through the channel.
LEMMA ReportErrorKeeps ==
  ASSUME JobInv, ReportError, UNCHANGED jobVars
  PROVE  JobInv'
<1>1. ReadsOnly /\ reader.pc = "report" /\ UNCHANGED gate /\ task \notin Before
  BY NoJobStep, ReaderInUse, Zenon DEF ReportError, ReadsOnly
<1>2. reader' = Resting("ended")
  BY Zenon DEF ReportError, NoReader, Resting
<1>3. CASE Closed
  BY <1>1, <1>2, <1>3, RestsKeeps, Zenon DEF ReportError
<1>4. CASE ~Closed
  <2>1. stream \in Channel /\ stream.chan \in Seq(Nat) /\ Len(stream.chan) < Capacity
        /\ Capacity \in Nat /\ reader.error \in Errors
    BY <1>4, QueryAssumption, Zenon DEF JobInv, StateOK, Channel, ReportError, ReaderOK, ReadCall
  <2>2. stream' = [stream EXCEPT !.chan = Append(stream.chan, 0), !.error = reader.error]
    BY <1>4, Zenon DEF ReportError, ErrorItem
  <2>3. Append(stream.chan, 0) \in Seq(Nat) /\ Len(Append(stream.chan, 0)) <= Capacity
    BY <2>1, SMTT(30)
  <2>4. stream' \in Channel /\ Len(stream'.chan) <= Capacity
    BY <2>1, <2>2, <2>3, Zenon DEF Channel
  <2> QED BY <1>1, <1>2, <2>4, RestsKeeps, Zenon
<1> QED BY <1>3, <1>4, Zenon

\* The task finds its stream dropped.
LEMMA StreamClosedKeeps ==
  ASSUME JobInv, StreamClosed, UNCHANGED jobVars
  PROVE  JobInv'
<1>1. ReadsOnly /\ reader.pc # "idle" /\ UNCHANGED stream /\ Release(Reader)
  BY NoJobStep, Zenon DEF StreamClosed, ReadsOnly, Waiting
<1>2. reader' = Resting("ended")
  BY Zenon DEF StreamClosed, NoReader, Resting
<1> QED BY <1>1, <1>2, RestsKeeps, ReaderInUse, Zenon

\* A caller gives up on reader.
LEMMA DropReaderKeeps ==
  ASSUME JobInv, DropReader, JobSteady
  PROVE  JobInv'
<1>1. ReadsOnly /\ reader.back # "none" /\ UNCHANGED stream /\ Release(Reader)
  BY Zenon DEF DropReader, ReadsOnly
<1>2. reader' = Resting("idle")
  BY Zenon DEF DropReader, NoReader, Resting
<1> QED BY <1>1, <1>2, RestsKeeps, ReaderInUse, Zenon

\* A step of the consumer changes the stream alone.
LEMMA StreamMoves ==
  ASSUME JobInv, ReadsOnly, UNCHANGED <<reader, gate>>, stream' \in Channel,
         Len(stream'.chan) <= Capacity
  PROVE  JobInv'
<1>1. Onward /\ Advanced /\ GateOf(Reader)
  BY Steady, Zenon DEF ReadsOnly, GateOf
<1>2. ReaderOK'
  BY Zenon DEF JobInv, ReaderOK, ReadsOnly
<1>3. task \in Before => reader'.pc = "idle" /\ reader'.back = "none"
  BY Zenon DEF JobInv, Unsubmitted, Before
<1> QED BY <1>1, <1>2, <1>3, ReaderEffect, Zenon DEF ReadsOnly

\* The consumer takes an item from the channel.
LEMMA ReceiveKeeps ==
  ASSUME JobInv, Receive, UNCHANGED jobVars
  PROVE  JobInv'
<1>1. ReadsOnly /\ UNCHANGED <<reader, gate>>
  BY NoJobStep, Zenon DEF Receive, ReadsOnly
<1>2. stream \in Channel /\ stream.chan \in Seq(Nat) /\ stream.got \in Seq(Nat)
      /\ Len(stream.chan) <= Capacity /\ Capacity \in Nat /\ stream.chan # << >>
  BY QueryAssumption, Zenon DEF JobInv, StateOK, Channel, Receive
<1>3. /\ Tail(stream.chan) \in Seq(Nat) /\ Head(stream.chan) \in Nat
      /\ Len(Tail(stream.chan)) <= Capacity
  BY <1>2, SMTT(30)
<1>4. Append(stream.got, Head(stream.chan)) \in Seq(Nat)
  BY <1>2, <1>3, SMTT(30)
<1>5. PICK got \in Seq(Nat), state \in {"error", "open"} :
        stream' = [stream EXCEPT !.chan = Tail(stream.chan), !.got = got, !.state = state]
  BY <1>2, <1>4, Zenon DEF Receive
<1>6. stream' \in Channel /\ Len(stream'.chan) <= Capacity
  BY <1>2, <1>3, <1>5, Zenon DEF Channel
<1> QED BY <1>1, <1>6, StreamMoves, Zenon

\* The consumer sees the end of the stream, or drops it.
LEMMA ReceiveEndKeeps ==
  ASSUME JobInv, ReceiveEnd, UNCHANGED jobVars
  PROVE  JobInv'
<1>1. ReadsOnly /\ UNCHANGED <<reader, gate>>
  BY NoJobStep, Zenon DEF ReceiveEnd, ReadsOnly
<1>2. stream \in Channel /\ Len(stream.chan) <= Capacity
      /\ stream' = [stream EXCEPT !.state = "end"]
  BY Zenon DEF JobInv, StateOK, ReceiveEnd
<1>3. stream' \in Channel /\ Len(stream'.chan) <= Capacity
  BY <1>2, Zenon DEF Channel
<1> QED BY <1>1, <1>3, StreamMoves, Zenon

LEMMA DropStreamKeeps ==
  ASSUME JobInv, DropStream, JobSteady
  PROVE  JobInv'
<1>1. ReadsOnly /\ UNCHANGED <<reader, gate>>
  BY Zenon DEF DropStream, ReadsOnly
<1>2. stream \in Channel /\ Capacity \in Nat
      /\ stream' = [stream EXCEPT !.state = "dropped", !.chan = << >>]
  BY QueryAssumption, Zenon DEF JobInv, StateOK, DropStream
<1>3. << >> \in Seq(Nat) /\ Len(<< >>) <= Capacity
  BY QueryAssumption, SMTT(30)
<1>4. PICK none \in Seq(Nat) : none = << >> /\ Len(none) <= Capacity
  BY <1>3, Zenon
<1>5. stream' = [stream EXCEPT !.state = "dropped", !.chan = none]
  BY <1>2, <1>4, Zenon
<1>6. stream' \in Channel /\ stream'.chan = none
  BY <1>2, <1>4, <1>5, Zenon DEF Channel
<1> QED BY <1>1, <1>4, <1>6, StreamMoves, Zenon

-----------------------------------------------------------------------------
(* cancel                                                                  *)

\* One cancellation is past the gate.
LEMMA OneInside ==
  ASSUME JobInv, NEW c \in Cancellers, NEW d \in Cancellers,
         cancel[c].pc \in Inside, cancel[d].pc \in Inside
  PROVE  c = d
BY Zenon DEF JobInv, CancelOK

\* A cancellation that has begun belongs to a submitted query.
LEMMA CancelInUse ==
  ASSUME JobInv, NEW c \in Cancellers, cancel[c].pc \notin {"idle", "absent"}
  PROVE  task \notin Before
BY Zenon DEF JobInv, Unsubmitted, Before

\* What one call of cancel does to the calls and the gates.
CancelTo(c, new) ==
    /\ cancel' = [cancel EXCEPT ![c] = new] /\ new \in CancelCall
    /\ GateOf(c) /\ (gate' = c <=> new.pc = "polling")
    /\ cancelGate' = cancelGate \/ {cancelGate, cancelGate'} \subseteq {c, Nobody}
    /\ cancelGate' = c <=> new.pc \in Inside
    /\ new.pc \in {"gate", "polling"} => new.desc # 0
    /\ UNCHANGED <<reader, stream, describer>>

LEMMA OneCall ==
  ASSUME JobInv, NEW c \in Cancellers, NEW new, CancelTo(c, new)
  PROVE  /\ cancel'[c] = new
         /\ \A d \in Cancellers : d # c => cancel'[d] = cancel[d]
BY Zenon DEF JobInv, CancelOK, CancelTo

\* A step of one call of cancel.
LEMMA CancelEffect ==
  ASSUME JobInv, NEW c \in Cancellers, NEW new, CancelTo(c, new), task \notin Before,
         task' = task, poll.desc = 0 => poll'.desc = 0,
         srv' \in Server /\ srv'.eps <= srv'.cap, poll' \in Polls, lifecycle' \in Lifecycles,
         late' \in BOOLEAN, uncertain' \in BOOLEAN, overruled' \in BOOLEAN,
         StatementRuns', Doubt', JobOK'
  PROVE  JobInv'
<1> USE DEF JobInv
<1>1. gate' \in Actors /\ cancelGate' \in Actors
  BY Zenon DEF CancelTo, GateOf, StateOK, Actors
<1>2. stream' = stream
  BY Zenon DEF CancelTo
<1>3. StateOK'
  BY <1>1, <1>2, Zenon DEF StateOK
<1>4. ReaderOK' /\ DescribeOK'
  BY ReaderFrame, DescribeFrame, Zenon DEF CancelTo
<1>5. CancelOK'
  <2>1. cancel' \in [Cancellers -> CancelCall]
    BY Zenon DEF CancelTo, CancelOK
  <2>2. ASSUME NEW d \in Cancellers
        PROVE  /\ gate' = d <=> cancel'[d].pc = "polling"
               /\ cancelGate' = d <=> cancel'[d].pc \in Inside
               /\ cancel'[d].pc \in {"gate", "polling"} => cancel'[d].desc # 0
    <3>1. CASE d = c
      BY <3>1, OneCall, Zenon DEF CancelTo
    <3>2. CASE d # c
      <4>1. cancel'[d] = cancel[d]
        BY <3>2, OneCall, Zenon
      <4>2. (gate' = d <=> gate = d) /\ (cancelGate' = d <=> cancelGate = d)
        BY <3>2, Apart, SMTT(30) DEF CancelTo, GateOf
      <4> QED BY <4>1, <4>2, Zenon DEF CancelOK
    <3> QED BY <3>1, <3>2, Zenon
  <2> QED BY <2>1, <2>2, Zenon DEF CancelOK
<1>6. Unsubmitted'
  BY Zenon DEF Unsubmitted, Before
<1> QED BY <1>3, <1>4, <1>5, <1>6, Zenon

\* A step of a call of cancel that asks for no cancellation and hears of none.
LEMMA CancelMoves ==
  ASSUME JobInv, NEW c \in Cancellers, NEW new, CancelTo(c, new), task \notin Before,
         UNCHANGED <<srv, late, doubt, jobVars>>, Onward, Advanced,
         cancel[c].pc # "answered", new.pc \notin {"answered", "restore"},
         new.pc = "ok" => srv.state # "running",
         new.pc \in {"send", "sent"} => (uncertain => new.before)
  PROVE  JobInv'
<1>1. UNCHANGED <<srv, late, uncertain, overruled, task, outcome, handle>>
  BY Zenon DEF doubt, jobVars
<1>2. cancel'[c] = new /\ \A d \in Cancellers : d # c => cancel'[d] = cancel[d]
  BY OneCall, Zenon
<1>3. StatementRuns'
  <2> SUFFICES ASSUME srv.state = "running", NEW d \in Cancellers
               PROVE  /\ poll'.desc # 0 /\ lifecycle' \in {"Running", "Ready"}
                      /\ cancel'[d].pc # "ok" /\ (handle[d] = "ok" => Settled)
                      /\ cancel'[d].pc = "answered" =>
                            cancel'[d].answer \notin {"Cancelled", "Cancelling", "NotFound"}
    BY <1>1, Zenon DEF StatementRuns, Settled, Onward, Advanced
  <2>1. CASE d = c
    BY <1>2, <2>1, Zenon DEF JobInv, StatementRuns, Onward, Advanced
  <2>2. CASE d # c
    BY <1>2, <2>2, Zenon DEF JobInv, StatementRuns, Onward, Advanced
  <2> QED BY <2>1, <2>2, Zenon
<1>4. /\ \A d \in Cancellers : Rejected(d)' => Rejected(d)
      /\ \A d \in Cancellers : Accepted(d) => Accepted(d)'
      /\ \A d \in Cancellers : d # c => (Doubtful(d)' => Doubtful(d))
      /\ Doubtful(c)' => new.pc \in {"send", "sent"}
  BY <1>2, Zenon DEF Rejected, Accepted, Doubtful
<1>5. Doubt'
  <2>1. late => uncertain \/ overruled
    BY Zenon DEF JobInv, Doubt
  <2>2. ASSUME srv.state = "cancelled"
        PROVE  \/ uncertain \/ overruled
               \/ lifecycle' \in Ending /\ \A d \in Cancellers : ~Rejected(d)'
               \/ \E d \in Cancellers : Accepted(d)'
    BY <1>4, <2>2, Zenon DEF JobInv, Doubt, Onward, Ending
  <2>3. ASSUME NEW d \in Cancellers, Doubtful(d)', uncertain
        PROVE  cancel'[d].before
    BY <1>2, <1>4, <2>3, Zenon DEF JobInv, Doubt
  <2> QED BY <1>1, <2>1, <2>2, <2>3, SMTT(30) DEF Doubt, Ending
<1>6. JobOK'
  BY JobFrame, Zenon DEF JobInv
<1>7. srv \in Server /\ srv.eps <= srv.cap /\ late \in BOOLEAN /\ uncertain \in BOOLEAN
      /\ overruled \in BOOLEAN
  BY Zenon DEF JobInv, StateOK
<1>8. poll' \in Polls /\ lifecycle' \in Lifecycles /\ (poll.desc = 0 => poll'.desc = 0)
  BY Zenon DEF Onward, Advanced
<1> QED BY <1>1, <1>3, <1>5, <1>6, <1>7, <1>8, CancelEffect, Zenon

\* A call that returns: the gates are free of it.
Result(result) == [NoCancel EXCEPT !.pc = result]

Results == {"ok", "err", "unknown", "not_found"}

LEMMA ResultIs ==
  ASSUME NEW result \in Results
  PROVE  Result(result) \in CancelCall /\ Result(result).pc = result
<1>1. NoCancel \in CancelCall
  BY QueryAssumption, SMTT(30) DEF NoCancel, CancelCall
<1> QED BY <1>1, Zenon DEF Result, Results, CancelCall

LEMMA ReturnedTo ==
  ASSUME JobInv, NEW c \in Cancellers, NEW result \in Results,
         Returned(c, result), UNCHANGED <<reader, stream, describer>>,
         (gate' = gate /\ cancel[c].pc # "polling") \/ Release(c)
  PROVE  CancelTo(c, Result(result)) /\ Result(result).pc = result
<1>1. cancel' = [cancel EXCEPT ![c] = Result(result)]
  BY Zenon DEF Returned, Result
<1>2. Result(result) \in CancelCall
  BY ResultIs, Zenon
<1>3. GateOf(c) /\ gate' # c
  BY Apart, Zenon DEF JobInv, CancelOK, Release, GateOf
<1>4. Result(result).pc = result /\ result \notin Inside /\ result \notin {"gate", "polling"}
  BY ResultIs, Zenon DEF Results, Inside
<1>5. /\ cancelGate' = cancelGate \/ {cancelGate, cancelGate'} \subseteq {c, Nobody}
      /\ cancelGate' # c
  BY Apart, Zenon DEF Returned
<1> QED BY <1>1, <1>2, <1>3, <1>4, <1>5, Zenon DEF CancelTo

\* A call of cancel changes where it is.
LEMMA GoesTo ==
  ASSUME JobInv, NEW c \in Cancellers, NEW new, new \in CancelCall,
         cancel' = [cancel EXCEPT ![c] = new], UNCHANGED <<reader, stream, describer>>,
         (cancelGate = Nobody /\ cancelGate' = c) \/ (cancelGate' = cancelGate /\ cancelGate = c),
         new.pc \in Inside \ {"gate", "polling"}, gate' = gate, cancel[c].pc # "polling"
  PROVE  CancelTo(c, new)
<1>1. GateOf(c) /\ gate' # c
  BY Zenon DEF JobInv, CancelOK, GateOf
<1> QED BY <1>1, Zenon DEF CancelTo

\* A call of cancel begins.
LEMMA start_cancelKeeps ==
  ASSUME JobInv, NEW c \in Cancellers, start_cancel(c), UNCHANGED jobVars, task \notin Before
  PROVE  JobInv'
<1>1. cancel \in [Cancellers -> CancelCall] /\ cancel[c].pc = "idle"
  BY Zenon DEF JobInv, CancelOK, start_cancel
<1>2. PICK new : new = [cancel[c] EXCEPT !.pc = "queued"]
  BY Zenon
<1>3. new \in CancelCall /\ new.pc = "queued"
  BY <1>1, <1>2, Zenon DEF CancelCall
<1>4. cancel' = [cancel EXCEPT ![c] = new]
  BY <1>2, Zenon DEF start_cancel
<1>5. gate # c /\ cancelGate # c
  BY <1>1, Zenon DEF JobInv, CancelOK, Inside
<1>6. CancelTo(c, new)
  BY <1>3, <1>4, <1>5, Zenon DEF start_cancel, CancelTo, GateOf, Inside
<1> QED BY <1>1, <1>3, <1>6, CancelMoves, Steady, Zenon DEF start_cancel

\* It gets through the gate to cancellations, unless the query is over.
LEMMA EnterCancelKeeps ==
  ASSUME JobInv, NEW c \in Cancellers, EnterCancel(c), UNCHANGED jobVars
  PROVE  JobInv'
<1>1. /\ cancel \in [Cancellers -> CancelCall] /\ cancel[c].pc = "queued"
      /\ task \notin Before /\ cancelGate = Nobody
      /\ UNCHANGED <<srv, late, poll, lifecycle, doubt, gate, reader, stream, describer>>
  BY CancelInUse, Zenon DEF JobInv, CancelOK, EnterCancel
<1>2. Onward /\ Advanced
  BY <1>1, Steady, Zenon
<1>3. CASE Over
  <2>1. CancelTo(c, Result("ok")) /\ Result("ok").pc = "ok"
    BY <1>1, <1>3, ReturnedTo, Zenon DEF EnterCancel, Results
  <2>2. srv.state # "running"
    BY <1>3, Zenon DEF Over, JobInv, StatementRuns
  <2> QED BY <1>1, <1>2, <2>1, <2>2, CancelMoves, Zenon
<1>4. CASE ~Over
  <2>1. PICK new : new = [cancel[c] EXCEPT !.pc = "look"]
    BY Zenon
  <2>2. new \in CancelCall /\ new.pc = "look"
    BY <1>1, <2>1, Zenon DEF CancelCall
  <2>3. cancel' = [cancel EXCEPT ![c] = new] /\ cancelGate' = c
    BY <1>4, <2>1, Zenon DEF EnterCancel
  <2>4. CancelTo(c, new)
    BY <1>1, <2>2, <2>3, GoesTo, Zenon DEF Inside
  <2> QED BY <1>1, <1>2, <2>2, <2>4, CancelMoves, Zenon
<1> QED BY <1>3, <1>4, Zenon

\* It looks at the state: the request needs the query's identity.
LEMMA LookAtStateKeeps ==
  ASSUME JobInv, NEW c \in Cancellers, LookAtState(c), UNCHANGED jobVars
  PROVE  JobInv'
<1>1. /\ cancel \in [Cancellers -> CancelCall] /\ cancel[c].pc = "look"
      /\ task \notin Before /\ cancelGate = c /\ gate # c
      /\ UNCHANGED <<srv, late, poll, lifecycle, doubt, gate, reader, stream, describer>>
  BY CancelInUse, Zenon DEF JobInv, CancelOK, LookAtState, Inside
<1>2. Onward /\ Advanced
  BY <1>1, Steady, Zenon
<1>3. CASE ~poll.info /\ poll.desc = 0
  <2>1. CancelTo(c, Result("ok")) /\ Result("ok").pc = "ok"
    BY <1>1, <1>3, ReturnedTo, Zenon DEF LookAtState, Results
  <2>2. srv.state # "running"
    BY <1>3, Zenon DEF JobInv, StatementRuns
  <2> QED BY <1>1, <1>2, <2>1, <2>2, CancelMoves, Zenon
<1>4. CASE poll.info
  <2>1. PICK new : new = [cancel[c] EXCEPT !.pc = "send", !.desc = 0, !.before = uncertain]
    BY Zenon
  <2>2. uncertain \in BOOLEAN /\ 0 \in 0..MaxPolls
    BY QueryAssumption, SMTT(30) DEF JobInv, StateOK
  <2>3. new \in CancelCall /\ new.pc = "send" /\ new.before = uncertain
    BY <1>1, <2>1, <2>2, Zenon DEF CancelCall
  <2>4. cancel' = [cancel EXCEPT ![c] = new] /\ cancelGate' = cancelGate
    BY <1>4, <2>1, <2>2, Zenon DEF LookAtState
  <2>5. CancelTo(c, new)
    BY <1>1, <2>3, <2>4, GoesTo, Zenon DEF Inside
  <2> QED BY <1>1, <1>2, <2>3, <2>5, CancelMoves, Zenon
<1>5. CASE ~poll.info /\ poll.desc # 0
  <2>1. PICK new : new = [cancel[c] EXCEPT !.pc = "gate", !.desc = poll.desc, !.before = FALSE]
    BY Zenon
  <2>2. poll.desc \in 0..MaxPolls
    BY Zenon DEF JobInv, StateOK, Polls
  <2>3. new \in CancelCall /\ new.pc = "gate" /\ new.desc = poll.desc
    BY <1>1, <2>1, <2>2, Zenon DEF CancelCall
  <2>4. cancel' = [cancel EXCEPT ![c] = new] /\ cancelGate' = cancelGate
    BY <1>5, <2>1, Zenon DEF LookAtState
  <2>5. CancelTo(c, new)
    BY <1>1, <1>5, <2>3, <2>4, Zenon DEF CancelTo, GateOf, Inside
  <2> QED BY <1>1, <1>2, <2>3, <2>5, CancelMoves, Zenon
<1> QED BY <1>3, <1>4, <1>5, Zenon

\* The gate to the polls is free.
LEMMA CancelGateKeeps ==
  ASSUME JobInv, NEW c \in Cancellers, CancelGate(c), UNCHANGED jobVars
  PROVE  JobInv'
<1>1. /\ cancel \in [Cancellers -> CancelCall] /\ cancel[c].pc = "gate" /\ cancel[c].desc # 0
      /\ task \notin Before /\ cancelGate = c /\ gate = Nobody
      /\ UNCHANGED <<srv, late, poll, lifecycle, doubt, cancelGate, reader, stream, describer>>
  BY CancelInUse, Zenon DEF JobInv, CancelOK, CancelGate, Inside
<1>2. Onward /\ Advanced
  BY <1>1, Steady, Zenon
<1>3. CASE poll.desc = cancel[c].desc
  <2>1. PICK new : new = [cancel[c] EXCEPT !.pc = "polling"]
    BY Zenon
  <2>2. new \in CancelCall /\ new.pc = "polling" /\ new.desc = cancel[c].desc
    BY <1>1, <2>1, Zenon DEF CancelCall
  <2>3. cancel' = [cancel EXCEPT ![c] = new] /\ gate' = c
    BY <1>3, <2>1, Zenon DEF CancelGate
  <2>4. CancelTo(c, new)
    BY <1>1, <2>2, <2>3, Zenon DEF CancelTo, GateOf, Inside
  <2> QED BY <1>1, <1>2, <2>2, <2>4, CancelMoves, Zenon
<1>4. CASE poll.desc # cancel[c].desc
  <2>1. PICK new : new = [cancel[c] EXCEPT !.pc = "look"]
    BY Zenon
  <2>2. new \in CancelCall /\ new.pc = "look"
    BY <1>1, <2>1, Zenon DEF CancelCall
  <2>3. cancel' = [cancel EXCEPT ![c] = new] /\ gate' = gate
    BY <1>4, <2>1, Zenon DEF CancelGate
  <2>4. CancelTo(c, new)
    BY <1>1, <2>2, <2>3, GoesTo, Zenon DEF Inside
  <2> QED BY <1>1, <1>2, <2>2, <2>4, CancelMoves, Zenon
<1> QED BY <1>3, <1>4, Zenon

\* Another actor's poll has advanced the state.
LEMMA StateChangedKeeps ==
  ASSUME JobInv, NEW c \in Cancellers, StateChanged(c), UNCHANGED jobVars
  PROVE  JobInv'
<1>1. /\ cancel \in [Cancellers -> CancelCall] /\ cancel[c].pc = "gate"
      /\ task \notin Before /\ cancelGate = c
      /\ UNCHANGED <<srv, late, poll, lifecycle, doubt, gate, cancelGate, reader, stream,
                     describer>>
  BY CancelInUse, Zenon DEF JobInv, CancelOK, StateChanged, Inside
<1>2. PICK new : new = [cancel[c] EXCEPT !.pc = "look"]
  BY Zenon
<1>3. new \in CancelCall /\ new.pc = "look"
  BY <1>1, <1>2, Zenon DEF CancelCall
<1>4. cancel' = [cancel EXCEPT ![c] = new]
  BY <1>2, Zenon DEF StateChanged
<1>5. CancelTo(c, new)
  BY <1>1, <1>3, <1>4, GoesTo, Zenon DEF Inside
<1> QED BY <1>1, <1>3, <1>5, CancelMoves, Steady, Zenon

\* The poll of a cancellation is answered.
LEMMA CancelPolledKeeps ==
  ASSUME JobInv, NEW c \in Cancellers, CancelPolled(c), UNCHANGED jobVars
  PROVE  JobInv'
<1>1. /\ cancel \in [Cancellers -> CancelCall] /\ cancel[c].pc = "polling"
      /\ cancel[c].desc # 0 /\ task \notin Before /\ cancelGate = c /\ gate = c
      /\ UNCHANGED <<srv, late, doubt, cancelGate, reader, stream, describer>>
  BY CancelInUse, Zenon DEF JobInv, CancelOK, CancelPolled, Inside
<1>2. cancel[c].desc \in 0..MaxPolls
  BY <1>1, Zenon DEF CancelCall
<1>3. Onward /\ Advanced
  BY <1>1, <1>2, Updated, Zenon DEF CancelPolled
<1>4. PICK new : new = [cancel[c] EXCEPT !.pc = "look"]
  BY Zenon
<1>5. new \in CancelCall /\ new.pc = "look"
  BY <1>1, <1>4, Zenon DEF CancelCall
<1>6. cancel' = [cancel EXCEPT ![c] = new] /\ gate' = Nobody
  BY <1>4, Zenon DEF CancelPolled
<1>7. CancelTo(c, new)
  BY <1>1, <1>5, <1>6, Apart, Zenon DEF CancelTo, GateOf, Inside
<1> QED BY <1>1, <1>3, <1>5, <1>7, CancelMoves, Zenon

\* The request is dispatched.
LEMMA DispatchKeeps ==
  ASSUME JobInv, NEW c \in Cancellers, Dispatch(c), UNCHANGED jobVars
  PROVE  JobInv'
<1>1. /\ cancel \in [Cancellers -> CancelCall] /\ cancel[c].pc = "send"
      /\ task \notin Before /\ cancelGate = c
      /\ UNCHANGED <<srv, late, poll, lifecycle, doubt, gate, cancelGate, reader, stream,
                     describer>>
  BY CancelInUse, Zenon DEF JobInv, CancelOK, Dispatch, Inside
<1>2. PICK new : new = [cancel[c] EXCEPT !.pc = "sent"]
  BY Zenon
<1>3. new \in CancelCall /\ new.pc = "sent" /\ new.before = cancel[c].before
  BY <1>1, <1>2, Zenon DEF CancelCall
<1>4. cancel' = [cancel EXCEPT ![c] = new]
  BY <1>2, Zenon DEF Dispatch
<1>5. CancelTo(c, new)
  BY <1>1, <1>3, <1>4, GoesTo, Zenon DEF Inside
<1>6. uncertain => cancel[c].before
  BY <1>1, Zenon DEF JobInv, Doubt, Doubtful
<1> QED BY <1>1, <1>3, <1>5, <1>6, CancelMoves, Steady, Zenon

\* A statement stops running for good.
LEMMA ServerSays ==
  ASSUME JobInv, NEW a \in CancelAnswers, srv' = [srv EXCEPT !.state = a[2]]
  PROVE  /\ srv' \in Server /\ srv'.eps <= srv'.cap /\ srv'.state = a[2]
         /\ a[1] \in {"Cancelled", "Cancelling", "NotCancellable", "NotFound",
                      "refused", "ambiguous"}
         /\ srv'.state = "running" =>
               /\ srv.state = "running"
               /\ a[1] \notin {"Cancelled", "Cancelling", "NotFound"}
         /\ srv'.state = "cancelled" =>
               srv.state = "cancelled" \/ a[1] \in {"Cancelled", "ambiguous"}
         /\ srv.state = "cancelled" => a[1] \in {"Cancelled", "NotFound"}
<1>1. srv \in Server /\ srv.eps <= srv.cap
  BY Zenon DEF JobInv, StateOK
<1>2. srv.state \in {"running", "cancelling", "done", "cancelled"}
  BY <1>1, Zenon DEF Server
<1>3. /\ a[1] \in {"Cancelled", "Cancelling", "NotCancellable", "NotFound",
                   "refused", "ambiguous"}
      /\ a[2] \in {"running", "cancelling", "done", "cancelled"}
      /\ a[2] = "running" =>
            srv.state = "running" /\ a[1] \notin {"Cancelled", "Cancelling", "NotFound"}
      /\ a[2] = "cancelled" => srv.state = "cancelled" \/ a[1] \in {"Cancelled", "ambiguous"}
      /\ srv.state = "cancelled" => a[1] \in {"Cancelled", "NotFound"}
  <2>1. CASE srv.state = "running"
    BY <2>1, SMTT(30) DEF CancelAnswers
  <2>2. CASE srv.state = "cancelling"
    BY <2>2, SMTT(30) DEF CancelAnswers
  <2>3. CASE srv.state = "done"
    BY <2>3, SMTT(30) DEF CancelAnswers
  <2>4. CASE srv.state = "cancelled"
    BY <2>4, SMTT(30) DEF CancelAnswers
  <2> QED BY <1>2, <2>1, <2>2, <2>3, <2>4, Zenon
<1>4. srv' \in Server /\ srv'.eps = srv.eps /\ srv'.cap = srv.cap /\ srv'.state = a[2]
  BY <1>1, <1>3, Zenon DEF Server
<1> QED BY <1>1, <1>3, <1>4, Zenon

\* The service answers the request.
LEMMA CancelAnsweredKeeps ==
  ASSUME JobInv, NEW c \in Cancellers, CancelAnswered(c), UNCHANGED jobVars
  PROVE  JobInv'
<1>1. /\ cancel \in [Cancellers -> CancelCall] /\ cancel[c].pc = "sent"
      /\ task \notin Before /\ cancelGate = c
      /\ UNCHANGED <<late, poll, lifecycle, overruled, gate, cancelGate, reader, stream,
                     describer, task, outcome, handle>>
  BY CancelInUse, Zenon DEF JobInv, CancelOK, CancelAnswered, Inside, jobVars
<1>2. PICK a \in CancelAnswers :
        /\ srv' = [srv EXCEPT !.state = a[2]]
        /\ uncertain' = (uncertain \/ cancellation_status_is_ambiguous(a[1]))
        /\ cancel' = [cancel EXCEPT ![c].pc = "answered", ![c].answer = a[1]]
  BY Zenon DEF CancelAnswered
<1>3. /\ srv' \in Server /\ srv'.eps <= srv'.cap /\ srv'.state = a[2]
      /\ a[1] \in {"Cancelled", "Cancelling", "NotCancellable", "NotFound",
                   "refused", "ambiguous"}
      /\ srv'.state = "running" =>
            /\ srv.state = "running"
            /\ a[1] \notin {"Cancelled", "Cancelling", "NotFound"}
      /\ srv'.state = "cancelled" =>
            srv.state = "cancelled" \/ a[1] \in {"Cancelled", "ambiguous"}
      /\ srv.state = "cancelled" => a[1] \in {"Cancelled", "NotFound"}
  BY <1>2, ServerSays, Zenon
<1>4. PICK new : new = [cancel[c] EXCEPT !.pc = "answered", !.answer = a[1]]
  BY Zenon
<1>5. /\ new \in CancelCall /\ new.pc = "answered" /\ new.answer = a[1]
      /\ new.before = cancel[c].before
  BY <1>1, <1>3, <1>4, Zenon DEF CancelCall
<1>6. cancel' = [cancel EXCEPT ![c] = new]
  BY <1>1, <1>2, <1>4, Zenon
<1>7. CancelTo(c, new)
  BY <1>1, <1>5, <1>6, GoesTo, Zenon DEF Inside
<1>8. cancel'[c] = new /\ \A d \in Cancellers : d # c => cancel'[d] = cancel[d]
  BY <1>7, OneCall, Zenon
<1>9. uncertain \in BOOLEAN /\ late \in BOOLEAN /\ overruled \in BOOLEAN
      /\ poll \in Polls /\ lifecycle \in Lifecycles
  BY Zenon DEF JobInv, StateOK
<1>10. uncertain' \in BOOLEAN /\ (uncertain' <=> uncertain \/ a[1] = "ambiguous")
  BY <1>2, <1>9, Zenon DEF cancellation_status_is_ambiguous
<1>11. StatementRuns'
  <2> SUFFICES ASSUME srv'.state = "running", NEW d \in Cancellers
               PROVE  /\ poll'.desc # 0 /\ lifecycle' \in {"Running", "Ready"}
                      /\ cancel'[d].pc # "ok" /\ (handle'[d] = "ok" => Settled')
                      /\ cancel'[d].pc = "answered" =>
                            cancel'[d].answer \notin {"Cancelled", "Cancelling", "NotFound"}
    BY <1>1, <1>3, Zenon DEF StatementRuns, JobInv
  <2>1. /\ poll.desc # 0 /\ lifecycle \in {"Running", "Ready"}
        /\ cancel[d].pc # "ok" /\ (handle[d] = "ok" => Settled)
        /\ cancel[d].pc = "answered" =>
              cancel[d].answer \notin {"Cancelled", "Cancelling", "NotFound"}
    BY <1>3, Zenon DEF StatementRuns, JobInv
  <2>2. CASE d = c
    BY <1>1, <1>3, <1>5, <1>8, <2>1, <2>2, Zenon DEF Settled
  <2>3. CASE d # c
    BY <1>1, <1>8, <2>1, <2>3, Zenon DEF Settled
  <2> QED BY <2>2, <2>3, Zenon
<1>12. Doubt'
  <2>1. late' => uncertain' \/ overruled'
    BY <1>1, <1>10, Zenon DEF JobInv, Doubt
  <2>2. ASSUME srv'.state = "cancelled"
        PROVE  \/ uncertain' \/ overruled'
               \/ lifecycle' \in Ending /\ \A d \in Cancellers : ~Rejected(d)'
               \/ \E d \in Cancellers : Accepted(d)'
    <3>1. CASE a[1] = "ambiguous"
      BY <1>10, <3>1, Zenon
    <3>2. CASE a[1] = "Cancelled"
      BY <1>5, <1>8, <3>2, Zenon DEF Accepted
    <3>3. CASE srv.state = "cancelled" /\ a[1] = "NotFound"
      <4>1. /\ \A d \in Cancellers : Rejected(d)' => Rejected(d)
            /\ \A d \in Cancellers : Accepted(d) => Accepted(d)'
        BY <1>1, <1>5, <1>8, <3>3, Zenon DEF Rejected, Accepted
      <4> QED BY <1>1, <1>10, <3>3, <4>1, Zenon DEF JobInv, Doubt, Ending
    <3> QED BY <1>3, <2>2, <3>1, <3>2, <3>3, Zenon
  <2>3. ASSUME NEW d \in Cancellers, Doubtful(d)', uncertain'
        PROVE  cancel'[d].before
    <3>1. cancel'[d].pc \in Inside
      BY <2>3, Zenon DEF Doubtful, Inside
    <3>2. d = c
      <4> SUFFICES ASSUME d # c PROVE FALSE
        BY Zenon
      <4>1. cancel[d].pc \in Inside /\ cancel[c].pc \in Inside
        BY <1>1, <1>8, <3>1, Zenon DEF Inside
      <4> QED BY <4>1, OneInside, Zenon
    <3>3. a[1] # "ambiguous"
      BY <1>5, <1>8, <2>3, <3>2, Zenon DEF Doubtful
    <3>4. uncertain /\ Doubtful(c)
      BY <1>1, <1>10, <2>3, <3>3, Zenon DEF Doubtful
    <3> QED BY <1>5, <1>8, <3>2, <3>4, Zenon DEF JobInv, Doubt
  <2> QED BY <2>1, <2>2, <2>3, Zenon DEF Doubt, Ending
<1>13. JobOK'
  BY JobFrame, Zenon DEF JobInv
<1> QED BY <1>1, <1>3, <1>7, <1>9, <1>10, <1>11, <1>12, <1>13, CancelEffect, Zenon

\* What an answer leaves to the other calls: nobody else is past the gate.
LEMMA OthersOutside ==
  ASSUME JobInv, NEW c \in Cancellers, NEW new, CancelTo(c, new), cancel[c].pc \in Inside
  PROVE  \A d \in Cancellers : d # c => ~Rejected(d)' /\ ~Accepted(d)' /\ ~Doubtful(d)'
<1> SUFFICES ASSUME NEW d \in Cancellers, d # c
             PROVE  ~Rejected(d)' /\ ~Accepted(d)' /\ ~Doubtful(d)'
  BY Zenon
<1>1. cancel[d].pc \notin Inside
  BY OneInside, Zenon
<1>2. cancel'[d] = cancel[d]
  BY OneCall, Zenon
<1> QED BY <1>1, <1>2, Zenon DEF Rejected, Accepted, Doubtful, Inside

\* A call that returns with what it was told.
LEMMA CancelReturns ==
  ASSUME JobInv, NEW c \in Cancellers, NEW result \in Results, cancel[c].pc \in Inside,
         Returned(c, result), gate' = gate, cancel[c].pc # "polling",
         UNCHANGED <<srv, late, poll, reader, stream, describer, jobVars>>,
         lifecycle' \in Lifecycles,
         srv.state = "running" => lifecycle' = lifecycle /\ result # "ok",
         (UNCHANGED doubt /\ (Rejected(c) => ~(srv.state = "cancelled") \/ uncertain \/ overruled)
            /\ (lifecycle \in Ending /\ ~Rejected(c) => lifecycle' \in Ending)
            /\ (Accepted(c) => lifecycle' \in Ending))
           \/ (Certain /\ lifecycle' \in Ending)
  PROVE  JobInv'
<1>1. CancelTo(c, Result(result)) /\ Result(result).pc = result
  BY ReturnedTo, Zenon
<1>2. /\ cancel'[c].pc = result
      /\ \A d \in Cancellers : d # c => cancel'[d] = cancel[d]
  BY <1>1, OneCall, Zenon
<1>3. task \notin Before /\ UNCHANGED <<task, outcome, handle>>
  BY CancelInUse, Zenon DEF Inside, jobVars
<1>4. result \notin {"answered", "restore", "send", "sent"}
  BY Zenon DEF Results
<1>5. StatementRuns'
  <2> SUFFICES ASSUME srv.state = "running", NEW d \in Cancellers
               PROVE  /\ poll.desc # 0 /\ lifecycle' \in {"Running", "Ready"}
                      /\ cancel'[d].pc # "ok" /\ (handle[d] = "ok" => Settled)
                      /\ cancel'[d].pc = "answered" =>
                            cancel'[d].answer \notin {"Cancelled", "Cancelling", "NotFound"}
    BY <1>3, Zenon DEF StatementRuns, Settled, JobInv
  <2>1. CASE d = c
    BY <1>2, <1>4, <2>1, Zenon DEF JobInv, StatementRuns
  <2>2. CASE d # c
    BY <1>2, <2>2, Zenon DEF JobInv, StatementRuns
  <2> QED BY <2>1, <2>2, Zenon
<1>6. \A d \in Cancellers : ~Rejected(d)' /\ ~Accepted(d)' /\ ~Doubtful(d)'
  <2>1. ~Rejected(c)' /\ ~Accepted(c)' /\ ~Doubtful(c)'
    BY <1>2, <1>4, Zenon DEF Rejected, Accepted, Doubtful
  <2> QED BY <1>1, <2>1, OthersOutside, Zenon
<1>7. \A d \in Cancellers : d # c => ~Rejected(d) /\ ~Accepted(d)
  <2> SUFFICES ASSUME NEW d \in Cancellers, d # c PROVE ~Rejected(d) /\ ~Accepted(d)
    BY Zenon
  <2>1. cancel[d].pc \notin Inside
    BY OneInside, Zenon
  <2> QED BY <2>1, Zenon DEF Rejected, Accepted, Inside
<1>8. uncertain \in BOOLEAN /\ overruled \in BOOLEAN /\ late \in BOOLEAN
  BY Zenon DEF JobInv, StateOK
<1>9. uncertain' \in BOOLEAN /\ overruled' \in BOOLEAN
  BY <1>8, Zenon DEF doubt, Certain
<1>10. uncertain \/ overruled => uncertain' \/ overruled'
  BY <1>8, Zenon DEF doubt, Certain
<1>11. Doubt'
  <2>1. late' => uncertain' \/ overruled'
    BY <1>10, Zenon DEF JobInv, Doubt
  <2>2. ASSUME srv'.state = "cancelled"
        PROVE  \/ uncertain' \/ overruled'
               \/ lifecycle' \in Ending
    <3>1. \/ uncertain \/ overruled
          \/ lifecycle \in Ending /\ ~Rejected(c)
          \/ Accepted(c)
      BY <1>7, <2>2, Zenon DEF JobInv, Doubt, Ending
    <3> QED BY <1>10, <3>1, Zenon
  <2> QED BY <1>6, <2>1, <2>2, Zenon DEF Doubt, Ending
<1>12. JobOK'
  BY JobFrame, Zenon DEF JobInv
<1>13. srv \in Server /\ srv.eps <= srv.cap /\ poll \in Polls
  BY Zenon DEF JobInv, StateOK
<1> QED BY <1>1, <1>3, <1>5, <1>8, <1>9, <1>11, <1>12, <1>13, CancelEffect, Zenon

\* The answer is applied.
LEMMA ApplyAnswerKeeps ==
  ASSUME JobInv, NEW c \in Cancellers, ApplyAnswer(c), UNCHANGED jobVars
  PROVE  JobInv'
<1>1. /\ cancel \in [Cancellers -> CancelCall] /\ cancel[c].pc = "answered"
      /\ cancel[c].pc \in Inside /\ cancelGate = c /\ task \notin Before
      /\ UNCHANGED <<srv, late, poll, gate, reader, stream, describer>>
  BY CancelInUse, Zenon DEF JobInv, CancelOK, ApplyAnswer, Inside
<1>2. lifecycle \in Lifecycles /\ (srv.state = "running" => lifecycle \in {"Running", "Ready"})
  BY Zenon DEF JobInv, StateOK, StatementRuns
<1>3. srv.state = "running" => cancel[c].answer \notin {"Cancelled", "Cancelling", "NotFound"}
  BY <1>1, Zenon DEF JobInv, StatementRuns
<1>4. CASE Over
  <2>1. Returned(c, "ok") /\ UNCHANGED <<lifecycle, doubt>>
    BY <1>4, Zenon DEF ApplyAnswer
  <2>2. srv.state # "running" /\ lifecycle \in Ending /\ "ok" \in Results
    BY <1>2, <1>4, Zenon DEF Over, Ending, Results
  <2>3. Accepted(c) => lifecycle' \in Ending
    BY <2>1, <2>2, Zenon
  <2>4. CASE Rejected(c) /\ srv.state = "cancelled"
    <3>1. uncertain \/ overruled
      <4>1. ~Accepted(c)
        BY <1>1, <2>4, Zenon DEF Rejected, Accepted
      <4>2. \A d \in Cancellers : d # c => ~Accepted(d)
        BY <1>1, OneInside, Zenon DEF Accepted, Inside
      <4> QED BY <2>4, <4>1, <4>2, Zenon DEF JobInv, Doubt
    <3> QED BY <1>1, <1>2, <2>1, <2>2, <3>1, CancelReturns, Zenon
  <2>5. CASE ~(Rejected(c) /\ srv.state = "cancelled")
    BY <1>1, <1>2, <2>1, <2>2, <2>5, CancelReturns, Zenon
  <2> QED BY <2>4, <2>5, Zenon
<1>5. CASE ~Over /\ cancel[c].answer = "Cancelled"
  <2>1. Returned(c, "ok") /\ Certain /\ lifecycle' = "Cancelled"
    BY <1>5, Zenon DEF ApplyAnswer, mark_cancelled
  <2>2. srv.state # "running" /\ lifecycle' \in Ending /\ lifecycle' \in Lifecycles
        /\ "ok" \in Results
    BY <1>3, <1>5, <2>1, Zenon DEF Ending, Lifecycles, Results
  <2> QED BY <1>1, <2>1, <2>2, CancelReturns, Zenon
<1>6. CASE ~Over /\ cancel[c].answer = "Cancelling"
  <2>1. Returned(c, "ok") /\ Certain
    BY <1>6, Zenon DEF ApplyAnswer, mark_cancelling
  <2>2. lifecycle' = "Cancelling"
    BY <1>2, <1>6, Zenon DEF ApplyAnswer, mark_cancelling, Over, Lifecycles
  <2>3. srv.state # "running" /\ lifecycle' \in Ending /\ lifecycle' \in Lifecycles
        /\ "ok" \in Results
    BY <1>3, <1>6, <2>2, Zenon DEF Ending, Lifecycles, Results
  <2> QED BY <1>1, <2>1, <2>3, CancelReturns, Zenon
<1>7. CASE ~Over /\ cancel[c].answer = "NotFound"
  <2>1. OfferedNotFound(c) /\ srv.state # "running" /\ ~Accepted(c) /\ ~Rejected(c)
    BY <1>1, <1>3, <1>7, Zenon DEF ApplyAnswer, Accepted, Rejected
  <2>2. CASE lifecycle = "Cancelling"
    <3>1. Returned(c, "ok") /\ Certain /\ lifecycle' = "Cancelled"
      BY <1>7, <2>1, <2>2, Zenon DEF OfferedNotFound, mark_cancelled
    <3>2. lifecycle' \in Ending /\ lifecycle' \in Lifecycles /\ "ok" \in Results
      BY <3>1, Zenon DEF Ending, Lifecycles, Results
    <3> QED BY <1>1, <2>1, <3>1, <3>2, CancelReturns, Zenon
  <2>3. CASE lifecycle # "Cancelling"
    <3>1. PICK result \in Results : Returned(c, result)
      BY <2>1, <2>3, Zenon DEF OfferedNotFound, NotFoundResult, Results
    <3>2. UNCHANGED <<lifecycle, doubt>>
      BY <2>1, <2>3, Zenon DEF OfferedNotFound
    <3> QED BY <1>1, <1>2, <2>1, <3>1, <3>2, CancelReturns, Zenon
  <2> QED BY <2>2, <2>3, Zenon
<1>8. CASE ~Over /\ cancel[c].answer = "NotCancellable"
  <2>1. /\ Certain /\ UNCHANGED <<lifecycle, cancelGate>>
        /\ cancel' = [cancel EXCEPT ![c].pc = "restore", ![c].running = poll.desc > 0]
    BY <1>8, Zenon DEF ApplyAnswer
  <2>2. PICK running \in BOOLEAN : running = (poll.desc > 0)
    <3>1. (poll.desc > 0) \in BOOLEAN
      BY QueryAssumption, SMTT(30) DEF JobInv, StateOK, Polls
    <3> QED BY <3>1, Zenon
  <2>3. PICK new : new = [cancel[c] EXCEPT !.pc = "restore", !.running = running]
    BY Zenon
  <2>4. new \in CancelCall /\ new.pc = "restore"
    BY <1>1, <2>3, Zenon DEF CancelCall
  <2>5. cancel' = [cancel EXCEPT ![c] = new]
    BY <1>1, <2>1, <2>2, <2>3, Zenon
  <2>6. CancelTo(c, new)
    BY <1>1, <2>1, <2>4, <2>5, GoesTo, Zenon DEF Inside
  <2>7. cancel'[c] = new /\ \A d \in Cancellers : d # c => cancel'[d] = cancel[d]
    BY <2>6, OneCall, Zenon
  <2>8. StatementRuns'
    <3> SUFFICES ASSUME srv.state = "running", NEW d \in Cancellers
                 PROVE  /\ poll.desc # 0 /\ lifecycle \in {"Running", "Ready"}
                        /\ cancel'[d].pc # "ok" /\ (handle[d] = "ok" => Settled)
                        /\ cancel'[d].pc = "answered" =>
                              cancel'[d].answer \notin {"Cancelled", "Cancelling", "NotFound"}
      BY <1>1, <2>1, Zenon DEF StatementRuns, Settled, jobVars, JobInv
    <3>1. CASE d = c
      BY <2>4, <2>7, <3>1, Zenon DEF JobInv, StatementRuns
    <3>2. CASE d # c
      BY <2>7, <3>2, Zenon DEF JobInv, StatementRuns
    <3> QED BY <3>1, <3>2, Zenon
  <2>9. uncertain \in BOOLEAN /\ overruled \in BOOLEAN /\ late \in BOOLEAN
    BY Zenon DEF JobInv, StateOK
  <2>10. uncertain' = FALSE /\ overruled' \in BOOLEAN /\ (overruled' <=> overruled \/ uncertain)
    BY <2>1, <2>9, Zenon DEF Certain
  <2>11. Doubt'
    <3>1. late => overruled'
      BY <2>9, <2>10, Zenon DEF JobInv, Doubt
    <3>2. ASSUME srv.state = "cancelled" PROVE overruled'
      <4>1. ~Accepted(c) /\ Rejected(c)
        BY <1>1, <1>8, Zenon DEF Rejected, Accepted
      <4>2. \A d \in Cancellers : d # c => ~Accepted(d)
        BY <1>1, OneInside, Zenon DEF Accepted, Inside
      <4> QED BY <2>10, <3>2, <4>1, <4>2, Zenon DEF JobInv, Doubt
    <3> QED BY <1>1, <2>10, <3>1, <3>2, Zenon DEF Doubt
  <2>12. JobOK' /\ task' = task
    BY JobFrame, Zenon DEF JobInv, jobVars
  <2>13. srv \in Server /\ srv.eps <= srv.cap /\ poll \in Polls
    BY Zenon DEF JobInv, StateOK
  <2> QED BY <1>1, <1>2, <2>1, <2>6, <2>8, <2>9, <2>10, <2>11, <2>12, <2>13, CancelEffect, Zenon
<1>9. CASE /\ ~Over
           /\ cancel[c].answer \notin {"Cancelled", "Cancelling", "NotFound", "NotCancellable"}
  <2>1. Returned(c, "err") /\ UNCHANGED <<lifecycle, doubt>>
    BY <1>9, Zenon DEF ApplyAnswer
  <2>2. ~Accepted(c) /\ ~Rejected(c) /\ "err" \in Results
    BY <1>1, <1>9, Zenon DEF Accepted, Rejected, Results
  <2> QED BY <1>1, <1>2, <2>1, <2>2, CancelReturns, Zenon
<1> QED BY <1>4, <1>5, <1>6, <1>7, <1>8, <1>9, Zenon

\* The lifecycle is put back after a rejected cancellation.
LEMMA restoreKeeps ==
  ASSUME JobInv, NEW c \in Cancellers, restore_after_rejected_cancellation(c),
         UNCHANGED jobVars
  PROVE  JobInv'
<1>1. /\ cancel[c].pc = "restore" /\ cancel[c].pc \in Inside /\ "err" \in Results
      /\ Returned(c, "err")
      /\ UNCHANGED <<srv, late, poll, gate, doubt, reader, stream, describer>>
  BY Zenon DEF restore_after_rejected_cancellation, Inside, Results
<1>2. lifecycle \in Lifecycles /\ (srv.state = "running" => lifecycle \in {"Running", "Ready"})
  BY Zenon DEF JobInv, StateOK, StatementRuns
<1>3. lifecycle' \in Lifecycles /\ (srv.state = "running" => lifecycle' = lifecycle)
  BY <1>2, Zenon DEF restore_after_rejected_cancellation, Lifecycles
<1>4. Rejected(c) /\ ~Accepted(c)
  BY <1>1, Zenon DEF Rejected, Accepted
<1>5. \A d \in Cancellers : d # c => ~Accepted(d)
  BY <1>1, OneInside, Zenon DEF Accepted, Inside
<1>6. srv.state = "cancelled" => uncertain \/ overruled
  BY <1>4, <1>5, Zenon DEF JobInv, Doubt
<1> QED BY <1>1, <1>3, <1>4, <1>6, CancelReturns, Zenon

\* A call of cancel fails, with its request under way or not.
LEMMA CancelFailsKeeps ==
  ASSUME JobInv, NEW c \in Cancellers, CancelFails(c), JobOK', UNCHANGED <<task, outcome>>,
         \A d \in Cancellers : handle'[d] = "ok" => handle[d] = "ok" \/ Settled
  PROVE  JobInv'
<1>1. /\ cancel[c].pc \in {"queued", "gate", "polling", "send", "sent"}
      /\ Returned(c, "err") /\ Release(c) /\ task \notin Before /\ "err" \in Results
      /\ UNCHANGED <<srv, poll, lifecycle, overruled, reader, stream, describer>>
  BY CancelInUse, Zenon DEF CancelFails, Results
<1>2. CancelTo(c, Result("err")) /\ Result("err").pc = "err"
  BY <1>1, ReturnedTo, Zenon
<1>3. /\ cancel'[c].pc = "err"
      /\ \A d \in Cancellers : d # c => cancel'[d] = cancel[d]
  BY <1>2, OneCall, Zenon
<1>4. /\ uncertain \in BOOLEAN /\ overruled \in BOOLEAN /\ late \in BOOLEAN
      /\ srv \in Server /\ srv.eps <= srv.cap /\ poll \in Polls /\ lifecycle \in Lifecycles
  BY Zenon DEF JobInv, StateOK
<1>5. uncertain' \in BOOLEAN /\ (uncertain' <=> uncertain \/ cancel[c].pc = "sent")
  BY <1>4, Zenon DEF CancelFails, Noted
<1>6. late' \in BOOLEAN /\ (late' => late \/ cancel[c].pc = "sent")
  BY <1>4, Zenon DEF CancelFails
<1>7. StatementRuns'
  <2> SUFFICES ASSUME srv.state = "running", NEW d \in Cancellers
               PROVE  /\ poll.desc # 0 /\ lifecycle \in {"Running", "Ready"}
                      /\ cancel'[d].pc # "ok" /\ (handle'[d] = "ok" => Settled)
                      /\ cancel'[d].pc = "answered" =>
                            cancel'[d].answer \notin {"Cancelled", "Cancelling", "NotFound"}
    BY <1>1, Zenon DEF StatementRuns, Settled, JobInv
  <2>1. handle'[d] = "ok" => Settled
    BY Zenon DEF JobInv, StatementRuns
  <2>2. CASE d = c
    BY <1>3, <2>1, <2>2, Zenon DEF JobInv, StatementRuns
  <2>3. CASE d # c
    BY <1>3, <2>1, <2>3, Zenon DEF JobInv, StatementRuns
  <2> QED BY <2>2, <2>3, Zenon
<1>8. Doubt'
  <2>1. late' => uncertain' \/ overruled'
    BY <1>1, <1>5, <1>6, Zenon DEF JobInv, Doubt
  <2>2. /\ \A d \in Cancellers : Rejected(d)' => Rejected(d)
        /\ \A d \in Cancellers : Accepted(d) => Accepted(d)'
        /\ \A d \in Cancellers : Doubtful(d)' => d # c /\ Doubtful(d)
    BY <1>1, <1>3, Zenon DEF Rejected, Accepted, Doubtful
  <2>3. ASSUME srv'.state = "cancelled"
        PROVE  \/ uncertain' \/ overruled'
               \/ lifecycle' \in Ending /\ \A d \in Cancellers : ~Rejected(d)'
               \/ \E d \in Cancellers : Accepted(d)'
    BY <1>1, <1>5, <2>2, <2>3, Zenon DEF JobInv, Doubt, Ending
  <2>4. ASSUME NEW d \in Cancellers, Doubtful(d)', uncertain'
        PROVE  cancel'[d].before
    <3>1. d # c /\ Doubtful(d) /\ cancel'[d] = cancel[d]
      BY <1>3, <2>2, <2>4, Zenon
    <3>2. cancel[d].pc \in Inside
      BY <3>1, Zenon DEF Doubtful, Inside
    <3>3. cancel[c].pc # "sent"
      BY <3>1, <3>2, OneInside, Zenon DEF Inside
    <3> QED BY <1>5, <2>4, <3>1, <3>3, Zenon DEF JobInv, Doubt
  <2> QED BY <2>1, <2>3, <2>4, Zenon DEF Doubt, Ending
<1> QED BY <1>1, <1>2, <1>4, <1>5, <1>6, <1>7, <1>8, CancelEffect, Zenon

-----------------------------------------------------------------------------
(* The service                                                             *)

\* What the service does by itself.
LEMMA ServerEffect ==
  ASSUME JobInv, srv' \in Server, srv'.eps <= srv'.cap, late' \in BOOLEAN,
         UNCHANGED <<poll, lifecycle, doubt, gate, cancelGate, reader, stream, cancel,
                     describer, jobVars>>,
         srv'.state = "running" => srv.state = "running",
         srv'.state = "cancelled" => srv.state = "cancelled" \/ late, late' => late
  PROVE  JobInv'
<1> USE DEF JobInv
<1>1. UNCHANGED <<uncertain, overruled, task, outcome, handle>>
  BY Zenon DEF doubt, jobVars
<1>2. StateOK' /\ ReaderOK' /\ CancelOK' /\ DescribeOK'
  BY <1>1, Zenon DEF StateOK, ReaderOK, CancelOK, DescribeOK
<1>3. Unsubmitted'
  BY <1>1, Zenon DEF Unsubmitted
<1>4. StatementRuns'
  BY <1>1, Zenon DEF StatementRuns, Settled
<1>5. Doubt'
  BY <1>1, Zenon DEF Doubt, Rejected, Accepted, Doubtful
<1>6. JobOK'
  BY JobFrame, Zenon
<1> QED BY <1>2, <1>3, <1>4, <1>5, <1>6, Zenon

LEMMA ServerKeeps ==
  ASSUME JobInv, ServerNext, UNCHANGED jobVars
  PROVE  JobInv'
<1>1. srv \in Server /\ srv.eps <= srv.cap /\ late \in BOOLEAN
  BY Zenon DEF JobInv, StateOK
<1>2. srv.eps \in Nat /\ srv.cap \in Nat /\ srv.cap <= MaxEndpoints /\ MaxEndpoints \in Nat
      /\ srv.info \in BOOLEAN
  BY <1>1, QueryAssumption, SMTT(30) DEF Server
<1>3. CASE Publish
  <2>1. PICK n : n = srv.eps + 1
    BY Zenon
  <2>2. n \in 0..MaxEndpoints /\ n <= srv.cap
    BY <1>2, <1>3, <2>1, SMTT(30) DEF Publish
  <2>3. srv' = [srv EXCEPT !.info = TRUE, !.eps = n]
    BY <1>3, <2>1, Zenon DEF Publish
  <2>4. srv' \in Server /\ srv'.eps = n /\ srv'.cap = srv.cap /\ srv'.state = srv.state
    BY <1>1, <2>2, <2>3, Zenon DEF Server
  <2> QED BY <1>1, <1>3, <2>2, <2>4, ServerEffect, Zenon DEF Publish
<1>4. CASE FinishStatement
  <2>1. PICK info \in BOOLEAN : srv' = [srv EXCEPT !.state = "done", !.info = info]
    BY <1>2, <1>4, Zenon DEF FinishStatement
  <2>2. srv' \in Server /\ srv'.eps = srv.eps /\ srv'.cap = srv.cap /\ srv'.state = "done"
    BY <1>1, <2>1, Zenon DEF Server
  <2> QED BY <1>1, <1>4, <2>2, ServerEffect, Zenon DEF FinishStatement
<1>5. CASE LateCancel
  <2>1. PICK a \in CancelAnswers : srv' = [srv EXCEPT !.state = a[2]]
    BY <1>5, Zenon DEF LateCancel
  <2>2. /\ srv' \in Server /\ srv'.eps <= srv'.cap
        /\ srv'.state = "running" => srv.state = "running"
    BY <2>1, ServerSays, Zenon
  <2>3. late = TRUE /\ late' = FALSE
    BY <1>1, <1>5, Zenon DEF LateCancel
  <2> QED BY <1>5, <2>2, <2>3, ServerEffect, Zenon DEF LateCancel
<1> QED BY <1>3, <1>4, <1>5, Zenon DEF ServerNext

-----------------------------------------------------------------------------
(* describe                                                                *)

LEMMA NoDescribeIs == NoDescribe \in DescribeCall /\ NoDescribe.pc = "idle" /\ ~NoDescribe.over
<1>1. 0 \in 0..MaxPolls /\ 0 \in 0..MaxEndpoints /\ 0 \in Nat
  BY QueryAssumption, SMTT(30)
<1>2. [desc |-> 0, info |-> FALSE, eps |-> 0] \in Polls
  BY <1>1, Zenon DEF Polls
<1>3. NoDescribe \in DescribeCall
  BY <1>1, <1>2, Zenon DEF NoDescribe, DescribeCall
<1> QED BY <1>3, Zenon DEF NoDescribe

\* What a step of describe leaves alone.
DescribesOnly == UNCHANGED <<srv, late, doubt, cancelGate, cancel, reader, stream, jobVars>>

\* A describe begins.
LEMMA start_describeKeeps ==
  ASSUME JobInv, start_describe, UNCHANGED jobVars, task \notin Before
  PROVE  JobInv'
<1>1. /\ describer \in DescribeCall /\ describer.pc = "idle" /\ describer.calls \in Nat
      /\ gate # Describer /\ poll \in Polls
  BY Zenon DEF JobInv, DescribeOK, StateOK, start_describe, DescribeCall
<1>2. UNCHANGED <<poll, lifecycle, gate>> /\ DescribesOnly
  BY Zenon DEF start_describe, DescribesOnly
<1>3. PICK over \in BOOLEAN : over = (poll.desc = 0)
  BY Zenon
<1>4. PICK n \in Nat : n = describer.calls + 1
  BY <1>1, SMTT(30)
<1>5. describer' = [describer EXCEPT !.pc = "state", !.status = "none", !.over = over,
                                     !.calls = n]
  BY <1>3, <1>4, Zenon DEF start_describe
<1>6. /\ describer' \in DescribeCall /\ describer'.pc = "state"
      /\ describer'.status = "none" /\ describer'.over = over
  BY <1>1, <1>5, Zenon DEF DescribeCall
<1>7. DescribeOK'
  BY <1>1, <1>2, <1>3, <1>6, Zenon DEF DescribeOK
<1>8. GateOf(Describer) /\ Onward /\ Advanced
  BY <1>2, Steady, Zenon DEF GateOf
<1> QED BY <1>2, <1>7, <1>8, DescribeEffect, Zenon DEF DescribesOnly

\* It reads the state, and asks for a poll if there may be news.
LEMMA DescribeStateKeeps ==
  ASSUME JobInv, DescribeState, UNCHANGED jobVars, task \notin Before
  PROVE  JobInv'
<1>1. /\ describer \in DescribeCall /\ describer.pc = "state"
      /\ gate # Describer /\ poll \in Polls
      /\ describer.over => poll.desc = 0 /\ describer.status # "Running"
  BY Zenon DEF JobInv, DescribeOK, StateOK, DescribeState
<1>2. UNCHANGED <<poll, lifecycle, gate>> /\ DescribesOnly
  BY Zenon DEF DescribeState, DescribesOnly
<1>3. PICK at \in {"known", "gate"} :
        /\ describer' = [describer EXCEPT !.pc = at, !.poll = poll]
        /\ at = "gate" => poll.desc # 0
  BY Zenon DEF DescribeState
<1>4. /\ describer' \in DescribeCall /\ describer'.pc = at /\ describer'.poll = poll
      /\ describer'.over = describer.over /\ describer'.status = describer.status
  BY <1>1, <1>3, Zenon DEF DescribeCall
<1>5. DescribeOK'
  BY <1>1, <1>2, <1>3, <1>4, Zenon DEF DescribeOK
<1>6. GateOf(Describer) /\ Onward /\ Advanced
  BY <1>2, Steady, Zenon DEF GateOf
<1> QED BY <1>2, <1>5, <1>6, DescribeEffect, Zenon DEF DescribesOnly

\* The gate to the polls is free.
LEMMA DescribeGateKeeps ==
  ASSUME JobInv, DescribeGate, UNCHANGED jobVars, task \notin Before
  PROVE  JobInv'
<1>1. /\ describer \in DescribeCall /\ describer.pc = "gate" /\ describer.poll.desc # 0
      /\ gate = Nobody /\ poll \in Polls
      /\ describer.over => poll.desc = 0 /\ describer.status # "Running"
  BY Zenon DEF JobInv, DescribeOK, StateOK, DescribeGate
<1>2. UNCHANGED <<poll, lifecycle>> /\ DescribesOnly
  BY Zenon DEF DescribeGate, DescribesOnly
<1>3. PICK at \in {"known", "polling"} :
        /\ describer' = [describer EXCEPT !.pc = at, !.poll = poll]
        /\ at = "polling" => poll.desc # 0 /\ gate' = Describer
        /\ at = "known" => gate' = gate
  BY <1>1, Zenon DEF DescribeGate
<1>4. /\ describer' \in DescribeCall /\ describer'.pc = at /\ describer'.poll = poll
      /\ describer'.over = describer.over /\ describer'.status = describer.status
  BY <1>1, <1>3, Zenon DEF DescribeCall
<1>5. DescribeOK'
  BY <1>1, <1>2, <1>3, <1>4, Apart, Zenon DEF DescribeOK
<1>6. GateOf(Describer) /\ Onward /\ Advanced
  BY <1>1, <1>2, <1>3, Steady, Zenon DEF GateOf
<1> QED BY <1>2, <1>5, <1>6, DescribeEffect, Zenon DEF DescribesOnly

\* Its poll is answered.
LEMMA DescribePolledKeeps ==
  ASSUME JobInv, DescribePolled, UNCHANGED jobVars, task \notin Before
  PROVE  JobInv'
<1>1. /\ describer \in DescribeCall /\ describer.pc = "polling" /\ describer.poll.desc # 0
      /\ gate = Describer /\ describer.poll \in Polls
      /\ describer.over => poll.desc = 0 /\ describer.status # "Running"
  BY Zenon DEF JobInv, DescribeOK, DescribePolled, DescribeCall
<1>2. describer.poll.desc \in 0..MaxPolls
  BY <1>1, Zenon DEF Polls
<1>3. Onward /\ Advanced
  BY <1>1, <1>2, Updated, Zenon DEF DescribePolled
<1>4. gate' = Nobody /\ DescribesOnly
      /\ describer' = [describer EXCEPT !.pc = "known", !.poll = poll']
  BY Zenon DEF DescribePolled, DescribesOnly
<1>5. poll' \in Polls /\ (poll.desc = 0 => poll'.desc = 0)
  BY <1>3, Zenon DEF Advanced
<1>6. /\ describer' \in DescribeCall /\ describer'.pc = "known" /\ describer'.poll = poll'
      /\ describer'.over = describer.over /\ describer'.status = describer.status
  BY <1>1, <1>4, <1>5, Zenon DEF DescribeCall
<1>7. DescribeOK' /\ GateOf(Describer)
  BY <1>1, <1>4, <1>5, <1>6, Apart, Zenon DEF DescribeOK, GateOf
<1> QED BY <1>3, <1>4, <1>7, DescribeEffect, Zenon DEF DescribesOnly

\* It reports what it has read and the lifecycle: after the last answer, not that the
\* query is running.
LEMMA DescribedKeeps ==
  ASSUME JobInv, DescribesOnly, UNCHANGED <<poll, lifecycle>>, task \notin Before,
         describer.pc \in {"gate", "polling", "known"}, Described(describer.poll),
         (gate' = gate /\ describer.pc # "polling") \/ Release(Describer)
  PROVE  JobInv'
<1>1. /\ describer \in DescribeCall /\ describer.over \in BOOLEAN /\ describer.calls \in Nat
      /\ describer.over => poll.desc = 0 /\ describer.poll.desc = 0
  BY Zenon DEF JobInv, DescribeOK, DescribeCall
<1>2. PICK reported \in {"none", "Running", "Cancelling", "Cancelled", "Finished"} :
        reported = query_description(describer.poll)
  BY Zenon DEF query_description
<1>3. describer.over => reported # "Running"
  BY <1>1, <1>2, SMTT(30) DEF query_description
<1>4. describer' = [NoDescribe EXCEPT !.status = reported, !.over = describer.over,
                                      !.calls = describer.calls]
  BY <1>2, Zenon DEF Described
<1>5. /\ describer' \in DescribeCall /\ describer'.pc = "idle"
      /\ describer'.status = reported /\ describer'.over = describer.over
  BY <1>1, <1>4, NoDescribeIs, Zenon DEF DescribeCall
<1>6. gate' # Describer /\ GateOf(Describer)
  BY Apart, Zenon DEF JobInv, DescribeOK, Release, GateOf
<1>7. DescribeOK'
  BY <1>1, <1>3, <1>5, <1>6, Zenon DEF DescribeOK
<1>8. Onward /\ Advanced
  BY Steady, Zenon
<1> QED BY <1>6, <1>7, <1>8, DescribeEffect, Zenon DEF DescribesOnly

\* It fails.
LEMMA DescribeFailsKeeps ==
  ASSUME JobInv, DescribeFails, UNCHANGED jobVars, task \notin Before
  PROVE  JobInv'
<1>1. UNCHANGED <<poll, lifecycle>> /\ DescribesOnly /\ Release(Describer)
  BY Zenon DEF DescribeFails, DescribesOnly
<1>2. describer.calls \in Nat
  BY Zenon DEF JobInv, DescribeOK, DescribeCall
<1>3. describer' = [NoDescribe EXCEPT !.calls = describer.calls]
  BY Zenon DEF DescribeFails
<1>4. describer' \in DescribeCall /\ describer'.pc = "idle" /\ ~describer'.over
  BY <1>2, <1>3, NoDescribeIs, Zenon DEF DescribeCall
<1>5. gate' # Describer /\ GateOf(Describer)
  BY <1>1, Apart, Zenon DEF JobInv, DescribeOK, Release, GateOf
<1>6. DescribeOK'
  BY <1>4, <1>5, Zenon DEF DescribeOK
<1>7. Onward /\ Advanced
  BY <1>1, Steady, Zenon
<1> QED BY <1>1, <1>5, <1>6, <1>7, DescribeEffect, Zenon DEF DescribesOnly

LEMMA DescribeStepKeeps ==
  ASSUME JobInv, DescribeStep, UNCHANGED jobVars, task \notin Before
  PROVE  JobInv'
<1>1. CASE DescribeKnown
  BY <1>1, DescribedKeeps, Zenon DEF DescribeKnown, DescribesOnly
<1>2. CASE DescribeStale
  BY <1>2, DescribedKeeps, Zenon DEF DescribeStale, DescribesOnly
<1> QED BY <1>1, <1>2, DescribeStateKeeps, DescribeGateKeeps, DescribePolledKeeps, Zenon DEF DescribeStep

-----------------------------------------------------------------------------
(* The job                                                                 *)

\* The query is submitted, or not.
LEMMA submitKeeps ==
  ASSUME JobInv, submit
  PROVE  JobInv'
<1> USE DEF JobInv
<1>1. /\ task = "submit" /\ task' \in {"read", "unsubmitted"}
      /\ UNCHANGED <<srv, late, uncertain, overruled, gate, cancelGate, reader, stream,
                     cancel, describer, outcome, abort, handle, refresh, cache>>
      /\ task' = "unsubmitted" => UNCHANGED <<poll, lifecycle>>
      /\ task' = "read" => Submitted(Answer(0))
  BY Zenon DEF submit, doubt
<1>2. /\ lifecycle = "Running" /\ reader.pc = "idle" /\ ~describer.over
      /\ describer.pc = "idle" /\ outcome = "none"
  BY <1>1, Zenon DEF Unsubmitted, JobOK, Settled, Done
<1>3. JobOK'
  BY <1>1, <1>2, Zenon DEF JobOK, Settled
<1>4. CASE task' = "unsubmitted"
  <2>1. StateOK' /\ ReaderOK' /\ CancelOK' /\ DescribeOK'
    BY <1>1, <1>4, SMTT(30) DEF StateOK, ReaderOK, CancelOK, DescribeOK
  <2>2. Unsubmitted'
    BY <1>1, <1>4, Zenon DEF Unsubmitted
  <2>3. StatementRuns' /\ Doubt'
    BY <1>1, <1>4, ZenonT(40) DEF StatementRuns, Doubt, Rejected, Accepted, Doubtful, Settled
  <2> QED BY <1>3, <2>1, <2>2, <2>3, ZenonT(40)
<1>5. CASE task' = "read"
  <2>1. poll' = Answer(0) /\ lifecycle' \in {"Ready", "Running"}
    BY <1>1, <1>5, Zenon DEF Submitted
  <2>2. srv.info \in BOOLEAN /\ srv.eps \in 0..MaxEndpoints
    BY Zenon DEF StateOK, Server
  <2>3. Answer(0).desc \in 0..MaxPolls /\ (srv.state # "done" => Answer(0).desc = 1)
    BY QueryAssumption, SMTT(30) DEF Answer
  <2>4. Answer(0) \in Polls
    BY <2>2, <2>3, Zenon DEF Answer, Polls
  <2>5. StateOK'
    BY <1>1, <2>1, <2>4, ZenonT(40) DEF StateOK, Lifecycles
  <2>6. ReaderOK' /\ CancelOK' /\ DescribeOK'
    BY <1>1, <1>2, ZenonT(40) DEF ReaderOK, CancelOK, DescribeOK
  <2>7. Unsubmitted'
    BY <1>5, Zenon DEF Unsubmitted
  <2>8. StatementRuns'
    BY <1>1, <2>1, <2>3, SMTT(30) DEF StatementRuns, Settled
  <2>9. Doubt'
    <3>1. /\ \A c \in Cancellers : Rejected(c)' <=> Rejected(c)
          /\ \A c \in Cancellers : Accepted(c)' <=> Accepted(c)
          /\ \A c \in Cancellers : Doubtful(c)' <=> Doubtful(c)
      BY <1>1, Zenon DEF Rejected, Accepted, Doubtful
    <3> QED BY <1>1, <1>2, <3>1, Zenon DEF Doubt
  <2> QED BY <1>3, <2>5, <2>6, <2>7, <2>8, <2>9, Zenon
<1> QED BY <1>1, <1>4, <1>5, Zenon

\* The task goes on.
LEMMA TaskStepKeeps ==
  ASSUME JobInv, TaskStep
  PROVE  JobInv'
<1>1. CASE submit
  BY <1>1, submitKeeps, Zenon
<1>2. CASE read
  <2>1. task = "read" /\ task' = "drain" /\ UNCHANGED <<outcome, handle, refresh, cache>>
    BY <1>2, Zenon DEF read
  <2>2. outcome = "none"
    BY <2>1, Zenon DEF JobInv, JobOK, Settled, Done
  <2>3. JobSteady /\ task \notin Before
    BY <2>1, <2>2, Zenon DEF JobInv, JobOK, JobSteady, Settled, Before
  <2> QED BY <1>2, <2>3, start_readerKeeps, Zenon DEF read
<1>3. CASE drain \/ finish
  <2>1. /\ task \in {"drain", "finish"} /\ UNCHANGED <<queryVars, outcome, handle, refresh, cache>>
        /\ task' \notin Before
    BY <1>3, Zenon DEF drain, finish, Before, ErrorOf
  <2>2. outcome = "none"
    BY <2>1, Zenon DEF JobInv, JobOK, Settled, Done
  <2>3. JobOK'
    BY <2>1, <2>2, Zenon DEF JobInv, JobOK, Settled
  <2> QED BY <2>1, <2>3, JobEffect, Zenon
<1>4. CASE Aborted
  <2>1. /\ task \in {"submit", "read", "drain", "finish"} /\ task' = "aborted"
        /\ UNCHANGED <<outcome, handle, refresh, cache>>
    BY <1>4, Zenon DEF Aborted
  <2>2. outcome = "none"
    BY <2>1, Zenon DEF JobInv, JobOK, Settled, Done
  <2>3. JobOK' /\ JobSteady
    BY <2>1, <2>2, Zenon DEF JobInv, JobOK, JobSteady, Settled, Before
  <2>4. DropReader \/ DropStream \/ UNCHANGED queryVars
    BY <1>4, Zenon DEF Aborted
  <2>5. CASE UNCHANGED queryVars
    BY <2>1, <2>3, <2>5, JobEffect, Zenon DEF Before
  <2> QED BY <2>3, <2>4, <2>5, DropReaderKeeps, DropStreamKeeps, Zenon
<1> QED BY <1>1, <1>2, <1>3, <1>4, Zenon DEF TaskStep

\* The watching task publishes the outcome; wait and status note it.
LEMMA ReportKeeps ==
  ASSUME JobInv, Watch \/ wait \/ status \/ refresh_state
  PROVE  JobInv'
<1>1. UNCHANGED <<queryVars, task, handle>>
  BY Zenon DEF Watch, wait, status, refresh_state
<1>2. CASE Watch
  <2>1. /\ outcome = "none" /\ task \in Done /\ UNCHANGED <<refresh, cache>>
        /\ outcome' \in {"finished", "failed", "cancelled"}
    BY <1>2, Zenon DEF Watch, Settled
  <2>2. JobOK'
    BY <1>1, <2>1, Zenon DEF JobInv, JobOK, Settled
  <2> QED BY <1>1, <2>1, <2>2, JobEffect, Zenon
<1>3. CASE wait \/ status \/ refresh_state
  <2>1. outcome' = outcome
    BY <1>3, Zenon DEF wait, status, refresh_state
  <2>2. JobOK'
    BY <1>1, <1>3, <2>1, Zenon DEF JobInv, JobOK, Settled, wait, status, refresh_state,
                            terminal_state, StatusLabel
  <2> QED BY <1>1, <2>1, <2>2, JobEffect, Zenon
<1> QED BY <1>2, <1>3, Zenon

\* Job::cancel.
LEMMA HandleKeeps ==
  ASSUME JobInv, NEW c \in Cancellers, job_cancel(c) \/ HandleStep(c)
  PROVE  JobInv'
<1>1. handle \in [Cancellers -> {"idle", "select", "ok", "err"}]
  BY Zenon DEF JobInv, JobOK
<1>2. CASE CancelQuery(c)
  <2>1. task \notin Before
    BY <1>2, Zenon DEF CancelQuery, Known, Before
  <2> QED BY <1>2, <2>1, start_cancelKeeps, Zenon DEF CancelQuery
<1>3. CASE job_cancel(c) \/ AbortTask(c) \/ CancelRefused(c)
  <2>1. UNCHANGED <<queryVars, task, outcome, refresh, cache>>
    BY <1>3, Zenon DEF job_cancel, AbortTask, CancelRefused
  <2>2. PICK h \in {"select", "ok", "err"} :
          /\ handle' = [handle EXCEPT ![c] = h]
          /\ h = "ok" => cancel[c].pc = "ok"
    BY <1>3, Zenon DEF job_cancel, AbortTask, CancelRefused
  <2>3. h = "ok" => srv.state # "running"
    BY <2>2, Zenon DEF JobInv, StatementRuns
  <2>4. JobOK'
    BY <1>1, <2>1, <2>2, Zenon DEF JobInv, JobOK, Settled
  <2> QED BY <1>1, <2>1, <2>2, <2>3, <2>4, JobEffect, Zenon
<1>4. CASE OutcomeFirst(c)
  <2>1. /\ Settled /\ handle' = [handle EXCEPT ![c] = "ok"]
        /\ UNCHANGED <<task, outcome, refresh, cache>>
        /\ CancelFails(c) \/ UNCHANGED queryVars
    BY <1>4, Zenon DEF OutcomeFirst
  <2>2. JobOK'
    BY <1>1, <2>1, Zenon DEF JobInv, JobOK, Settled
  <2>3. CASE CancelFails(c)
    BY <2>1, <2>2, <2>3, CancelFailsKeeps, Zenon
  <2>4. CASE UNCHANGED queryVars
    BY <2>1, <2>2, <2>4, JobEffect, Zenon DEF Settled
  <2> QED BY <2>1, <2>3, <2>4, Zenon
<1> QED BY <1>2, <1>3, <1>4, Zenon DEF HandleStep

-----------------------------------------------------------------------------
(* The specification                                                       *)

LEMMA NoReaderIs == NoReader \in ReadCall /\ NoReader.pc = "idle" /\ NoReader.back = "none"
BY QueryAssumption, SMTT(30) DEF NoReader, ReadCall, Errors

LEMMA Initially == JobInit => JobInv
<1> SUFFICES ASSUME JobInit PROVE JobInv
  BY Zenon
<1>1. PICK n \in 0..MaxCalls : reader = [NoReader EXCEPT !.calls = n]
  BY Zenon DEF JobInit, QueryInit
<1>2. PICK m \in 0..MaxCalls : describer = [NoDescribe EXCEPT !.calls = m]
  BY Zenon DEF JobInit, QueryInit
<1>3. n \in Nat /\ m \in Nat /\ MaxPolls \in Nat \ {0} /\ MaxEndpoints \in Nat \ {0}
      /\ Capacity \in Nat
  BY QueryAssumption, SMTT(30)
<1>4. reader \in ReadCall /\ reader.pc = "idle" /\ reader.back = "none"
  BY <1>1, <1>3, NoReaderIs, Zenon DEF ReadCall
<1>5. describer \in DescribeCall /\ describer.pc = "idle" /\ ~describer.over
  BY <1>2, <1>3, NoDescribeIs, Zenon DEF DescribeCall
<1>6. /\ NoCancel \in CancelCall /\ NoCancel.pc = "idle"
      /\ Absent \in CancelCall /\ Absent.pc = "absent"
  <2>1. NoCancel \in CancelCall
    BY QueryAssumption, SMTT(30) DEF NoCancel, CancelCall
  <2>2. Absent \in CancelCall /\ Absent.pc = "absent"
    BY <2>1, Zenon DEF Absent, CancelCall
  <2> QED BY <2>1, <2>2, Zenon DEF NoCancel
<1>7. /\ cancel \in [Cancellers -> CancelCall]
      /\ \A c \in Cancellers : cancel[c].pc \in {"idle", "absent"}
  BY <1>6, SMTT(30) DEF JobInit, QueryInit
<1>8. srv \in [state : {"running"}, info : {FALSE}, eps : {0}, empty : {{}, {1}},
              cap : 1..MaxEndpoints]
  BY Zenon DEF JobInit, QueryInit
<1>9. srv.state = "running" /\ srv.eps = 0 /\ srv.cap \in 1..MaxEndpoints
  BY <1>8, Zenon
<1>10. srv \in Server
  <2>1. /\ {"running"} \subseteq {"running", "cancelling", "done", "cancelled"}
        /\ {FALSE} \subseteq BOOLEAN /\ {0} \subseteq 0..MaxEndpoints
    BY <1>3, SMTT(30)
  <2> QED BY <1>8, <2>1, Zenon DEF Server
<1>11. poll \in Polls /\ poll.desc = 1
  BY <1>3, SMTT(30) DEF Polls, JobInit, QueryInit
<1>12. stream \in Channel /\ Len(stream.chan) <= Capacity
  <2>1. << >> \in Seq(Nat) /\ Len(<< >>) <= Capacity
    BY <1>3, SMTT(30)
  <2> QED BY <2>1, Zenon DEF JobInit, QueryInit, NoStream, Channel, Errors
<1>13. /\ lifecycle = "Running" /\ gate = Nobody /\ cancelGate = Nobody
       /\ late = FALSE /\ uncertain = FALSE /\ overruled = FALSE
  BY Zenon DEF JobInit, QueryInit
<1>14. srv.eps <= srv.cap
  BY <1>3, <1>9, SMTT(30)
<1>15. StateOK
  BY <1>10, <1>11, <1>12, <1>13, <1>14, Zenon DEF StateOK, Lifecycles, Actors
<1>16. ReaderOK
  BY <1>4, <1>13, Apart, Zenon DEF ReaderOK
<1>17. CancelOK
  BY <1>7, <1>13, Apart, Zenon DEF CancelOK, Inside
<1>18. DescribeOK
  BY <1>5, <1>13, Apart, Zenon DEF DescribeOK
<1>19. Unsubmitted
  BY <1>4, <1>5, <1>7, <1>13, Zenon DEF Unsubmitted
<1>20. \A c \in Cancellers : handle[c] = "idle"
  BY Zenon DEF JobInit
<1>21. StatementRuns
  BY <1>7, <1>11, <1>13, <1>20, SMTT(30) DEF StatementRuns
<1>22. Doubt
  BY <1>7, <1>9, <1>13, Zenon DEF Doubt, Doubtful
<1>23. JobOK
  BY Zenon DEF JobOK, Settled, JobInit
<1> QED BY <1>15, <1>16, <1>17, <1>18, <1>19, <1>21, <1>22, <1>23, Zenon DEF JobInv

LEMMA QueryKeeps ==
  ASSUME JobInv, QueryRuns, UNCHANGED jobVars
  PROVE  JobInv'
<1>1. CASE ServerNext
  BY <1>1, ServerKeeps, Zenon
<1>2. CASE ReaderStep
  BY <1>2, PollGateKeeps, PollAnsweredKeeps, prepare_resultKeeps, FirstBatchKeeps,
     send_result_batchKeeps, run_result_streamKeeps, OpenNextKeeps, EndOfEndpointKeeps,
     CompleteResultKeeps, ReadFailsKeeps, ReportErrorKeeps, StreamClosedKeeps, Zenon DEF ReaderStep
<1>3. CASE ReadFails
  BY <1>3, ReadFailsKeeps, Zenon
<1>4. CASE ConsumerStep
  BY <1>4, ReceiveKeeps, ReceiveEndKeeps, Zenon DEF ConsumerStep
<1>5. ASSUME NEW c \in Cancellers, CancelStep(c)
      PROVE  JobInv'
  BY <1>5, EnterCancelKeeps, LookAtStateKeeps, CancelGateKeeps, StateChangedKeeps,
     CancelPolledKeeps, DispatchKeeps, CancelAnsweredKeeps, ApplyAnswerKeeps, restoreKeeps, Zenon
     DEF CancelStep
<1>6. ASSUME NEW c \in Cancellers, CancelFails(c)
      PROVE  JobInv'
  <2>1. JobOK' /\ UNCHANGED <<task, outcome, handle>>
    BY JobFrame, Zenon DEF JobInv, jobVars
  <2> QED BY <1>6, <2>1, CancelFailsKeeps, Zenon
<1> QED BY <1>1, <1>2, <1>3, <1>4, <1>5, <1>6, Zenon DEF QueryRuns

LEMMA UserKeeps ==
  ASSUME JobInv, ~IsJob, UserNext, UNCHANGED jobVars
  PROVE  JobInv'
<1>1. task \notin Before /\ JobSteady
  BY NoJobStep, Zenon DEF IsJob, Before
<1>2. CASE start_reader \/ DropStream \/ DropReader
  BY <1>1, <1>2, start_readerKeeps, DropStreamKeeps, DropReaderKeeps, Zenon
<1>3. CASE start_describe \/ DescribeFails \/ DescribeStep
  BY <1>1, <1>3, start_describeKeeps, DescribeFailsKeeps, DescribeStepKeeps, Zenon
<1>4. ASSUME NEW c \in Cancellers, start_cancel(c)
      PROVE  JobInv'
  BY <1>1, <1>4, start_cancelKeeps, Zenon
<1> QED BY <1>2, <1>3, <1>4, Zenon DEF UserNext

LEMMA NextKeeps == JobInv /\ [Next]_vars => JobInv'
<1> SUFFICES ASSUME JobInv, [Next]_vars PROVE JobInv'
  BY Zenon
<1>1. CASE QueryRuns /\ UNCHANGED jobVars
  BY <1>1, QueryKeeps, Zenon
<1>2. CASE ~IsJob /\ UserNext /\ UNCHANGED jobVars
  BY <1>2, UserKeeps, Zenon
<1>3. CASE JobNext
  BY <1>3, TaskStepKeeps, ReportKeeps, HandleKeeps, Zenon DEF JobNext
<1>4. CASE UNCHANGED vars
  <2>1. UNCHANGED queryVars /\ UNCHANGED jobVars
    BY <1>4, Zenon DEF vars
  <2>2. JobOK' /\ UNCHANGED <<task, outcome, handle>>
    BY <2>1, JobFrame, Zenon DEF JobInv, jobVars
  <2> QED BY <2>1, <2>2, JobEffect, Zenon
<1> QED BY <1>1, <1>2, <1>3, <1>4, Zenon DEF Next

\* The invariant of a query and its job.
THEOREM Invariant == Spec => []JobInv
<1>1. JobInit => JobInv
  BY Initially, Zenon
<1>2. JobInv /\ [Next]_vars => JobInv'
  BY NextKeeps, Zenon
<1> QED BY <1>1, <1>2, PTL DEF Spec

\* Every value of a query and of a job has its type, and the gates are held by the
\* calls that are past them.
THEOREM JobTypeCorrect == Spec => []TypeOK
<1>1. JobInv => TypeOK
  <2> SUFFICES ASSUME JobInv PROVE TypeOK
    BY Zenon
  <2>1. QueryTypeOK
    <3>1. poll \in Polls /\ lifecycle \in Lifecycles /\ gate \in Actors /\ cancelGate \in Actors
      BY Zenon DEF JobInv, StateOK
    <3>2. describer.poll \in Polls
      BY Zenon DEF JobInv, DescribeOK, DescribeCall
    <3>3. {late, uncertain, overruled} \subseteq BOOLEAN /\ Len(stream.chan) <= Capacity
      BY Zenon DEF JobInv, StateOK
    <3>4. /\ gate = Reader <=> reader.pc = "polling"
          /\ gate = Describer <=> describer.pc = "polling"
      BY Zenon DEF JobInv, ReaderOK, DescribeOK
    <3>5. \A c \in Cancellers :
            /\ gate = c <=> cancel[c].pc = "polling"
            /\ cancelGate = c <=> cancel[c].pc \in Inside
      BY Zenon DEF JobInv, CancelOK
    <3> QED BY <3>1, <3>2, <3>3, <3>4, <3>5, Zenon DEF QueryTypeOK, Lifecycles, Inside
  <2>2. /\ outcome \in {"none", "finished", "failed", "cancelled"}
        /\ cache \in {"none", "running", "finished", "failed", "cancelled"}
        /\ Settled => task \in Done
    BY Zenon DEF JobInv, JobOK, Settled
  <2> QED BY <2>1, <2>2, Zenon DEF TypeOK
<1> QED BY <1>1, Invariant, PTL

\* What cancel reports is so: an Ok has stopped the statement or came when the job had
\* ended, and "not found" means that no earlier request can have stopped the statement
\* unless a definite answer has overruled it.
THEOREM CancelIsTruthful == Spec => []CancelTellsTruth
<1>1. JobInv => CancelTellsTruth
  <2> SUFFICES ASSUME JobInv PROVE CancelTellsTruth
    BY Zenon
  <2>1. CancelStopsStatement
    BY Zenon DEF CancelStopsStatement, JobInv, StatementRuns
  <2>2. NotFoundIsSure
    <3> SUFFICES ASSUME NEW c \in Cancellers,
                        cancel[c].pc = "answered", cancel[c].answer = "NotFound",
                        lifecycle \in {"Running", "Ready"}, NotFoundResult(c) = "not_found",
                        srv.state = "cancelled"
                 PROVE  overruled
      BY Zenon DEF NotFoundIsSure
    <3>1. ~cancel[c].before /\ Doubtful(c) /\ ~Accepted(c)
      BY Zenon DEF NotFoundResult, Doubtful, Accepted
    <3>2. ~uncertain
      BY <3>1, Zenon DEF JobInv, Doubt
    <3>3. \A d \in Cancellers : ~Accepted(d)
      BY <3>1, OneInside, Zenon DEF Accepted, Inside
    <3> QED BY <3>2, <3>3, Zenon DEF JobInv, Doubt
  <2> QED BY <2>1, <2>2, Zenon DEF CancelTellsTruth
<1> QED BY <1>1, Invariant, PTL

\* What is reported of a query or a job agrees with how it ended: a terminal state in the
\* handle's cache is the job's outcome, and a describe that began after the last poll was
\* answered does not report that the query is running.
THEOREM StatusIsTruthful == Spec => []StatusTellsOutcome
<1>1. JobInv => StatusTellsOutcome
  BY Zenon DEF JobInv, JobOK, DescribeOK, StatusTellsOutcome, CacheTellsOutcome, OverIsNotRunning
<1> QED BY <1>1, Invariant, PTL

\* A query that is cancelled or completed stays so, and one whose cancellation the service
\* has accepted is never taken for complete.
THEOREM QueryEndsOnce == Spec => EndsOnce
<1> DEFINE Stays == /\ Over => lifecycle' = lifecycle
                    /\ lifecycle = "Cancelling" => lifecycle' # "Completed"
<1>1. JobInv /\ [Next]_vars => [Stays]_queryVars
  <2> SUFFICES ASSUME JobInv, [Next]_vars PROVE Stays
    BY Zenon
  <2>1. CASE lifecycle' = lifecycle
    BY <2>1, Zenon
  <2>2. CASE submit
    BY <2>2, Zenon DEF submit, JobInv, Unsubmitted, Over
  <2>3. ASSUME NEW desc, NEW updated, update_state(desc, updated)
        PROVE  Stays
    BY <2>3, Zenon DEF update_state, mark_ready, Over
  <2>4. CASE CompleteResult
    BY <2>4, Zenon DEF CompleteResult, mark_result_completed, is_cancellation_requested, Over
  <2>5. ASSUME NEW c \in Cancellers, ApplyAnswer(c)
        PROVE  Stays
    BY <2>5, Zenon DEF ApplyAnswer, mark_cancelled, mark_cancelling, OfferedNotFound, Over
  <2>6. ASSUME NEW c \in Cancellers, restore_after_rejected_cancellation(c)
        PROVE  Stays
    BY <2>6, Zenon DEF restore_after_rejected_cancellation, Over
  <2>7. CASE QueryRuns
    <3>1. CASE ServerNext \/ ReadFails \/ ConsumerStep
      BY <2>1, <3>1, Zenon DEF ServerNext, Publish, FinishStatement, LateCancel, ReadFails,
                        ConsumerStep, Receive, ReceiveEnd
    <3>2. CASE ReaderStep
      BY <2>1, <2>3, <2>4, <3>2, Zenon DEF ReaderStep, PollGate, PollAnswered, prepare_result,
         FirstBatch, send_result_batch, run_result_stream, OpenNext, EndOfEndpoint,
         ReadCancelled, ReportError, StreamClosed
    <3>3. ASSUME NEW c \in Cancellers, CancelStep(c) \/ CancelFails(c)
          PROVE  Stays
      BY <2>1, <2>3, <2>5, <2>6, <3>3, Zenon DEF CancelStep, EnterCancel, LookAtState, CancelGate,
         StateChanged, CancelPolled, Dispatch, CancelAnswered, CancelFails
    <3> QED BY <2>7, <3>1, <3>2, <3>3, Zenon DEF QueryRuns
  <2>8. CASE UserNext
    BY <2>1, <2>3, <2>8, Zenon DEF UserNext, start_reader, DropStream, DropReader, start_describe,
       DescribeFails, DescribeStep, DescribeState, DescribeGate, DescribePolled,
       DescribeKnown, DescribeStale, start_cancel
  <2>9. CASE JobNext
    <3>1. CASE read \/ Aborted
      BY <2>1, <3>1, Zenon DEF read, start_reader, Aborted, DropReader, DropStream, queryVars
    <3>2. CASE drain \/ finish \/ Watch \/ wait \/ status \/ refresh_state
      BY <2>1, <3>2, Zenon DEF drain, finish, Watch, wait, status, refresh_state, queryVars
    <3>3. ASSUME NEW c \in Cancellers, job_cancel(c) \/ HandleStep(c)
          PROVE  Stays
      BY <2>1, <3>3, Zenon DEF job_cancel, HandleStep, CancelQuery, start_cancel, OutcomeFirst,
         CancelFails, AbortTask, CancelRefused, queryVars
    <3> QED BY <2>2, <2>9, <3>1, <3>2, <3>3, Zenon DEF JobNext, TaskStep
  <2>10. CASE UNCHANGED vars
    BY <2>1, <2>10, Zenon DEF vars, queryVars
  <2> QED BY <2>7, <2>8, <2>9, <2>10, Zenon DEF Next
<1> QED BY <1>1, Invariant, PTL DEF Spec, EndsOnce
================================================================================
