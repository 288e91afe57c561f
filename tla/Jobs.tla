-------------------------------- MODULE Jobs --------------------------------
(***************************************************************************)
(* Jobs that run in this process (SpawnedJob): a task, a second task that  *)
(* watches it and publishes its outcome, and callers of wait, status and   *)
(* cancel.  The job here is the one of SqlClient::submit_as_job (a remote  *)
(* refresh of a materialized view): it submits a SQL query, drains its     *)
(* reader and finishes, and cancelling it cancels the query first.         *)
(*                                                                         *)
(* Source: rust/lancedb/src/job.rs and remote/sql.rs.  Without a job       *)
(* (task = "none") the query is used directly, as in SqlQuery.             *)
(***************************************************************************)
EXTENDS SqlQuery

VARIABLES task,     \* the job's task
          outcome,  \* the watch channel of SpawnedJob
          abort,    \* AbortHandle::abort was called
          handle,   \* Job::cancel, one call for each canceller of the query
          refresh,  \* a call of Job::status
          cache     \* JobCache.state

jobVars == <<task, outcome, abort, handle, refresh, cache>>
vars == <<queryVars, jobVars>>

IsJob == task # "none"
Known == task \notin {"none", "submit", "unsubmitted"}
Done == {"succeeded", "failed", "cancelled_error", "aborted", "unsubmitted"}
Settled == outcome # "none"
(* Somebody asks for the status, or waits. *)
Reports == IsJob /\ refresh # "absent"

JobInit ==
    /\ QueryInit
    /\ task \in {"none", "submit"}
    /\ outcome = "none" /\ abort = FALSE /\ cache = "none"
    /\ handle = [c \in Cancellers |-> "idle"]
    /\ refresh \in {"idle", "absent"}

(***************************************************************************)
(* The task: submit, reader, drain, finish.                                *)
(***************************************************************************)
submit ==
    /\ task = "submit" /\ ~abort
    /\ \/ /\ task' = "read"
          /\ Submitted(Answer(0))
       \/ /\ task' = "unsubmitted"
          /\ UNCHANGED <<poll, lifecycle>>
    /\ UNCHANGED <<srv, late, doubt, gate, cancelGate, reader, stream,
                   cancel, describer, outcome, abort, handle, refresh,
                   cache>>

read ==
    /\ task = "read" /\ ~abort
    /\ start_reader
    /\ task' = "drain"
    /\ UNCHANGED <<outcome, abort, handle, refresh, cache>>

ErrorOf(error) == IF error = "cancelled" THEN "cancelled_error" ELSE "failed"

(* "?" on the reader and on each item of its stream. *)
drain ==
    /\ task = "drain" /\ ~abort
    /\ \/ reader.pc = "failed" /\ task' = ErrorOf(reader.error)
       \/ stream.state = "error" /\ task' = ErrorOf(stream.error)
       \/ stream.state = "end" /\ task' = "finish"
    /\ UNCHANGED <<queryVars, outcome, abort, handle, refresh, cache>>

finish ==
    /\ task = "finish"
    /\ task' \in {"succeeded", "failed"}
    /\ UNCHANGED <<queryVars, outcome, abort, handle, refresh, cache>>

(* The abort takes effect where the task waits; what it held is dropped. *)
Aborted ==
    /\ abort /\ task \in {"submit", "read", "drain", "finish"}
    /\ task' = "aborted"
    /\ IF reader.back = "prepare"
       THEN DropReader
       ELSE IF stream.state = "open" THEN DropStream ELSE UNCHANGED queryVars
    /\ UNCHANGED <<outcome, abort, handle, refresh, cache>>

(* The watching task. *)
Watch ==
    /\ task \in Done /\ ~Settled
    /\ outcome' = CASE task = "succeeded" -> "finished"
                    [] task = "aborted" -> "cancelled"
                    [] OTHER -> "failed"
    /\ UNCHANGED <<queryVars, task, abort, handle, refresh, cache>>

(***************************************************************************)
(* Job::cancel: SpawnedJob::cancel waits for the outcome or for the        *)
(* cancellation, which waits for the query and cancels it.                 *)
(***************************************************************************)
job_cancel(c) ==
    /\ IsJob /\ handle[c] = "idle" /\ cancel[c].pc = "idle"
    /\ handle' = [handle EXCEPT ![c] = "select"]
    /\ UNCHANGED <<queryVars, task, outcome, abort, refresh, cache>>

CancelQuery(c) ==
    /\ handle[c] = "select" /\ Known
    /\ start_cancel(c)
    /\ UNCHANGED jobVars

NeverSettled(c) == FALSE /\ UNCHANGED vars
(* The outcome is settled first: the cancellation future is dropped. *)
OutcomeFirst(c) ==
    /\ handle[c] = "select" /\ Settled
    /\ handle' = [handle EXCEPT ![c] = "ok"]
    /\ \/ CancelFails(c)
       \/ /\ cancel[c].pc \notin {"queued", "gate", "polling", "send", "sent"}
          /\ UNCHANGED queryVars
    /\ UNCHANGED <<task, outcome, abort, refresh, cache>>

AbortTask(c) ==
    /\ handle[c] = "select" /\ cancel[c].pc = "ok"
    /\ abort' = TRUE
    /\ handle' = [handle EXCEPT ![c] = "ok"]
    /\ UNCHANGED <<queryVars, task, outcome, refresh, cache>>

CancelRefused(c) ==
    /\ handle[c] = "select" /\ cancel[c].pc \in {"err", "unknown", "not_found"}
    /\ handle' = [handle EXCEPT ![c] = "err"]
    /\ UNCHANGED <<queryVars, task, outcome, abort, refresh, cache>>

(***************************************************************************)
(* Job::wait and Job::status.  Both leave what they learn in the cache;    *)
(* status reads the outcome and writes the cache in two steps.             *)
(***************************************************************************)
terminal_state(settled) == settled

wait ==
    /\ Reports /\ Settled
    /\ cache' = terminal_state(outcome)
    /\ UNCHANGED <<queryVars, task, outcome, abort, handle, refresh>>

StatusLabel == IF Settled THEN outcome ELSE "running"

status ==
    /\ Reports /\ refresh = "idle"
    /\ refresh' = StatusLabel
    /\ UNCHANGED <<queryVars, task, outcome, abort, handle, cache>>

refresh_state ==
    /\ refresh \notin {"idle", "absent"}
    /\ cache' = refresh
    /\ refresh' = "idle"
    /\ UNCHANGED <<queryVars, task, outcome, abort, handle>>

-----------------------------------------------------------------------------
TaskStep == submit \/ read \/ drain \/ finish \/ Aborted
HandleStep(c) == \/ CancelQuery(c) \/ OutcomeFirst(c) \/ AbortTask(c)
                 \/ CancelRefused(c)

JobNext == \/ TaskStep \/ Watch \/ wait \/ status \/ refresh_state
           \/ \E c \in Cancellers : job_cancel(c) \/ HandleStep(c)

(* The query's own steps, whoever uses it. *)
QueryRuns == \/ ServerNext \/ ReaderStep \/ ReadFails \/ ConsumerStep
             \/ \E c \in Cancellers : CancelStep(c) \/ CancelFails(c)

Next == \/ QueryRuns /\ UNCHANGED jobVars
        \/ ~IsJob /\ UserNext /\ UNCHANGED jobVars
        \/ JobNext
(* Requests are answered, be it with an error, tasks are scheduled, and the *)
(* consumer reads or drops its stream; the service ends every statement.   *)
Step == \/ /\ \/ FinishStatement \/ ReaderStep \/ ConsumerStep \/ DescribeStep
              \/ srv.state = "cancelled" /\ ReadFails
              \/ \E c \in Cancellers :
                   CancelStep(c) \/ (srv.state = "cancelled" /\ CancelFails(c))
           /\ UNCHANGED jobVars
        \/ TaskStep \/ Watch \/ \E c \in Cancellers : HandleStep(c)

Spec == JobInit /\ [][Next]_vars /\ WF_vars(Step)
-----------------------------------------------------------------------------
TypeOK ==
    /\ QueryTypeOK
    /\ outcome \in {"none", "finished", "failed", "cancelled"}
    /\ cache \in {"none", "running", "finished", "failed", "cancelled"}
    /\ Settled => task \in Done

\* The state the handle caches, once it is a terminal one, is how the job ended,
\* although wait and status write it in any order.
CacheTellsOutcome ==
    cache \in {"finished", "failed", "cancelled"} => cache = outcome

\* A cancel that returned without error has stopped the statement on the service,
\* or came when the job had ended: it never leaves a statement running behind a
\* job it has aborted.
CancelStopsStatement ==
    \A c \in Cancellers : handle[c] = "ok" => Settled \/ srv.state # "running"

\* What cancel reports is so: an Ok has stopped the statement or came too late, and
\* "not found" means that no earlier request can have stopped it.
CancelTellsTruth == CancelStopsStatement /\ NotFoundIsSure

\* What is reported of a query or a job agrees with how it ended.
StatusTellsOutcome == CacheTellsOutcome /\ OverIsNotRunning

\* wait returns JobCancelled if the job was cancelled (job.rs): the error with
\* which the query's reader reports the cancellation is no failure of the job.
CancelledNotFailed == ~(task = "cancelled_error" /\ outcome = "failed")

Quiet ==
    /\ reader.pc \in {"idle", "failed", "ended"} /\ describer.pc = "idle"
    /\ \A c \in Cancellers :
         /\ handle[c] # "select"
         /\ cancel[c].pc \in {"absent", "idle", "ok", "err", "unknown",
                              "not_found"}
    /\ IsJob => Settled

\* Every call returns and every job ends, whichever of the gates, the full
\* channel and the unsettled outcome it waits on: in particular cancelling a job
\* whose query was never submitted does not wait for that query for ever.
QueriesReturn == []<>Quiet

-----------------------------------------------------------------------------
(* The inductive invariant behind CancelTellsTruth, StatusTellsOutcome and   *)
(* EndsOnce, one conjunct for each part of the state.                        *)

Lifecycles == {"Running", "Ready", "Cancelling", "Cancelled", "Completed"}
Errors == {"none", "cancelled", "failed"}
Server == [state : {"running", "cancelling", "done", "cancelled"}, info : BOOLEAN,
           eps : 0..MaxEndpoints, empty : {{}, {1}}, cap : 1..MaxEndpoints]
ReadCall == [pc : {"idle", "failed", "ended", "prepare", "gate", "polling", "open",
                   "loop", "send", "next", "opening", "complete", "report"},
             next : Nat, open : Nat, batch : Nat, desc : 0..MaxPolls,
             back : {"none", "prepare", "loop"}, error : Errors, calls : Nat]
Channel == [chan : Seq(Nat), got : Seq(Nat), error : Errors,
            state : {"none", "open", "dropped", "error", "end"}]
CancelCall == [pc : {"absent", "idle", "queued", "look", "gate", "polling", "send",
                     "sent", "answered", "restore", "ok", "err", "unknown", "not_found"},
               desc : 0..MaxPolls, running : BOOLEAN, before : BOOLEAN,
               answer : {"none", "Cancelled", "Cancelling", "NotCancellable", "NotFound",
                         "refused", "ambiguous"}]
DescribeCall == [pc : {"idle", "state", "gate", "polling", "known"}, poll : Polls,
                 status : {"none", "Running", "Cancelling", "Cancelled", "Finished"},
                 over : BOOLEAN, calls : Nat]

StateOK ==
    /\ srv \in Server /\ srv.eps <= srv.cap /\ poll \in Polls
    /\ lifecycle \in Lifecycles /\ gate \in Actors /\ cancelGate \in Actors
    /\ late \in BOOLEAN /\ uncertain \in BOOLEAN /\ overruled \in BOOLEAN
    /\ stream \in Channel /\ Len(stream.chan) <= Capacity

\* The reader polls for a descriptor, and completes after the last answer.
ReaderOK ==
    /\ reader \in ReadCall
    /\ gate = Reader <=> reader.pc = "polling"
    /\ reader.pc \in {"gate", "polling"} => reader.desc # 0
    /\ reader.pc = "complete" => poll.desc = 0
    /\ reader.pc \in {"idle", "failed", "ended"} \/ reader.back # "none"

\* One cancellation is past the gate at a time, and it polls for a descriptor.
Inside == {"look", "gate", "polling", "send", "sent", "answered", "restore"}
CancelOK ==
    /\ cancel \in [Cancellers -> CancelCall]
    /\ \A c \in Cancellers :
          /\ gate = c <=> cancel[c].pc = "polling"
          /\ cancelGate = c <=> cancel[c].pc \in Inside
          /\ cancel[c].pc \in {"gate", "polling"} => cancel[c].desc # 0

\* A describe that began when the last poll was answered has read that answer.
DescribeOK ==
    /\ describer \in DescribeCall
    /\ gate = Describer <=> describer.pc = "polling"
    /\ describer.pc \in {"gate", "polling"} => describer.poll.desc # 0
    /\ describer.over =>
          /\ poll.desc = 0 /\ describer.status # "Running"
          /\ describer.pc \in {"gate", "polling", "known"} => describer.poll.desc = 0

\* Nothing uses a query before it is submitted.
Unsubmitted ==
    task \in {"submit", "unsubmitted"} =>
        /\ lifecycle = "Running" /\ reader.pc = "idle" /\ reader.back = "none"
        /\ describer.pc = "idle" /\ ~describer.over
        /\ \A c \in Cancellers : cancel[c].pc \in {"idle", "absent"}

\* While the statement runs, nobody has been told that it was over.
StatementRuns ==
    srv.state = "running" =>
        /\ poll.desc # 0 /\ lifecycle \in {"Running", "Ready"}
        /\ \A c \in Cancellers :
              /\ cancel[c].pc # "ok" /\ (handle[c] = "ok" => Settled)
              /\ cancel[c].pc = "answered" =>
                    cancel[c].answer \notin {"Cancelled", "Cancelling", "NotFound"}

\* A statement that was cancelled without the client knowing it leaves a doubt, and
\* whoever sends a request then has noted the doubt.
Rejected(c) ==
    \/ cancel[c].pc = "restore"
    \/ cancel[c].pc = "answered" /\ cancel[c].answer = "NotCancellable"
Accepted(c) == cancel[c].pc = "answered" /\ cancel[c].answer = "Cancelled"
Doubtful(c) ==
    \/ cancel[c].pc \in {"send", "sent"}
    \/ cancel[c].pc = "answered" /\ cancel[c].answer # "ambiguous"
Doubt ==
    /\ late => uncertain \/ overruled
    /\ srv.state = "cancelled" =>
          \/ uncertain \/ overruled
          \/ /\ lifecycle \in {"Cancelling", "Cancelled", "Completed"}
             /\ \A c \in Cancellers : ~Rejected(c)
          \/ \E c \in Cancellers : Accepted(c)
    /\ \A c \in Cancellers : Doubtful(c) /\ uncertain => cancel[c].before

\* A state that status or wait has seen is the job's.
JobOK ==
    /\ outcome \in {"none", "finished", "failed", "cancelled"}
    /\ Settled => task \in Done
    /\ handle \in [Cancellers -> {"idle", "select", "ok", "err"}]
    /\ refresh \in {"idle", "absent", "running"} \/ (Settled /\ refresh = outcome)
    /\ cache \in {"none", "running"} \/ (Settled /\ cache = outcome)

JobInv == /\ StateOK /\ ReaderOK /\ CancelOK /\ DescribeOK
          /\ Unsubmitted /\ StatementRuns /\ Doubt /\ JobOK
=============================================================================
