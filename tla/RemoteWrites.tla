---------------------------- MODULE RemoteWrites ----------------------------
(***************************************************************************)
(* One add or merge_insert on a remote table, from the call to its answer: *)
(* the plan that streams the input as one request, or as the parts of a    *)
(* multipart session (create, parts of several partitions in parallel,     *)
(* complete or abort), the two retry loops around them (send_with_retry    *)
(* around a request without a body, the outer loop around the whole        *)
(* attempt), and the server that stages parts and commits (external).      *)
(*                                                                         *)
(* Source: rust/lancedb/src/remote/table.rs, remote/table/insert.rs,       *)
(* remote/retry.rs, remote/client.rs.  A batch is its position in the      *)
(* input; the bytes of a part are counted in batches; sleeping between     *)
(* attempts is not a step.                                                 *)
(***************************************************************************)
EXTENDS Naturals, Sequences, FiniteSets

CONSTANTS Lengths,        \* how many batches an input can have
          Rejected,       \* which batch of an input can be rejected
          NumPartitions,  \* the write parallelism of a multipart add
          MaxBytes,       \* max_bytes_per_request, in batches
          Retries         \* retries = connect_retries = read_retries

ASSUME WritesAssumption ==
    /\ Lengths \subseteq Nat /\ Rejected \subseteq Nat \ {0}
    /\ NumPartitions \in Nat \ {0, 1}
    /\ MaxBytes \in Nat \ {0} /\ Retries \in Nat \ {0}

VARIABLES conf,      \* what the caller asked for and what it is connected to
          pc,        \* where the call is
          outer,     \* the RetryCounter of the outer loop
          inner,     \* the RetryCounter of the send_with_retry in progress
          err,       \* the error being handled
          part,      \* the task of each partition of this attempt
          upload,    \* upload_id of this attempt; 0 before there is one
          sessions,  \* server: the multipart sessions, by upload_id
          commits,   \* server: what each commit made by this call wrote
          orphans,   \* part requests whose task was aborted in flight
          result,    \* what the call returned
          leaked,    \* ghost: sessions whose abort did not reach the server
          masked     \* ghost: "lost" once a complete was applied and its
                     \* answer lost, "masked" when that request then ran out
                     \* of retries on a retryable status
vars == <<conf, pc, outer, inner, err, part, upload, sessions, commits,
          orphans, result, leaked, masked>>
server == <<sessions, commits>>

Partition == 1 .. NumPartitions
Counter == [request : 0 .. Retries - 1, connect : 0 .. Retries - 1,
            read : 0 .. Retries - 1]
ZeroCounter == [request |-> 0, connect |-> 0, read |-> 0]
Idle == [p \in Partition |-> [pc |-> "idle", left |-> <<>>, body |-> <<>>]]

(***************************************************************************)
(* The configurations.  "bad" is the batch in whose place the source fails *)
(* on every scan, 0 when there is none.  merge_insert buffers its reader,  *)
(* so its input can always be scanned again, and has no multipart          *)
(* endpoint.                                                               *)
(***************************************************************************)
Config ==
    {c \in [op : {"add", "merge_insert"}, len : Lengths,
            bad : Rejected \cup {0}, rescannable : BOOLEAN, parallel : BOOLEAN,
            split : BOOLEAN] :
        /\ c.bad <= c.len
        /\ c.op = "merge_insert" =>
              (c.rescannable /\ ~c.parallel /\ c.bad = 0)
        /\ ~c.parallel => ~c.split}

Input == [i \in 1 .. conf.len |-> i]
Whole == [i \in 1 .. conf.len |-> 1]

(***************************************************************************)
(* add peeks at the first batch: an input without one goes through the     *)
(* single request, whatever the parallelism asked for, because a session   *)
(* in which no part is staged commits nothing.                             *)
(***************************************************************************)
ChosenPartitions ==
    IF conf.parallel /\ conf.len > 0 /\ conf.bad # 1 THEN NumPartitions ELSE 1

(***************************************************************************)
(* retry.rs                                                                *)
(***************************************************************************)
OneRetryTooMany(c) ==
    c.request > Retries \/ c.connect > Retries \/ c.read > Retries
check_out_of_retries(c) ==
    c.request >= Retries \/ c.connect >= Retries \/ c.read >= Retries

IncrementRequestsOnly(c, e) ==
    IF e = "connect" THEN c ELSE [c EXCEPT !.request = @ + 1]
increment_from_error(c, e) ==
    CASE e = "connect" -> [c EXCEPT !.connect = @ + 1]
      [] e = "read"    -> [c EXCEPT !.read = @ + 1]
      [] OTHER         -> [c EXCEPT !.request = @ + 1]

is_retryable_write_error(e) == e \in {"connect", "status", "retry_status"}

(***************************************************************************)
(* What a request can come back with.  The server applies a request before *)
(* a success status, and before an answer that is lost on the way back     *)
(* ("lost") or whose body cannot be read ("garbled"); it has not applied   *)
(* one it answers with a retryable status ("status") or refuses            *)
(* ("refused"), nor one that times out or never reaches it.                *)
(***************************************************************************)
Answers == {"ok", "lost", "garbled", "timeout", "connect", "status",
            "refused"}
Applied(a) == a \in {"ok", "lost", "garbled"}

(* The error of a request sent once, by RestfulLanceDbClient::send. *)
SentError(a) ==
    IF a \in {"lost", "garbled", "timeout"} THEN "read" ELSE a

(* send_with_retry: the counter an answer increments, and the error when   *)
(* the retries are used up.                                                *)
send_with_retry(c, a) ==
    increment_from_error(c, SentError(a))
RetryError(a) == IF a = "status" THEN "retry_status" ELSE "retry"
RetriedHere(a) == a \in {"lost", "timeout", "connect", "status"}

(***************************************************************************)
(* The server's side of a multipart session.                               *)
(***************************************************************************)
Staged(s, body) ==
    [s EXCEPT !.any = TRUE,
              !.rows = [i \in DOMAIN @ |->
                          @[i] + Cardinality({j \in DOMAIN body : body[j] = i})]]
Stage(u, body) ==
    sessions' = [sessions EXCEPT ![u] =
                    IF @.state = "open" THEN Staged(@, body) ELSE @]
Closed(s, state) ==
    IF s.state # "open" THEN s
    ELSE [s EXCEPT !.state = state, !.rows = [i \in DOMAIN @ |-> 0]]
(* Completing a session twice commits it once. *)
CommitSession(u) ==
    /\ sessions' = [sessions EXCEPT ![u] = Closed(@, "committed")]
    /\ commits' = IF sessions[u].state = "open" /\ sessions[u].any
                    THEN Append(commits, sessions[u].rows) ELSE commits

-----------------------------------------------------------------------------
Init ==
    /\ conf \in Config
    /\ pc = "start" /\ outer = ZeroCounter /\ inner = ZeroCounter
    /\ err = "none" /\ part = Idle /\ upload = 0
    /\ sessions = <<>> /\ commits = <<>> /\ orphans = {}
    /\ result = "none" /\ leaked = {} /\ masked = "no"

Return(r) ==
    /\ result' = r /\ pc' = "end" /\ part' = Idle /\ upload' = 0
    /\ err' = "none" /\ inner' = ZeroCounter /\ outer' = ZeroCounter

(* RemoteTable::add and merge_insert up to the choice of the path. *)
add ==
    /\ pc = "start"
    /\ pc' = IF ChosenPartitions > 1 THEN "create" ELSE "single"
    /\ UNCHANGED <<conf, outer, inner, err, part, upload, server, orphans,
                   result, leaked, masked>>

(***************************************************************************)
(* add_single_partition and merge_insert: one streamed request, sent once. *)
(* An error of the input stream goes out by the side channel and is the    *)
(* one reported; the server sees a broken body and commits nothing.        *)
(***************************************************************************)
SingleAnswer(a) ==
    /\ pc = "single"
    /\ IF conf.bad # 0
         THEN /\ a = "ok"
              /\ err' = "input" /\ pc' = "retry"
              /\ UNCHANGED <<commits, result, part, upload, inner, outer>>
         ELSE /\ commits' = IF Applied(a) THEN Append(commits, Whole) ELSE commits
              /\ IF a = "ok" THEN Return("ok")
                 ELSE /\ err' = SentError(a) /\ pc' = "retry"
                      /\ UNCHANGED <<result, part, upload, inner, outer>>
    /\ UNCHANGED <<conf, sessions, orphans, leaked, masked>>

(***************************************************************************)
(* create_multipart_write, through send_with_retry.  Its errors leave      *)
(* add_multipart at once: no session is known, nothing is aborted.  A      *)
(* session whose id is lost with the answer never gets a part and is left  *)
(* out.                                                                    *)
(***************************************************************************)
create_multipart_write(a) ==
    /\ pc = "create"
    /\ sessions' = IF a = "ok"
                     THEN Append(sessions, [state |-> "open", any |-> FALSE,
                                            rows |-> [i \in 1 .. conf.len |-> 0]])
                     ELSE sessions
    /\ \/ /\ a = "ok"
          /\ upload' = Len(sessions') /\ pc' = "parts" /\ inner' = ZeroCounter
          /\ part' = [p \in Partition |->
                        [pc |-> "next", body |-> <<>>,
                         left |-> SelectSeq(Input,
                                    LAMBDA i : (i - 1) % NumPartitions = p - 1)]]
          /\ UNCHANGED <<outer, err, result>>
       \/ /\ RetriedHere(a) /\ ~check_out_of_retries(send_with_retry(inner, a))
          /\ inner' = send_with_retry(inner, a)
          /\ UNCHANGED <<pc, outer, err, part, upload, result>>
       \/ /\ RetriedHere(a) => check_out_of_retries(send_with_retry(inner, a))
          /\ a # "ok"
          /\ Return("error")
    /\ UNCHANGED <<conf, commits, orphans, leaked, masked>>

(***************************************************************************)
(* One part of one partition (send_multipart_chunked, send_one_part).  A   *)
(* part starts from a batch in hand and is cut after MaxBytes batches, or  *)
(* earlier when it has been uploading for max_request_duration; without a  *)
(* byte budget a partition is one request, empty or not.  A rejected batch *)
(* breaks the body off.                                                    *)
(***************************************************************************)
Body(p, k) == SubSeq(part[p].left, 1, k)
Cuts(p) ==
    IF conf.split
      THEN {k \in 1 .. MaxBytes : k <= Len(part[p].left)}
      ELSE {Len(part[p].left)}

send_one_part(p, k) ==
    /\ pc = "parts" /\ part[p].pc = "next" /\ k \in Cuts(p)
    /\ part' = [part EXCEPT ![p] =
         IF conf.bad \in {part[p].left[i] : i \in 1 .. k}
           THEN [@ EXCEPT !.pc = "input"]
           ELSE [@ EXCEPT !.pc = "sending", !.body = Body(p, k)]]
    /\ UNCHANGED <<conf, pc, outer, inner, err, upload, server, orphans,
                   result, leaked, masked>>

(* An empty partition with a byte budget stages nothing. *)
EndOfInput(p) ==
    /\ pc = "parts" /\ part[p].pc = "next" /\ conf.split
    /\ part[p].left = <<>>
    /\ part' = [part EXCEPT ![p].pc = "ended"]
    /\ UNCHANGED <<conf, pc, outer, inner, err, upload, server, orphans,
                   result, leaked, masked>>

AfterPartNoLookahead(p, a) ==
    [pc |-> CASE a # "ok" -> SentError(a) [] conf.split -> "next"
              [] OTHER -> "ended",
     body |-> <<>>,
     left |-> SubSeq(part[p].left, Len(part[p].body) + 2, Len(part[p].left))]
(* The producer's result, then the request's: either error ends the task. *)
AfterPart(p, a) ==
    [pc |-> CASE a # "ok" -> SentError(a) [] conf.split -> "next"
              [] OTHER -> "ended",
     body |-> <<>>,
     left |-> SubSeq(part[p].left, Len(part[p].body) + 1, Len(part[p].left))]

send_part_request(p, a) ==
    /\ pc = "parts" /\ part[p].pc = "sending"
    /\ IF Applied(a) THEN Stage(upload, part[p].body) ELSE UNCHANGED sessions
    /\ part' = [part EXCEPT ![p] = AfterPart(p, a)]
    /\ UNCHANGED <<conf, pc, outer, inner, err, upload, commits, orphans,
                   result, leaked, masked>>

(***************************************************************************)
(* execute_multipart_inserts joins the tasks.  The first error it meets    *)
(* drops the JoinSet, which aborts the others; a request of theirs that is *)
(* already on its way may still reach the server.                          *)
(***************************************************************************)
AbortRetriedOnly(e) == IF is_retryable_write_error(e) THEN "abort" ELSE "retry"
(* add_multipart aborts the session after any error of the attempt. *)
AfterError(e) == "abort"

PartErrors == {"input", "read", "connect", "status", "refused"}
InFlight == {[upload |-> upload, body |-> part[p].body] :
               p \in {q \in Partition : part[q].pc = "sending"}}

execute_multipart_inserts ==
    /\ pc = "parts"
    /\ \/ /\ \A p \in Partition : part[p].pc = "ended"
          /\ pc' = "complete" /\ part' = Idle
          /\ UNCHANGED <<err, orphans>>
       \/ \E p \in Partition :
            /\ part[p].pc \in PartErrors
            /\ err' = part[p].pc /\ pc' = AfterError(err') /\ part' = Idle
            /\ orphans' = orphans \cup InFlight
    /\ UNCHANGED <<conf, outer, inner, upload, server, result, leaked, masked>>

OrphanLands ==
    /\ \E o \in orphans :
         /\ Stage(o.upload, o.body)
         /\ orphans' = orphans \ {o}
    /\ UNCHANGED <<conf, pc, outer, inner, err, part, upload, commits, result,
                   leaked, masked>>

(***************************************************************************)
(* complete_multipart_write, through send_with_retry: the same request is  *)
(* sent again after a timeout, a lost answer or a retryable status.        *)
(***************************************************************************)
complete_multipart_write(a) ==
    /\ pc = "complete"
    /\ IF Applied(a) THEN CommitSession(upload) ELSE UNCHANGED server
    /\ \/ /\ a = "ok"
          /\ Return("ok")
          /\ UNCHANGED masked
       \/ /\ RetriedHere(a) /\ ~check_out_of_retries(send_with_retry(inner, a))
          /\ inner' = send_with_retry(inner, a)
          /\ masked' = IF a = "lost" /\ masked = "no" THEN "lost" ELSE masked
          /\ UNCHANGED <<pc, outer, err, part, upload, result>>
       \/ /\ RetriedHere(a) /\ check_out_of_retries(send_with_retry(inner, a))
          /\ err' = RetryError(a) /\ pc' = AfterError(err') /\ inner' = ZeroCounter
          /\ masked' = IF a = "status" /\ masked = "lost" THEN "masked" ELSE masked
          /\ UNCHANGED <<outer, part, upload, result>>
       \/ /\ a \in {"garbled", "refused"}
          /\ err' = SentError(a) /\ pc' = AfterError(err') /\ inner' = ZeroCounter
          /\ UNCHANGED <<outer, part, upload, result, masked>>
    /\ UNCHANGED <<conf, orphans, leaked>>

(***************************************************************************)
(* abort_multipart_write: whether it got through is logged and ignored.    *)
(***************************************************************************)
abort_multipart_write ==
    /\ pc = "abort"
    /\ pc' = "retry" /\ upload' = 0
    /\ \/ /\ sessions' = [sessions EXCEPT ![upload] = Closed(@, "aborted")]
          /\ orphans' = {o \in orphans : o.upload # upload}
          /\ UNCHANGED leaked
       \/ /\ leaked' = leaked \cup {upload}
          /\ UNCHANGED <<sessions, orphans>>
    /\ UNCHANGED <<conf, outer, inner, err, part, commits, result, masked>>

(***************************************************************************)
(* The outer loop of add_single_partition, add_multipart and merge_insert. *)
(***************************************************************************)
RetryOrFail ==
    LET again == conf.rescannable /\ is_retryable_write_error(err)
        next == increment_from_error(outer, err)
    IN /\ pc = "retry"
       /\ IF again /\ ~check_out_of_retries(next)
            THEN /\ outer' = next /\ err' = "none"
                 /\ pc' = IF ChosenPartitions > 1 THEN "create" ELSE "single"
                 /\ UNCHANGED <<part, upload, inner, result>>
            ELSE Return("error")
       /\ UNCHANGED <<conf, server, orphans, leaked, masked>>

(* The caller drops the future: no abort is sent, and no request can       *)
(* complete the session any more, whatever still lands in it.              *)
Dropped ==
    /\ pc \notin {"start", "end"}
    /\ Return("dropped")
    /\ orphans' = {}
    /\ UNCHANGED <<conf, server, leaked, masked>>

Step ==
    \/ add
    \/ \E a \in Answers : \/ SingleAnswer(a)
                          \/ create_multipart_write(a)
                          \/ complete_multipart_write(a)
    \/ \E p \in Partition :
         \/ \E k \in 0 .. conf.len : send_one_part(p, k)
         \/ EndOfInput(p)
         \/ \E a \in Answers : send_part_request(p, a)
    \/ execute_multipart_inserts
    \/ abort_multipart_write
    \/ RetryOrFail

Next == Step \/ OrphanLands \/ Dropped
Spec == Init /\ [][Next]_vars /\ WF_vars(Step)
-----------------------------------------------------------------------------
(* Every variable has its type. *)
TypeOK ==
    /\ conf \in Config /\ outer \in Counter /\ inner \in Counter
    /\ pc \in {"start", "single", "create", "parts", "complete", "abort",
               "retry", "end"}
    /\ result \in {"none", "ok", "error", "dropped"}
    /\ upload \in 0 .. Len(sessions)
    /\ \A i \in DOMAIN sessions :
         sessions[i].state \in {"open", "committed", "aborted"}
    /\ leaked \subseteq DOMAIN sessions
    /\ masked \in {"no", "lost", "masked"}

(* A write is all or nothing: whatever parts were cut, retried, cancelled  *)
(* or landed late, a commit holds every batch of the input exactly once    *)
(* (insert.rs send_one_part, table.rs add_multipart).                      *)
CommitsWhole == \A i \in DOMAIN commits : commits[i] = Whole

(* A call that returns Ok committed its input, an empty one included: an   *)
(* overwrite by nothing is not silently dropped (table.rs add).            *)
OkMeansCommitted == result = "ok" => commits # <<>>

(* A call commits its input at most once, unless the one case below: a     *)
(* complete was applied, its answer lost, and the repeated request then    *)
(* ran out of retries on a retryable status, which hides the lost answer   *)
(* from is_retryable_write_error.                                          *)
OnceUnlessMasked == Len(commits) > 1 => masked = "masked"

(* What the comment in is_retryable_write_error is there for: a write the  *)
(* server may have committed is not sent again, so no call commits twice.  *)
CommittedOnce == Len(commits) <= 1

(* Once the call has returned (and was not dropped), a session it was told *)
(* of is completed or aborted, unless the abort did not get through.       *)
SessionsClosed ==
    result \in {"ok", "error"} =>
        \A i \in DOMAIN sessions :
            sessions[i].state = "open" => i \in leaked
=============================================================================
