--------------------------- MODULE OAuthTokensProofs ---------------------------
(***************************************************************************)
(* What OAuthTokens promises for every number of processes, tasks, tokens  *)
(* and operations: the rotation of refresh tokens is serialized, a session *)
(* that has left the cache file stays gone, and one grant serves all tasks *)
(* that find the token expired.                                            *)
(***************************************************************************)
EXTENDS OAuthTokens, TLAPS

-----------------------------------------------------------------------------
(* Facts about the invariant                                               *)

TaskRecord == [pc : PCs, op : {"none", "get", "login"}, token : 0 .. MaxToken, answer : Answer]
StateRecord == [access : BOOLEAN, refresh : 0 .. MaxToken, expires_at : Nat]

\* The invariant taken apart and put together: the steps below expand only the
\* conjunct they are about.
LEMMA Parts ==
  ASSUME TokenInv
  PROVE  /\ TypeOK /\ state \in [Process -> StateRecord]
         /\ \A t \in Task : TaskInv(t)
         /\ Pending /\ Separated /\ Spent /\ Issued /\ Families
         /\ RotationSerialized /\ OneGrantPerExpiry
  BY Zenon DEF TokenInv, StateRecord

LEMMA Whole ==
  ASSUME TypeOK', (state \in [Process -> StateRecord])', (\A t \in Task : TaskInv(t))',
         Pending', Separated', Spent', Issued', Families',
         RotationSerialized', OneGrantPerExpiry'
  PROVE  TokenInv'
  BY Zenon DEF TokenInv, StateRecord

\* What the steps below use of the types.
LEMMA Types ==
  ASSUME TokenInv
  PROVE  /\ conf \in [Process -> {"cache", "memory", "machine"}]
         /\ state \in [Process -> StateRecord]
         /\ \A p \in Process : state[p].expires_at \in Expiry
         /\ writeLock \in [Process -> Task \cup {NoTask}]
         /\ fileLock \in Task \cup {NoTask}
         /\ task \in [Task -> TaskRecord] /\ ProcessOf \in [Task -> Process]
         /\ \A t \in Task : /\ task[t] \in TaskRecord /\ task[t].token \in Nat
                            /\ task[t].answer \in Answer /\ task[t].answer.refresh \in Nat
         /\ \A p \in Process : state[p].refresh \in Nat /\ state[p] \in StateRecord
         /\ \A d \in detached : d.token \in Nat
         /\ record \in Nat /\ minted \in Nat /\ MaxToken \in Nat
         /\ NoTask \notin Task
  <1>1. /\ conf \in [Process -> {"cache", "memory", "machine"}]
        /\ ProcessOf \in [Task -> Process] /\ MaxToken \in Nat /\ NoTask \notin Task
    BY TokenAssumption, Parts, SMTT(30) DEF TypeOK, NoTask
  <1>2. /\ state \in [Process -> StateRecord] /\ task \in [Task -> TaskRecord]
        /\ writeLock \in [Process -> Task \cup {NoTask}]
        /\ fileLock \in Task \cup {NoTask}
        /\ \A p \in Process : state[p].expires_at \in Expiry
    BY Parts, SMTT(30) DEF TypeOK, StateRecord, TaskRecord, Expiry
  <1>3. \A t \in Task : /\ task[t] \in TaskRecord /\ task[t].token \in Nat
                        /\ task[t].answer \in Answer /\ task[t].answer.refresh \in Nat
    <2> TAKE t \in Task
    <2>1. task[t] \in TaskRecord
      BY <1>2, Zenon
    <2>2. task[t].token \in Nat /\ task[t].answer \in Answer
      BY <1>1, <2>1, SMTT(30) DEF TaskRecord
    <2>3. task[t].answer.refresh \in Nat
      BY <1>1, <2>2, SMTT(30) DEF Answer
    <2> QED BY <2>1, <2>2, <2>3, Zenon
  <1>4. \A p \in Process : state[p].refresh \in Nat /\ state[p] \in StateRecord
    <2> SUFFICES ASSUME NEW p \in Process PROVE state[p].refresh \in Nat /\ state[p] \in StateRecord
      BY Zenon
    <2>1. state[p] \in StateRecord
      BY <1>2, Zenon
    <2> QED BY <1>1, <2>1, SMTT(30) DEF StateRecord
  <1>5. /\ \A d \in detached : d.token \in Nat
        /\ record \in Nat /\ minted \in Nat
    BY <1>1, Parts, SMTT(30) DEF TypeOK
  <1> QED BY <1>1, <1>2, <1>3, <1>4, <1>5, Zenon

\* The ranges of the counters and of the provider's sets.
LEMMA Bounds ==
  ASSUME TokenInv
  PROVE  /\ conf \in Config /\ now \in 0 .. MaxClock /\ ops \in 0 .. MaxOps
         /\ record \in 0 .. MaxToken /\ minted \in 0 .. MaxToken
         /\ family \in [Token -> 0 .. MaxToken] /\ redeemed \subseteq 1 .. minted
         /\ lost \subseteq redeemed /\ gone \subseteq Token /\ 0 \notin redeemed
         /\ fileLock \in Task \cup {NoTask}
         /\ detached \subseteq [process : Process, token : 0 .. MaxToken]
  <1>1. redeemed \subseteq 1 .. minted
    BY Parts, Zenon DEF TypeOK
  <1>2. 0 \notin redeemed
    BY <1>1, SMTT(30)
  <1> QED BY <1>1, <1>2, Parts, Zenon DEF TypeOK

\* The types after a step that takes no time.
LEMMA TypesAgain ==
  ASSUME TokenInv, conf' = conf, now' = now, ops' \in 0 .. MaxOps,
         \A p \in Process : /\ state'[p].access \in BOOLEAN /\ state'[p].refresh \in 0 .. MaxToken
                            /\ state'[p].expires_at \in Expiry,
         writeLock' \in [Process -> Task \cup {NoTask}], fileLock' \in Task \cup {NoTask},
         record' \in 0 .. MaxToken, task' \in [Task -> TaskRecord],
         detached' \subseteq [process : Process, token : 0 .. MaxToken],
         minted' \in 0 .. MaxToken, family' \in [Token -> 0 .. MaxToken],
         redeemed' \subseteq 1 .. minted', lost' \subseteq redeemed', gone' \subseteq Token
  PROVE  TypeOK'
  <1>1. Expiry = Expiry'
    BY SMTT(30) DEF Expiry
  <1> QED BY <1>1, Bounds, Zenon DEF TypeOK, TaskRecord

\* The states of the processes and the tasks satisfy their part of the types.
LEMMA OldTypes ==
  ASSUME TokenInv
  PROVE  \A p \in Process : /\ state[p].access \in BOOLEAN /\ state[p].refresh \in 0 .. MaxToken
                            /\ state[p].expires_at \in Expiry
  BY Parts, Zenon DEF TypeOK

\* Two tasks that refresh from one place are one task: the lock file or the
\* write lock of their process keeps them apart.
LEMMA Exclusive ==
  ASSUME TokenInv, NEW t \in Task, NEW u \in Task,
         SameStore(ProcessOf[t], ProcessOf[u]),
         task[t].pc \in {"refresh", "answer", "store"}, task[u].pc \in {"refresh", "answer", "store"}
  PROVE  t = u
  <1>1. TaskInv(t) /\ TaskInv(u) /\ task[t] \in TaskRecord /\ task[u] \in TaskRecord
    BY Types, Parts, Zenon
  <1>2. CASE Cached(ProcessOf[t]) /\ Cached(ProcessOf[u])
    BY <1>1, <1>2, Zenon DEF TaskInv, FileGuarded
  <1>3. CASE ~(Cached(ProcessOf[t]) /\ Cached(ProcessOf[u]))
    <2>1. ProcessOf[t] = ProcessOf[u] /\ ~Cached(ProcessOf[t])
      BY <1>3, Zenon DEF SameStore
    <2>2. task[t].op = "get" /\ task[u].op = "get"
      BY <1>1, <2>1, Zenon DEF TaskInv, TaskRecord
    <2> QED BY <1>1, <2>1, <2>2, Zenon DEF TaskInv
  <1> QED BY <1>2, <1>3, Zenon

\* The idle state of a task, and the state of a new process.
LEMMA Rest ==
  /\ Idle \in TaskRecord /\ Idle.pc = "idle" /\ Idle.op = "none" /\ Idle.token = 0
  /\ Idle.answer = NoAnswer /\ NoAnswer.refresh = 0 /\ NoAnswer.kind = "none"
  /\ Idle.answer.refresh = 0 /\ Idle.answer.kind = "none"
  /\ NewState \in StateRecord /\ NewState.refresh = 0
  /\ NewState.expires_at = 0 /\ NewState.access = FALSE
  <1>1. 0 \in 0 .. MaxToken
    BY TokenAssumption, SMTT(30)
  <1>2. NoAnswer \in Answer
    BY <1>1, Zenon DEF NoAnswer, Answer
  <1> QED BY <1>1, <1>2, Zenon DEF Idle, NoAnswer, NewState, TaskRecord, StateRecord, PCs

-----------------------------------------------------------------------------
(* Tasks that end                                                          *)

\* An idle task satisfies every condition on tasks.
LEMMA IdleTaskInv ==
  ASSUME NEW t \in Task, task'[t] = Idle
  PROVE  TaskInv(t)'
  BY Rest, Zenon DEF TaskInv, FileGuarded

\* The tasks ts end, and at most the write e goes on without its caller.
Ends(ts, e) ==
    /\ Released(ts)
    /\ Ended(ts)
    /\ UNCHANGED <<conf, now, record, minted, family, redeemed, gone>>
    /\ ops' \in 0 .. MaxOps
    /\ lost' = lost \cup Unstored(ts)
    /\ state' \in [Process -> StateRecord]
    /\ \A p \in Process : state'[p] = state[p] \/ state'[p] = NewState
    /\ detached' \subseteq detached \cup {e}
    /\ e \in detached' \ detached =>
         /\ e \in [process : Process, token : 0 .. MaxToken]
         /\ e.token # 0 => \E t \in ts : /\ Cached(ProcessOf[t]) /\ task[t].pc = "store"
                                         /\ e.token = task[t].answer.refresh

\* Some tasks end, with an error, because they are dropped or because their process
\* crashes: the guards go, what they redeemed and did not store is lost, and at
\* most one write goes on without its caller.
LEMMA EndStep ==
  ASSUME TokenInv, NEW ts \in SUBSET Task, NEW e, Ends(ts, e)
  PROVE  TokenInv'
  <1>1. /\ \A t \in ts : task'[t] = Idle
        /\ \A t \in Task \ ts : task'[t] = task[t]
        /\ task' \in [Task -> TaskRecord]
    BY Types, Rest, Zenon DEF Ended, Ends
  <1>2. \A t \in Task : /\ task'[t].token \in {0, task[t].token}
                        /\ task'[t].answer.refresh \in {0, task[t].answer.refresh}
                        /\ task'[t].pc # "idle" => t \notin ts
    BY <1>1, Rest, Zenon
  <1>3. \A p \in Process : /\ Cached(p)' <=> Cached(p)
                           /\ state'[p].refresh \in {0, state[p].refresh}
    BY Rest, Zenon DEF Cached, Ends
  <1>4. \A p \in Process : Held(p)' \in {0, Held(p)}
    BY <1>3, Zenon DEF Held, Ends
  <1>5. \A p, q \in Process : SameStore(p, q)' <=> SameStore(p, q)
    BY <1>3, Zenon DEF SameStore
  <1>6. TypeOK'
    <2>1. lost' \subseteq redeemed'
      <3>1. Unstored(ts) \subseteq redeemed
        BY Zenon DEF Unstored
      <3>2. lost \subseteq redeemed
        BY Bounds, Zenon
      <3> QED BY <3>1, <3>2, Zenon DEF Ends
    <2>2. \A p \in Process : /\ state'[p].access \in BOOLEAN /\ state'[p].refresh \in 0 .. MaxToken
                             /\ state'[p].expires_at \in Expiry
      <3> TAKE p \in Process
      <3>1. state'[p] \in StateRecord
        BY Zenon DEF Ends
      <3>2. state'[p].expires_at \in Expiry
        BY Types, Rest, SMTT(30) DEF Expiry, Ends
      <3> QED BY <3>1, <3>2, Zenon DEF StateRecord
    <2>3. writeLock' \in [Process -> Task \cup {NoTask}] /\ fileLock' \in Task \cup {NoTask}
      BY Types, Zenon DEF Released, Ends
    <2>4. detached' \subseteq [process : Process, token : 0 .. MaxToken]
      BY Bounds, Zenon DEF Ends
    <2> QED BY <1>1, <2>1, <2>2, <2>3, <2>4, Bounds, TypesAgain, Zenon DEF Ends
  <1>7. \A t \in Task : TaskInv(t)'
    <2> TAKE t \in Task
    <2>1. CASE t \in ts
      BY <1>1, <2>1, IdleTaskInv, Zenon
    <2>2. CASE t \notin ts
      <3>1. task'[t] = task[t] /\ TaskInv(t) /\ ProcessOf[t] \in Process
        BY <1>1, <2>2, Types, Parts, Zenon
      <3>2. /\ writeLock[ProcessOf[t]] = t => writeLock'[ProcessOf[t]] = t
            /\ fileLock = t => fileLock' = t
        BY <2>2, <3>1, Zenon DEF Released, Ends
      <3>3. Cached(ProcessOf[t])' <=> Cached(ProcessOf[t])
        BY Zenon DEF Cached, Ends
      <3> QED BY <3>1, <3>2, <3>3, SMTT(30) DEF TaskInv, Ends
    <2> QED BY <2>1, <2>2, Zenon
  <1>8. \A k : k # 0 /\ Unseen(k) => Unseen(k)'
    BY <1>2, <1>3, Zenon DEF Unseen, Ends
  <1>9. Pending'
    <2>1. /\ \A t \in Task : task[t].answer.refresh # 0 => Unseen(task[t].answer.refresh)
          /\ \A d \in detached : d.token # 0 => Unseen(d.token)
          /\ \A t, u \in Task : t # u /\ task[t].answer.refresh # 0
                                  => task[t].answer.refresh # task[u].answer.refresh
          /\ \A t \in Task, d \in detached : d.token # 0 => task[t].answer.refresh # d.token
          /\ \A d, f \in detached : d # f /\ d.token # 0 => d.token # f.token
      BY Parts, Zenon DEF Pending
    <2>2. \A d \in detached' : d \in detached \/ d = e
      BY Zenon DEF Ends
    <2>3. \A t \in ts : task'[t].answer.refresh = 0
      BY <1>1, Rest, Zenon
    <2>4. CASE e \in detached' \ detached /\ e.token # 0
      <3>1. PICK t \in ts : e.token = task[t].answer.refresh
        BY <2>4, Zenon DEF Ends
      <3>2. Unseen(e.token)' /\ \A d \in detached : d.token # e.token
        BY <1>8, <2>1, <2>4, <3>1, Zenon
      <3>3. \A u \in Task : task'[u].answer.refresh # e.token
        BY <1>2, <2>1, <2>3, <2>4, <3>1, SMTT(30)
      <3> QED BY <1>2, <1>8, <2>1, <2>2, <3>2, <3>3, SMTT(30) DEF Pending
    <2>5. CASE ~(e \in detached' \ detached /\ e.token # 0)
      <3>1. \A d \in detached' : d.token # 0 => d \in detached
        BY <2>2, <2>5, Zenon
      <3> QED BY <1>2, <1>8, <2>1, <3>1, SMTT(30) DEF Pending
    <2> QED BY <2>4, <2>5, Zenon
  <1>10. Separated'
    <2>1. \A t \in Task : ProcessOf[t] \in Process
      BY Types, Zenon
    <2>2. /\ \A p, q \in Process : Held(p) # 0 /\ Held(p) = Held(q) => SameStore(p, q)
          /\ \A t \in Task, p \in Process :
                task[t].token # 0 /\ task[t].token = Held(p) => SameStore(ProcessOf[t], p)
          /\ \A t, u \in Task : task[t].token # 0 /\ task[t].token = task[u].token
                                   => SameStore(ProcessOf[t], ProcessOf[u])
      BY Parts, Zenon DEF Separated
    <2>3. \A p, q \in Process : Held(p)' # 0 /\ Held(p)' = Held(q)' => SameStore(p, q)'
      BY <1>4, <1>5, <2>2, SMTT(30)
    <2>4. \A t \in Task, p \in Process : task'[t].token # 0 /\ task'[t].token = Held(p)'
             => SameStore(ProcessOf[t], p)'
      BY <1>2, <1>4, <1>5, <2>1, <2>2, SMTT(30)
    <2>5. \A t, u \in Task : task'[t].token # 0 /\ task'[t].token = task'[u].token
             => SameStore(ProcessOf[t], ProcessOf[u])'
      BY <1>2, <1>5, <2>1, <2>2, SMTT(30)
    <2> QED BY <2>3, <2>4, <2>5, Zenon DEF Separated
  <1>11. Spent'
    <2> SUFFICES ASSUME NEW p \in Process, Held(p)' \in redeemed' \ lost'
                 PROVE  \E t \in Task : /\ SameStore(ProcessOf[t], p)' /\ task'[t].pc \in {"answer", "store"}
                                        /\ task'[t].token = Held(p)' /\ task'[t].answer.refresh # 0
      BY Zenon DEF Spent
    <2>1. 0 \notin redeemed
      BY Bounds, Zenon
    <2>2. Held(p)' = Held(p) /\ Held(p) \in redeemed \ lost
      BY <1>4, <2>1, Zenon DEF Ends
    <2>3. PICK t \in Task : /\ SameStore(ProcessOf[t], p) /\ task[t].pc \in {"answer", "store"}
                            /\ task[t].token = Held(p) /\ task[t].answer.refresh # 0
      BY <2>2, Parts, Zenon DEF Spent
    <2>4. t \notin ts
      BY <2>2, <2>3, SMTT(30) DEF Unstored, Ends
    <2>5. task'[t] = task[t] /\ SameStore(ProcessOf[t], p)'
      BY <1>1, <1>5, <2>3, <2>4, Types, Zenon
    <2> QED BY <2>2, <2>3, <2>5, Zenon
  <1>12. Issued'
    <2>1. /\ \A p \in Process : state[p].refresh <= minted
          /\ \A t \in Task : task[t].token <= minted /\ task[t].answer.refresh <= minted
          /\ \A d \in detached : d.token <= minted
          /\ 0 <= minted
      BY Types, Parts, SMTT(30) DEF Issued
    <2>2. \A d \in detached' : d.token <= minted
      BY <2>1, Zenon DEF Ends
    <2>3. /\ \A p \in Process : state'[p].refresh <= minted
          /\ \A t \in Task : task'[t].token <= minted /\ task'[t].answer.refresh <= minted
      BY <1>2, <1>3, <2>1, Zenon
    <2> QED BY <2>2, <2>3, Parts, Zenon DEF Issued, Ends
  <1>13. Families'
    <2>1. SessionStaysGone'
      BY Parts, Zenon DEF Families, SessionStaysGone, Ends
    <2>2. ASSUME NEW d \in detached', d.token # 0 PROVE family[d.token] \notin gone
      <3>1. CASE d \in detached
        BY <2>2, <3>1, Parts, Zenon DEF Families
      <3>2. CASE d \notin detached
        <4>1. PICK t \in ts : /\ Cached(ProcessOf[t]) /\ task[t].pc = "store"
                              /\ d.token = task[t].answer.refresh
          BY <2>2, <3>2, Zenon DEF Ends
        <4>2. t \in Task
          BY Zenon
        <4> QED BY <2>2, <4>1, <4>2, Parts, Zenon DEF Families
      <3> QED BY <3>1, <3>2, Zenon
    <2>3. \A t \in Task : task'[t].pc # "idle" => task'[t] = task[t]
      BY <1>1, Rest, Zenon
    <2>4. \A t \in Task : Cached(ProcessOf[t])' <=> Cached(ProcessOf[t])
      BY <1>3, Types, Zenon
    <2> QED BY <2>1, <2>2, <2>3, <2>4, Parts, SMTT(30) DEF Families, Ends
  <1>14. RotationSerialized'
    <2>1. \A t \in Task : task'[t].pc # "idle" => task'[t] = task[t]
      BY <1>1, Rest, Zenon
    <2> QED BY <2>1, Parts, Zenon DEF RotationSerialized, At, Ends
  <1>15. OneGrantPerExpiry'
    <2> SUFFICES ASSUME NEW t \in Task, task'[t].op = "get", task'[t].pc \notin {"idle", "write_lock"}
                 PROVE  is_expired(ProcessOf[t])'
      BY Zenon DEF OneGrantPerExpiry
    <2>1. task'[t] = task[t] /\ ProcessOf[t] \in Process
      BY <1>1, Rest, Types, Zenon
    <2>2. is_expired(ProcessOf[t])
      BY <2>1, Parts, Zenon DEF OneGrantPerExpiry
    <2>3. CASE state'[ProcessOf[t]] = state[ProcessOf[t]]
      BY <2>2, <2>3, Zenon DEF is_expired, Ends
    <2>4. CASE state'[ProcessOf[t]] = NewState
      BY <2>4, Rest, Zenon DEF is_expired
    <2> QED BY <2>1, <2>3, <2>4, Zenon DEF Ends
  <1> QED BY <1>6, <1>7, <1>9, <1>10, <1>11, <1>12, <1>13, <1>14, <1>15, Whole, Zenon DEF StateRecord, Ends

LEMMA FailStep ==
  ASSUME TokenInv, NEW t \in Task, Fail(t)
  PROVE  TokenInv'
  <1>1. /\ Released({t}) /\ Ended({t}) /\ lost' = lost \cup Unstored({t}) /\ ops' \in 0 .. MaxOps
        /\ UNCHANGED <<conf, now, state, record, detached, minted, family, redeemed, gone>>
    BY Bounds, Zenon DEF Fail, providerVars
  <1>2. state' \in [Process -> StateRecord] /\ {t} \in SUBSET Task
    BY <1>1, Types, Zenon
  <1> QED BY <1>1, <1>2, EndStep, Zenon DEF Ends

LEMMA TimeoutStep ==
  ASSUME TokenInv, NEW t \in Task, LockTimeout(t)
  PROVE  TokenInv'
  <1>1. /\ Released({t}) /\ Ended({t}) /\ ops' \in 0 .. MaxOps
        /\ task[t].pc \in {"lock", "store_lock"}
        /\ UNCHANGED <<conf, now, state, record, detached, minted, family, redeemed, lost, gone>>
    BY Bounds, Zenon DEF LockTimeout, providerVars
  <1>2. state' \in [Process -> StateRecord] /\ {t} \in SUBSET Task
    BY <1>1, Types, Zenon
  <1>3. lost' = lost \cup Unstored({t})
    BY <1>1, Zenon DEF Unstored
  <1> QED BY <1>1, <1>2, <1>3, EndStep, Zenon DEF Ends

LEMMA CancelStep ==
  ASSUME TokenInv, NEW t \in Task, Cancel(t)
  PROVE  TokenInv'
  <1> DEFINE k == IF At(t, "store") THEN task[t].answer.refresh ELSE 0
             e == [process |-> ProcessOf[t], token |-> k]
  <1>1. /\ Released({t}) /\ Ended({t}) /\ lost' = lost \cup Unstored({t}) /\ ops' \in 0 .. MaxOps
        /\ task[t].pc \in {"store", "delete"} /\ detached' = detached \cup {e}
        /\ UNCHANGED <<conf, now, state, record, minted, family, redeemed, gone>>
    BY Bounds, Zenon DEF Cancel, providerVars
  <1>2. state' \in [Process -> StateRecord] /\ {t} \in SUBSET Task
    BY <1>1, Types, Zenon
  <1>3. /\ k \in 0 .. MaxToken
        /\ k # 0 => task[t].pc = "store" /\ k = task[t].answer.refresh
    <2>1. task[t].answer.refresh \in 0 .. MaxToken /\ 0 \in 0 .. MaxToken
      BY Types, SMTT(30) DEF Answer
    <2> QED BY <2>1, Zenon DEF At
  <1> HIDE DEF k
  <1>4. e \in [process : Process, token : 0 .. MaxToken] /\ e.token = k
    BY <1>3, Types, Zenon
  <1>5. task[t].pc = "store" => Cached(ProcessOf[t])
    BY Parts, Zenon DEF TaskInv
  <1> HIDE DEF e
  <1> QED BY <1>1, <1>2, <1>3, <1>4, <1>5, EndStep, Zenon DEF Ends

LEMMA CrashStep ==
  ASSUME TokenInv, NEW p \in Process, Crash(p)
  PROVE  TokenInv'
  <1>1. PICK ts \in SUBSET Task : ts = {t \in Task : ProcessOf[t] = p}
    BY Zenon
  <1>2. /\ Released(ts) /\ Ended(ts) /\ lost' = lost \cup Unstored(ts)
        /\ detached' \subseteq detached /\ state' = [state EXCEPT ![p] = NewState]
        /\ UNCHANGED <<conf, now, record, minted, family, redeemed, gone>>
    BY <1>1, Zenon DEF Crash, providerVars
  <1>3. ops' \in 0 .. MaxOps
    BY TokenAssumption, Bounds, SMTT(30) DEF Crash
  <1>4. /\ state' \in [Process -> StateRecord]
        /\ \A q \in Process : state'[q] = state[q] \/ state'[q] = NewState
    BY <1>2, Types, Rest, Zenon
  <1> QED BY <1>2, <1>3, <1>4, EndStep, Zenon DEF Ends

-----------------------------------------------------------------------------
(* Tasks that go on                                                        *)

\* The task t goes on as v, and the locks of the others stay theirs.
Moves(t, v) ==
    /\ task' = [task EXCEPT ![t] = v]
    /\ UNCHANGED <<conf, now, record, detached, minted, family, redeemed, lost, gone>>
    /\ ops' \in 0 .. MaxOps
    /\ TaskInv(t)'
    /\ v.token \in {0, task[t].token, Held(ProcessOf[t])}
    /\ v.answer.refresh \in {0, task[t].answer.refresh}
    /\ writeLock' \in [Process -> Task \cup {NoTask}]
    /\ fileLock' \in Task \cup {NoTask}
    /\ \A u \in Task \ {t} : /\ \A p \in Process : writeLock[p] = u => writeLock'[p] = u
                             /\ fileLock = u => fileLock' = u
    /\ state' \in [Process -> StateRecord]
    /\ \A p \in Process : /\ state'[p].refresh \in {0, state[p].refresh}
                          /\ state'[p].expires_at = state[p].expires_at
                          /\ is_expired(p) => is_expired(p)'
    /\ (/\ task[t].pc \in {"answer", "store"} /\ task[t].token \in redeemed \ lost
        /\ task[t].answer.refresh # 0)
         => /\ v.pc \in {"answer", "store"} /\ v.token = task[t].token
            /\ v.answer.refresh # 0
    /\ Cached(ProcessOf[t]) /\ v.token # 0 /\ v.pc \in {"refresh", "answer", "store"}
         => \/ v.token = record /\ v.answer.refresh = 0
            \/ /\ task[t].pc \in {"refresh", "answer", "store"} /\ v.token = task[t].token
    /\ v.answer.refresh # 0 /\ v.pc \in {"store_lock", "store"} /\ v.token = 0
         => task[t].pc \in {"store_lock", "store"} /\ task[t].token = 0
    /\ v.pc = "refresh" /\ v.token \in redeemed => v.token \in lost
    /\ v.op = "get" /\ v.pc \notin {"idle", "write_lock"} => is_expired(ProcessOf[t])

\* A task goes on with the token and the answer it has, or takes over the token
\* that its refresh starts from.
LEMMA MoveStep ==
  ASSUME TokenInv, NEW t \in Task, NEW v \in TaskRecord, Moves(t, v)
  PROVE  TokenInv'
  <1>1. /\ task'[t] = v /\ \A u \in Task \ {t} : task'[u] = task[u]
        /\ task' \in [Task -> TaskRecord]
    BY Types, Zenon DEF Moves
  <1>2. \A p \in Process : /\ Cached(p)' <=> Cached(p)
                           /\ Held(p)' \in {0, Held(p)}
    BY Zenon DEF Cached, Held, Moves
  <1>3. \A p, q \in Process : SameStore(p, q)' <=> SameStore(p, q)
    BY <1>2, Zenon DEF SameStore
  <1>4. \A u \in Task : ProcessOf[u] \in Process
    BY Types, Zenon
  <1>5. TypeOK'
    <2>1. \A p \in Process : /\ state'[p].access \in BOOLEAN /\ state'[p].refresh \in 0 .. MaxToken
                             /\ state'[p].expires_at \in Expiry
      <3> TAKE p \in Process
      <3>1. state'[p] \in StateRecord
        BY Zenon DEF Moves
      <3>2. state'[p].expires_at \in Expiry
        BY Types, Zenon DEF Moves
      <3> QED BY <3>1, <3>2, Zenon DEF StateRecord
    <2> QED BY <1>1, <2>1, Bounds, TypesAgain, Zenon DEF Moves
  <1>6. ASSUME NEW u \in Task PROVE TaskInv(u)'
    <2>1. CASE u # t
      <3>1. task'[u] = task[u] /\ TaskInv(u)
        BY <1>1, <2>1, Parts, Zenon
      <3>2. /\ writeLock[ProcessOf[u]] = u => writeLock'[ProcessOf[u]] = u
            /\ fileLock = u => fileLock' = u
        BY <1>4, <2>1, Zenon DEF Moves
      <3>3. Cached(ProcessOf[u])' <=> Cached(ProcessOf[u])
        BY Zenon DEF Cached, Moves
      <3> QED BY <3>1, <3>2, <3>3, SMTT(30) DEF TaskInv, Moves
    <2> QED BY <2>1, ZenonT(40) DEF Moves
  <1>7. /\ \A u \in Task : task'[u].token \in {0, task[u].token, Held(ProcessOf[u])}
        /\ \A u \in Task : task'[u].answer.refresh \in {0, task[u].answer.refresh}
    BY <1>1, Zenon DEF Moves
  <1>8. \A u \in Task : \A k :
           k # record /\ state[ProcessOf[u]].refresh # k => Held(ProcessOf[u]) # k
    BY Zenon DEF Held
  <1>9. \A k : k # 0 /\ Unseen(k) => Unseen(k)'
    BY <1>4, <1>7, <1>8, SMTT(30) DEF Unseen, Moves
  <1>10. Pending'
    BY <1>7, <1>9, Parts, SMTT(30) DEF Pending, Moves
  <1>11. Separated'
    <2>1. /\ \A p, q \in Process : Held(p) # 0 /\ Held(p) = Held(q) => SameStore(p, q)
          /\ \A u \in Task, p \in Process :
                task[u].token # 0 /\ task[u].token = Held(p) => SameStore(ProcessOf[u], p)
          /\ \A u, w \in Task : task[u].token # 0 /\ task[u].token = task[w].token
                                   => SameStore(ProcessOf[u], ProcessOf[w])
      BY Parts, Zenon DEF Separated
    <2>2. \A p, q \in Process : SameStore(p, q) => SameStore(q, p)
      BY Zenon DEF SameStore
    <2>3. \A p, q \in Process : Held(p)' # 0 /\ Held(p)' = Held(q)' => SameStore(p, q)'
      BY <1>2, <1>3, <2>1, SMTT(30)
    <2>4. \A u \in Task, p \in Process : task'[u].token # 0 /\ task'[u].token = Held(p)'
             => SameStore(ProcessOf[u], p)'
      BY <1>2, <1>3, <1>4, <1>7, <2>1, SMTT(30)
    <2>5. \A u, w \in Task : task'[u].token # 0 /\ task'[u].token = task'[w].token
             => SameStore(ProcessOf[u], ProcessOf[w])'
      BY <1>3, <1>4, <1>7, <2>1, <2>2, SMTT(30)
    <2> QED BY <2>3, <2>4, <2>5, Zenon DEF Separated
  <1>12. Spent'
    <2> SUFFICES ASSUME NEW p \in Process, Held(p)' \in redeemed' \ lost'
                 PROVE  \E u \in Task : /\ SameStore(ProcessOf[u], p)' /\ task'[u].pc \in {"answer", "store"}
                                        /\ task'[u].token = Held(p)' /\ task'[u].answer.refresh # 0
      BY Zenon DEF Spent
    <2>1. 0 \notin redeemed
      BY Bounds, Zenon
    <2>2. Held(p)' = Held(p) /\ Held(p) \in redeemed \ lost
      BY <1>2, <2>1, ZenonT(40) DEF Moves
    <2>3. PICK u \in Task : /\ SameStore(ProcessOf[u], p) /\ task[u].pc \in {"answer", "store"}
                            /\ task[u].token = Held(p) /\ task[u].answer.refresh # 0
      BY <2>2, Parts, Zenon DEF Spent
    <2>4. SameStore(ProcessOf[u], p)'
      BY <1>3, <1>4, <2>3, Zenon
    <2>5. /\ task'[u].pc \in {"answer", "store"} /\ task'[u].token = Held(p)
          /\ task'[u].answer.refresh # 0
      BY <1>1, <2>2, <2>3, SMTT(30) DEF Moves
    <2> QED BY <2>2, <2>4, <2>5, Zenon
  <1>13. Issued'
    <2>1. /\ record <= minted /\ \A p \in Process : state[p].refresh <= minted
          /\ \A u \in Task : task[u].token <= minted /\ task[u].answer.refresh <= minted
          /\ 0 <= minted
      BY Types, Parts, SMTT(30) DEF Issued
    <2>2. Held(ProcessOf[t]) <= minted
      BY <1>4, <2>1, Zenon DEF Held
    <2>3. /\ \A p \in Process : state'[p].refresh <= minted
          /\ \A u \in Task : task'[u].token <= minted /\ task'[u].answer.refresh <= minted
      BY <1>1, <1>7, <2>1, <2>2, SMTT(30) DEF Moves
    <2> QED BY <2>3, Parts, SMTT(30) DEF Issued, Moves
  <1>14. Families'
    <2>1. /\ SessionStaysGone' /\ \A d \in detached' : d.token # 0 => family[d.token] \notin gone
      BY Parts, Zenon DEF Families, SessionStaysGone, Moves
    <2>2. \A u \in Task : Cached(ProcessOf[u])' <=> Cached(ProcessOf[u])
      BY <1>2, <1>4, Zenon
    <2>3. ASSUME NEW u \in Task, Cached(ProcessOf[u]), task'[u].token # 0,
                 task'[u].pc \in {"refresh", "answer", "store"}
          PROVE  /\ family[task'[u].token] \notin gone
                 /\ task'[u].answer.refresh # 0 =>
                      family[task'[u].answer.refresh] = family[task'[u].token]
      <3>1. CASE u = t
        BY <1>1, <2>3, <3>1, Parts, SMTT(30) DEF Families, SessionStaysGone, Moves
      <3>2. CASE u # t
        BY <1>1, <2>3, <3>2, Parts, Zenon DEF Families
      <3> QED BY <3>1, <3>2, Zenon
    <2>4. ASSUME NEW u \in Task, task'[u].answer.refresh # 0,
                 task'[u].pc \in {"store_lock", "store"}, task'[u].token = 0
          PROVE  LET k == task'[u].answer.refresh
                 IN  family[k] = k /\ k \notin gone /\ \A j \in 1 .. minted : family[j] = k => j = k
      <3>1. /\ task[u].pc \in {"store_lock", "store"} /\ task[u].token = 0
            /\ task'[u].answer.refresh = task[u].answer.refresh
        BY <1>1, <1>7, <2>4, Zenon DEF Moves
      <3> QED BY <2>4, <3>1, Parts, SMTT(30) DEF Families
    <2> QED BY <2>1, <2>2, <2>3, <2>4, SMTT(30) DEF Families, Moves
  <1>15. RotationSerialized'
    BY <1>1, Parts, Zenon DEF RotationSerialized, At, Moves
  <1>16. OneGrantPerExpiry'
    BY <1>1, <1>4, Parts, Zenon DEF OneGrantPerExpiry, Moves
  <1> QED BY <1>5, <1>6, <1>10, <1>11, <1>12, <1>13, <1>14, <1>15, <1>16, Whole, Zenon DEF StateRecord, Moves

\* What every step keeps that does not touch the locks or the state.
LEMMA Kept ==
  ASSUME TokenInv, NEW t \in Task
  PROVE  /\ writeLock' = writeLock => writeLock' \in [Process -> Task \cup {NoTask}]
         /\ fileLock' = fileLock => fileLock' \in Task \cup {NoTask}
         /\ state' = state => /\ state' \in [Process -> StateRecord]
                              /\ \A p \in Process : /\ state'[p].refresh \in {0, state[p].refresh}
                                                    /\ state'[p].expires_at = state[p].expires_at
         /\ state' = state /\ now' = now => \A p \in Process : is_expired(p) => is_expired(p)'
         /\ ops' = ops => ops' \in 0 .. MaxOps
         /\ ops < MaxOps /\ ops' = ops + 1 => ops' \in 0 .. MaxOps
         /\ TaskInv(t) /\ task[t] \in TaskRecord /\ ProcessOf[t] \in Process
  <1>1. ops \in 0 .. MaxOps /\ MaxOps \in Nat
    BY TokenAssumption, Bounds, Zenon
  <1>2. state' = state /\ now' = now => \A p \in Process : is_expired(p) => is_expired(p)'
    BY Zenon DEF is_expired
  <1> QED BY <1>1, <1>2, Types, Parts, SMTT(30)

LEMMA GetStep ==
  ASSUME TokenInv, NEW t \in Task, get_valid_token(t)
  PROVE  TokenInv'
  <1>1. /\ UNCHANGED <<conf, now, state, writeLock, record, fileLock, detached, minted, family,
                       redeemed, lost, gone>>
        /\ ops' \in 0 .. MaxOps /\ task[t].pc = "idle"
    BY Kept, Zenon DEF get_valid_token, providerVars, At
  <1>2. TaskInv(t) /\ task[t] \in TaskRecord
    BY Kept, Zenon
  <1>3. CASE is_expired(ProcessOf[t])
    <2> DEFINE v == [Idle EXCEPT !.pc = "write_lock", !.op = "get"]
    <2>1. task' = [task EXCEPT ![t] = v]
      BY <1>3, Zenon DEF get_valid_token
    <2>2. /\ v \in TaskRecord /\ v.pc = "write_lock" /\ v.op = "get" /\ v.token = 0
          /\ v.answer.refresh = 0 /\ v.answer.kind = "none"
      BY Rest, Zenon DEF TaskRecord, PCs, Idle
    <2> HIDE DEF v
    <2>3. task'[t] = v
      BY <2>1, Types, Zenon
    <2>4. TaskInv(t)'
      BY <2>2, <2>3, Zenon DEF TaskInv, FileGuarded
    <2> QED BY <1>1, <2>1, <2>2, <2>4, Kept, MoveStep, Zenon DEF Moves
  <1>4. CASE ~is_expired(ProcessOf[t])
    <2>1. task' = task
      BY <1>4, Zenon DEF get_valid_token
    <2>2. task' = [task EXCEPT ![t] = task[t]] /\ TaskInv(t)'
      BY <1>1, <1>2, <2>1, Types, Zenon DEF TaskInv, Cached
    <2> QED BY <1>1, <1>2, <2>2, Kept, MoveStep, Zenon DEF TaskInv, Moves
  <1> QED BY <1>3, <1>4, Zenon

LEMMA LoginStep ==
  ASSUME TokenInv, NEW t \in Task, login(t)
  PROVE  TokenInv'
  <1> DEFINE v == [Idle EXCEPT !.pc = "fetch", !.op = "login"]
  <1>1. /\ UNCHANGED <<conf, now, state, writeLock, record, fileLock, detached, minted, family,
                       redeemed, lost, gone>>
        /\ ops' \in 0 .. MaxOps /\ task[t].pc = "idle" /\ Cached(ProcessOf[t])
        /\ task' = [task EXCEPT ![t] = v]
    BY Kept, Zenon DEF login, providerVars, At
  <1>2. /\ v \in TaskRecord /\ v.pc = "fetch" /\ v.op = "login" /\ v.token = 0
        /\ v.answer.refresh = 0 /\ v.answer.kind = "none"
    BY Rest, Zenon DEF TaskRecord, PCs, Idle
  <1> HIDE DEF v
  <1>3. task'[t] = v /\ Cached(ProcessOf[t])'
    BY <1>1, Types, Zenon DEF Cached
  <1>4. TaskInv(t)'
    BY <1>2, <1>3, Zenon DEF TaskInv, FileGuarded
  <1>5. /\ writeLock' \in [Process -> Task \cup {NoTask}] /\ fileLock' \in Task \cup {NoTask}
        /\ state' \in [Process -> StateRecord]
    BY <1>1, Types, Zenon
  <1>6. \A p \in Process : /\ state'[p].refresh \in {0, state[p].refresh}
                            /\ state'[p].expires_at = state[p].expires_at
                            /\ is_expired(p) => is_expired(p)'
    BY <1>1, Kept, Zenon
  <1> QED BY <1>1, <1>2, <1>4, <1>5, <1>6, MoveStep, Zenon DEF Moves

\* What a refresh starts from was not redeemed, unless it is lost, when no task
\* that starts from the same place is under way.
LEMMA NotSpent ==
  ASSUME TokenInv, NEW p \in Process, Held(p) \in redeemed,
         \A u \in Task : SameStore(ProcessOf[u], p) => task[u].pc \notin {"answer", "store"}
  PROVE  Held(p) \in lost
  BY Parts, Zenon DEF Spent

LEMMA WriteLockStep ==
  ASSUME TokenInv, NEW t \in Task, WriteLock(t)
  PROVE  TokenInv'
  <1> DEFINE p == ProcessOf[t]
  <1>1. /\ UNCHANGED <<conf, now, state, record, fileLock, detached, minted, family, redeemed,
                       lost, gone>>
        /\ ops' \in 0 .. MaxOps /\ task[t].pc = "write_lock" /\ writeLock[p] = NoTask
    BY Kept, Zenon DEF WriteLock, providerVars, At
  <1>2. TaskInv(t) /\ task[t] \in TaskRecord /\ p \in Process
    BY Kept, Zenon
  <1>3. CASE Ended({t}) /\ UNCHANGED writeLock
    <2>1. task' = [task EXCEPT ![t] = Idle]
      BY <1>3, Types, Zenon DEF Ended
    <2>2. TaskInv(t)'
      BY <2>1, Types, IdleTaskInv, Zenon
    <2> QED BY <1>1, <1>3, <2>1, <2>2, Rest, Kept, MoveStep, Zenon DEF Moves
  <1>4. CASE /\ is_expired(p) /\ writeLock' = [writeLock EXCEPT ![p] = t]
             /\ task' = [task EXCEPT
                         ![t].pc = IF Cached(p) THEN "lock"
                                   ELSE IF state[p].refresh # 0 THEN "refresh" ELSE "fetch",
                         ![t].token = IF Cached(p) THEN 0 ELSE state[p].refresh]
    <2> DEFINE c == IF Cached(p) THEN "lock"
                    ELSE IF state[p].refresh # 0 THEN "refresh" ELSE "fetch"
               k == IF Cached(p) THEN 0 ELSE state[p].refresh
               v == [task[t] EXCEPT !.pc = c, !.token = k]
    <2>1. task' = [task EXCEPT ![t] = v]
      BY <1>4, Zenon
    <2>2. /\ c \in {"lock", "refresh", "fetch"} /\ k \in 0 .. MaxToken
          /\ Cached(p) => c = "lock" /\ k = 0
          /\ ~Cached(p) => c \in {"refresh", "fetch"} /\ k = Held(p)
          /\ c = "refresh" => k # 0
      BY <1>2, Types, TokenAssumption, SMTT(30) DEF StateRecord, Held
    <2> HIDE DEF c, k
    <2>3. /\ v \in TaskRecord /\ v.pc = c /\ v.op = task[t].op /\ v.token = k
          /\ v.answer = task[t].answer
      BY <1>2, <2>2, Zenon DEF TaskRecord, PCs
    <2> HIDE DEF v
    <2>4. v.answer.refresh = 0 /\ v.op = "get" /\ v.answer = task[t].answer
      BY <1>1, <1>2, <2>3, Zenon DEF TaskInv, TaskRecord
    <2>5. task'[t] = v /\ (Cached(p)' <=> Cached(p)) /\ writeLock'[p] = t
      BY <1>1, <1>2, <1>4, <2>1, Types, Zenon DEF Cached
    <2>6. TaskInv(t)'
      BY <1>1, <1>2, <2>2, <2>3, <2>4, <2>5, Zenon DEF TaskInv, FileGuarded
    <2>7. writeLock' \in [Process -> Task \cup {NoTask}]
      BY <1>2, <1>4, Types, Zenon
    <2>8. \A u \in Task \ {t}, q \in Process : writeLock[q] = u => writeLock'[q] = u
      BY <1>1, <1>2, <1>4, Types, Zenon
    <2>9. v.pc = "refresh" /\ v.token \in redeemed => v.token \in lost
      <3> SUFFICES ASSUME v.pc = "refresh", v.token \in redeemed PROVE v.token \in lost
        BY Zenon
      <3>1. ~Cached(p) /\ v.token = Held(p)
        BY <2>2, <2>3, Zenon
      <3>2. ASSUME NEW u \in Task, SameStore(ProcessOf[u], p) PROVE task[u].pc \notin {"answer", "store"}
        <4>1. ProcessOf[u] = p /\ TaskInv(u) /\ task[u] \in TaskRecord
          BY <3>1, <3>2, Types, Parts, Zenon DEF SameStore
        <4> QED BY <1>1, <3>1, <4>1, Types, Zenon DEF TaskInv, TaskRecord
      <3> QED BY <1>2, <3>1, <3>2, NotSpent, Zenon
    <2>10. ~(task[t].pc \in {"answer", "store"}) /\ v.pc \notin {"store_lock", "store"}
      BY <1>1, <2>2, <2>3, Zenon
    <2>11. Cached(p) => v.token = 0
      BY <2>2, <2>3, Zenon
    <2>12. v.token \in {0, task[t].token, Held(p)} /\ v.answer.refresh \in {0, task[t].answer.refresh}
      BY <2>2, <2>3, Zenon
    <2>13. is_expired(p)
      BY <1>4, Zenon
    <2>14. \A u \in Task \ {t} : /\ \A q \in Process : writeLock[q] = u => writeLock'[q] = u
                                 /\ fileLock = u => fileLock' = u
      BY <1>1, <2>8, Zenon
    <2>15. /\ fileLock' \in Task \cup {NoTask} /\ state' \in [Process -> StateRecord]
           /\ \A q \in Process : /\ state'[q].refresh \in {0, state[q].refresh}
                                 /\ state'[q].expires_at = state[q].expires_at
                                 /\ is_expired(q) => is_expired(q)'
      BY <1>1, Kept, Zenon
    <2> QED BY <1>1, <2>1, <2>3, <2>6, <2>7, <2>9, <2>10, <2>12, <2>14, <2>11, <2>13, <2>15, MoveStep, Zenon DEF Moves
  <1> QED BY <1>3, <1>4, Zenon DEF WriteLock

LEMMA AcquireStep ==
  ASSUME TokenInv, NEW t \in Task, acquire_lock(t)
  PROVE  TokenInv'
  <1> DEFINE p == ProcessOf[t]
             c == IF At(t, "lock") THEN "load" ELSE "store"
             v == [task[t] EXCEPT !.pc = c]
  <1>1. /\ UNCHANGED <<conf, now, state, writeLock, record, detached, minted, family, redeemed,
                       lost, gone>>
        /\ ops' \in 0 .. MaxOps /\ task[t].pc \in {"lock", "store_lock"}
        /\ fileLock = NoTask /\ fileLock' = t /\ task' = [task EXCEPT ![t] = v]
    BY Kept, Zenon DEF acquire_lock, providerVars, Goto
  <1>2. TaskInv(t) /\ task[t] \in TaskRecord /\ p \in Process
    BY Kept, Zenon
  <1>3. /\ task[t].pc = "lock" => c = "load"
        /\ task[t].pc = "store_lock" => c = "store"
    BY Zenon DEF At
  <1> HIDE DEF c
  <1>4. /\ v \in TaskRecord /\ v.pc = c /\ v.op = task[t].op /\ v.token = task[t].token
        /\ v.answer = task[t].answer
    BY <1>1, <1>2, <1>3, Zenon DEF TaskRecord, PCs
  <1> HIDE DEF v
  <1>5. task'[t] = v /\ (Cached(p)' <=> Cached(p))
    BY <1>1, Types, Zenon DEF Cached
  <1>6. TaskInv(t)'
    BY <1>1, <1>2, <1>3, <1>4, <1>5, Zenon DEF TaskInv, FileGuarded
  <1>7. \A u \in Task \ {t} : fileLock # u
    BY <1>1, Types, Zenon
  <1>8. v.token = 0 /\ (v.op = "get" => is_expired(p))
    <2>1. v.token = 0
      BY <1>1, <1>2, <1>4, Zenon DEF TaskInv
    <2>2. v.op = "get" => is_expired(p)
      BY <1>1, <1>4, Parts, Zenon DEF OneGrantPerExpiry
    <2> QED BY <2>1, <2>2, Zenon
  <1> QED BY <1>1, <1>3, <1>4, <1>6, <1>7, <1>8, Kept, MoveStep, Zenon DEF Moves

LEMMA LoadStep ==
  ASSUME TokenInv, NEW t \in Task, load(t)
  PROVE  TokenInv'
  <1> DEFINE p == ProcessOf[t]
             c == IF record # 0 THEN "refresh" ELSE "fetch"
             v == [task[t] EXCEPT !.pc = c, !.token = record]
  <1>1. /\ UNCHANGED <<conf, now, state, writeLock, record, detached, minted, family, redeemed,
                       lost, gone>>
        /\ ops' \in 0 .. MaxOps /\ task[t].pc = "load"
    BY Kept, Zenon DEF load, providerVars, At
  <1>2. /\ TaskInv(t) /\ task[t] \in TaskRecord /\ p \in Process
        /\ Cached(p) /\ fileLock = t /\ task[t].token = 0 /\ task[t].answer.refresh = 0
        /\ task[t].op = "get"
    <2>1. TaskInv(t) /\ task[t] \in TaskRecord /\ p \in Process
      BY Kept, Zenon
    <2>2. Cached(p) /\ fileLock = t /\ task[t].token = 0
      BY <1>1, <2>1, Zenon DEF TaskInv, FileGuarded
    <2>3. task[t].answer.refresh = 0
      BY <1>1, <2>1, Zenon DEF TaskInv
    <2>4. task[t].op = "get"
      BY <1>1, <2>1, Zenon DEF TaskInv, TaskRecord
    <2> QED BY <2>1, <2>2, <2>3, <2>4, Zenon
  <1>3. /\ task' = [task EXCEPT ![t] = v]
        /\ record # 0 => fileLock' = fileLock
        /\ fileLock' \in {fileLock, NoTask}
    <2>1. CASE record # 0
      BY <2>1, Zenon DEF load
    <2>2. CASE record = 0
      <3>1. task' = [task EXCEPT ![t].pc = "fetch"] /\ fileLock' = NoTask
        BY <2>2, Zenon DEF load, Goto
      <3>2. v = [task[t] EXCEPT !.pc = "fetch"]
        BY <1>2, <2>2, Zenon DEF TaskRecord
      <3> QED BY <2>2, <3>1, <3>2, Zenon
    <2> QED BY <2>1, <2>2, Zenon
  <1>4. /\ record # 0 => c = "refresh"
        /\ record = 0 => c = "fetch"
        /\ record \in 0 .. MaxToken
    BY Bounds, Zenon
  <1> HIDE DEF c
  <1>5. /\ v \in TaskRecord /\ v.pc = c /\ v.op = task[t].op /\ v.token = record
        /\ v.answer = task[t].answer
    BY <1>2, <1>4, Zenon DEF TaskRecord, PCs
  <1> HIDE DEF v
  <1>6. task'[t] = v /\ (Cached(p)' <=> Cached(p))
    BY <1>1, <1>3, Types, Zenon DEF Cached
  <1>7. TaskInv(t)'
    BY <1>1, <1>2, <1>3, <1>4, <1>5, <1>6, Zenon DEF TaskInv, FileGuarded
  <1>8. /\ \A u \in Task \ {t} : fileLock # u
        /\ fileLock' \in Task \cup {NoTask}
    BY <1>2, <1>3, Types, Zenon
  <1>9. is_expired(p)
    BY <1>1, <1>2, Parts, Zenon DEF OneGrantPerExpiry
  <1>10. Held(p) = record
    BY <1>2, Zenon DEF Held
  <1>11. v.token \in redeemed => v.token \in lost
    <2> SUFFICES ASSUME v.token \in redeemed PROVE v.token \in lost
      BY Zenon
    <2>1. ASSUME NEW u \in Task, SameStore(ProcessOf[u], p) PROVE task[u].pc \notin {"answer", "store"}
      <3>1. Cached(ProcessOf[u]) /\ TaskInv(u)
        BY <1>2, <2>1, Parts, Zenon DEF SameStore
      <3> QED BY <1>1, <1>2, <3>1, Zenon DEF TaskInv, FileGuarded
    <2> QED BY <1>2, <1>5, <1>10, <2>1, NotSpent, Zenon
  <1> QED BY <1>1, <1>2, <1>3, <1>4, <1>5, <1>7, <1>8, <1>9, <1>10, <1>11, Kept, MoveStep, Zenon DEF Moves

-----------------------------------------------------------------------------
(* The answers of the provider                                             *)

\* A refresh was answered, and the task goes on: it stores the new token, removes
\* the rejected session, or asks for a new grant.
LEMMA AnsweredStep ==
  ASSUME TokenInv, NEW t \in Task, task[t].pc = "answer", NEW c \in {"store", "delete", "fetch"},
         Goto(t, c),
         UNCHANGED <<conf, now, record, writeLock, fileLock, detached, minted, family, redeemed,
                     ops, lost, gone>>,
         Cached(ProcessOf[t]) => c # "fetch",
         c # "fetch" => Cached(ProcessOf[t]),
         c = "store" <=> task[t].answer.refresh # 0,
         state' = state \/ state' = [state EXCEPT ![ProcessOf[t]].refresh = 0]
  PROVE  TokenInv'
  <1> DEFINE p == ProcessOf[t]
             v == [task[t] EXCEPT !.pc = c]
  <1>1. TaskInv(t) /\ task[t] \in TaskRecord /\ p \in Process
    BY Kept, Zenon
  <1>2. task' = [task EXCEPT ![t] = v]
    BY Zenon DEF Goto
  <1>3. /\ v \in TaskRecord /\ v.pc = c /\ v.op = task[t].op /\ v.token = task[t].token
        /\ v.answer = task[t].answer
    BY <1>1, Zenon DEF TaskRecord, PCs
  <1> HIDE DEF v
  <1>4. task'[t] = v /\ (Cached(p)' <=> Cached(p))
    BY <1>2, Types, Zenon DEF Cached
  <1>5. TaskInv(t)'
    BY <1>1, <1>3, <1>4, Zenon DEF TaskInv, FileGuarded
  <1>6. state' \in [Process -> StateRecord]
    <2> DEFINE w == [state[p] EXCEPT !.refresh = 0]
    <2>1. w \in StateRecord
      BY <1>1, Types, TokenAssumption, SMTT(30) DEF StateRecord
    <2>2. state' = state \/ state' = [state EXCEPT ![p] = w]
      BY Zenon
    <2> HIDE DEF w
    <2> QED BY <1>1, <2>1, <2>2, Types, Zenon
  <1>7. \A q \in Process : /\ state'[q].refresh \in {0, state[q].refresh}
                           /\ state'[q].expires_at = state[q].expires_at
    BY Types, SMTT(30) DEF StateRecord
  <1>8. \A q \in Process : state'[q].access = state[q].access
    <2> TAKE q \in Process
    <2>1. state \in [Process -> StateRecord]
      BY Types, Zenon
    <2>2. CASE state' = [state EXCEPT ![p].refresh = 0]
      <3>1. CASE q = p
        <4>1. state'[q] = [state[q] EXCEPT !.refresh = 0] /\ state[q] \in StateRecord
          BY <2>1, <2>2, <3>1, Zenon
        <4> QED BY <4>1, Zenon DEF StateRecord
      <3>2. CASE q # p
        BY <2>1, <2>2, <3>2, Zenon
      <3> QED BY <3>1, <3>2, Zenon
    <2> QED BY <2>2, Zenon
  <1>9. \A q \in Process : is_expired(q) => is_expired(q)'
    BY <1>7, <1>8, Zenon DEF is_expired
  <1>10. v.op = "get" => is_expired(p)
    BY <1>3, Parts, Zenon DEF OneGrantPerExpiry
  <1>11. ops' \in 0 .. MaxOps
    BY Kept, Zenon
  <1>12. writeLock' \in [Process -> Task \cup {NoTask}] /\ fileLock' \in Task \cup {NoTask}
    BY Types, Zenon
  <1>13. v.answer.refresh # 0 /\ v.pc \in {"store_lock", "store"} => v.token # 0
    BY <1>1, <1>3, Zenon DEF TaskInv
  <1> QED BY <1>2, <1>3, <1>5, <1>6, <1>7, <1>9, <1>10, <1>11, <1>12, <1>13, MoveStep, Zenon DEF Moves

LEMMA AnswerGoesOn ==
  ASSUME TokenInv, NEW t \in Task, RefreshAnswer(t),
         ~(task[t].answer.kind = "refreshed" /\ Return(t, task[t].answer))
  PROVE  TokenInv'
  <1> DEFINE p == ProcessOf[t]
             a == task[t].answer
  <1>1. /\ UNCHANGED <<conf, now, record, detached, minted, family, redeemed, ops, lost, gone>>
        /\ task[t].pc = "answer"
    BY Zenon DEF RefreshAnswer, providerVars, At
  <1>2. TaskInv(t) /\ p \in Process
    BY Kept, Zenon
  <1>3. CASE a.kind = "refreshed"
    <2>1. Cached(p) /\ a.refresh # 0 /\ Goto(t, "store") /\ UNCHANGED <<state, writeLock, fileLock>>
      BY <1>3, Zenon DEF RefreshAnswer
    <2> QED BY <1>1, <2>1, AnsweredStep, Zenon
  <1>4. CASE a.kind = "reauthenticate"
    <2>1. a.refresh = 0
      BY <1>2, <1>4, Zenon DEF TaskInv
    <2>2. /\ Goto(t, IF Cached(p) THEN "delete" ELSE "fetch")
          /\ state' = (IF Cached(p) THEN state ELSE [state EXCEPT ![p].refresh = 0])
          /\ UNCHANGED <<writeLock, fileLock>>
      BY <1>4, Zenon DEF RefreshAnswer
    <2>3. CASE Cached(p)
      BY <1>1, <2>1, <2>2, <2>3, AnsweredStep, Zenon
    <2>4. CASE ~Cached(p)
      BY <1>1, <2>1, <2>2, <2>4, AnsweredStep, Zenon
    <2> QED BY <2>3, <2>4, Zenon
  <1>5. CASE a.kind = "unsupported"
    <2>1. a.refresh = 0 /\ ~Cached(p)
      BY <1>2, <1>5, Zenon DEF TaskInv, Cached
    <2>2. Goto(t, "fetch") /\ UNCHANGED <<state, writeLock, fileLock>>
      BY <1>5, Zenon DEF RefreshAnswer
    <2> QED BY <1>1, <2>1, <2>2, AnsweredStep, Zenon
  <1> QED BY <1>3, <1>4, <1>5, Zenon DEF RefreshAnswer

\* No one knows the next token.
LEMMA NextToken ==
  ASSUME TokenInv
  PROVE  /\ Unseen(minted + 1) /\ minted + 1 \in Nat /\ minted + 1 # 0 /\ minted + 1 \notin gone
         /\ \A t \in Task : task[t].answer.refresh # minted + 1
         /\ \A d \in detached : d.token # minted + 1
         /\ \A j \in 1 .. minted : family[j] # minted + 1
  <1>1. /\ record <= minted /\ \A p \in Process : state[p].refresh <= minted
        /\ \A t \in Task : task[t].token <= minted /\ task[t].answer.refresh <= minted
        /\ \A d \in detached : d.token <= minted
        /\ gone \subseteq 1 .. minted /\ \A k \in 1 .. minted : family[k] \in 1 .. minted
        /\ redeemed \subseteq 1 .. minted
    BY Parts, Bounds, Zenon DEF Issued
  <1>2. minted \in Nat /\ record \in Nat
    BY Types, Zenon
  <1>3. \A k : k <= minted /\ k \in Nat => k # minted + 1
    BY <1>2, SMTT(30)
  <1>4. \A k \in 1 .. minted : k # minted + 1
    BY <1>2, SMTT(30)
  <1>5. \A t \in Task : task[t].token # minted + 1 /\ task[t].answer.refresh # minted + 1
    BY <1>1, <1>3, Types, Zenon
  <1>6. \A p \in Process : state[p].refresh # minted + 1
    BY <1>1, <1>3, Types, Zenon
  <1>7. \A d \in detached : d.token # minted + 1
    BY <1>1, <1>3, Types, Zenon
  <1>8. minted + 1 \notin gone /\ minted + 1 \notin redeemed /\ record # minted + 1
        /\ \A j \in 1 .. minted : family[j] # minted + 1
    BY <1>1, <1>2, <1>3, <1>4, Zenon
  <1> QED BY <1>2, <1>5, <1>6, <1>7, <1>8, SMTT(30) DEF Unseen

\* What the provider's books look like after a new token.
LEMMA Minted ==
  ASSUME TokenInv, minted < MaxToken, minted' = minted + 1, NEW f \in 1 .. minted + 1,
         family' = [family EXCEPT ![minted + 1] = f]
  PROVE  /\ minted' \in 0 .. MaxToken /\ family' \in [Token -> 0 .. MaxToken]
         /\ family'[minted + 1] = f
         /\ \A k \in 1 .. minted : family'[k] = family[k]
         /\ \A k \in 1 .. minted' : family'[k] \in 1 .. minted'
         /\ 1 .. minted \subseteq 1 .. minted' /\ minted + 1 \in Token
  <1>1. minted \in Nat /\ MaxToken \in Nat /\ family \in [Token -> 0 .. MaxToken]
    BY Types, Bounds, Zenon
  <1>2. \A k \in 1 .. minted : family[k] \in 1 .. minted
    BY Parts, Zenon DEF Issued
  <1>3. minted + 1 \in Token /\ \A k \in 1 .. minted : k \in Token /\ k # minted + 1
    BY <1>1, SMTT(30) DEF Token
  <1>4. /\ family'[minted + 1] = f /\ \A k \in 1 .. minted : family'[k] = family[k]
        /\ family' \in [Token -> 0 .. MaxToken]
    BY <1>1, <1>3, SMTT(30)
  <1>5. \A k \in 1 .. minted' : k \in 1 .. minted \/ k = minted + 1
    BY <1>1, SMTT(30)
  <1>6. 1 .. minted \subseteq 1 .. minted' /\ minted' \in 0 .. MaxToken
    BY <1>1, SMTT(30)
  <1> QED BY <1>2, <1>3, <1>4, <1>5, <1>6, Zenon

\* The provider answers without a new token.
LEMMA PlainReply ==
  ASSUME TokenInv, NEW t \in Task, NEW a \in Answer, NEW c \in {"answer", "store_lock"},
         task' = [task EXCEPT ![t].pc = c, ![t].answer = a],
         UNCHANGED <<conf, now, state, writeLock, record, fileLock, detached, minted, family,
                     redeemed, ops, lost, gone>>,
         task[t].pc = IF c = "answer" THEN "refresh" ELSE "fetch",
         a.refresh = 0, c = "store_lock" => Cached(ProcessOf[t]) /\ a.kind = "refreshed",
         a.kind = "refreshed" => a.life \in Lifetime,
         a.kind = "unsupported" => conf[ProcessOf[t]] = "machine"
  PROVE  TokenInv'
  <1> DEFINE p == ProcessOf[t]
             v == [task[t] EXCEPT !.pc = c, !.answer = a]
  <1>1. TaskInv(t) /\ task[t] \in TaskRecord /\ p \in Process
    BY Kept, Zenon
  <1>2. task' = [task EXCEPT ![t] = v]
    BY Zenon
  <1>3. /\ v \in TaskRecord /\ v.pc = c /\ v.op = task[t].op /\ v.token = task[t].token
        /\ v.answer = a
    BY <1>1, Zenon DEF TaskRecord, PCs
  <1> HIDE DEF v
  <1>4. task'[t] = v /\ (Cached(p)' <=> Cached(p))
    BY <1>2, Types, Zenon DEF Cached
  <1>5. TaskInv(t)'
    BY <1>1, <1>3, <1>4, SMTT(30) DEF TaskInv, FileGuarded
  <1>6. v.op = "get" => is_expired(p)
    BY <1>3, Parts, Zenon DEF OneGrantPerExpiry
  <1>7. c = "answer" => task[t].pc = "refresh"
    BY Zenon
  <1>8. task[t].pc \notin {"answer", "store"}
    BY Zenon
  <1> QED BY <1>2, <1>3, <1>5, <1>6, <1>7, <1>8, Kept, MoveStep, Zenon DEF Moves

\* The provider answers t with a and a new refresh token, and t goes on at c.
Issues(t, a, c) ==
    /\ task' = [task EXCEPT ![t].pc = c, ![t].answer = a]
    /\ UNCHANGED <<conf, now, state, writeLock, record, fileLock, detached, ops, lost, gone>>
    /\ task[t].pc = IF c = "answer" THEN "refresh" ELSE "fetch"
    /\ a.refresh = minted + 1
    /\ a.kind = "refreshed"
    /\ a.life \in Lifetime
    /\ c = "store_lock" => Cached(ProcessOf[t])
    /\ minted < MaxToken
    /\ minted' = minted + 1
    /\ family' = [family EXCEPT ![minted + 1] = IF c = "answer" THEN family[task[t].token]
                                                ELSE minted + 1]
    /\ redeemed' = IF c = "answer" THEN redeemed \cup {task[t].token} ELSE redeemed

\* The provider answers with a new token: of the family that is refreshed, whose
\* token is spent, or of a new family.
LEMMA TokenReply ==
  ASSUME TokenInv, NEW t \in Task, NEW a \in Answer, NEW c \in {"answer", "store_lock"}, Issues(t, a, c)
  PROVE  TokenInv'
  <1>0. PICK n \in Nat : n = minted + 1
    BY Types, SMTT(30)
  <1> DEFINE p == ProcessOf[t]
             tok == task[t].token
             f == IF c = "answer" THEN family[tok] ELSE n
             v == [task[t] EXCEPT !.pc = c, !.answer = a]
  <1>1. TaskInv(t) /\ task[t] \in TaskRecord /\ p \in Process
    BY Kept, Zenon
  <1>2. task' = [task EXCEPT ![t] = v]
    BY Zenon DEF Issues
  <1>3. /\ v \in TaskRecord /\ v.pc = c /\ v.op = task[t].op /\ v.token = tok
        /\ v.answer = a
    BY <1>1, Zenon DEF TaskRecord, PCs
  <1> HIDE DEF v
  <1>4. /\ task'[t] = v /\ \A u \in Task \ {t} : task'[u] = task[u]
        /\ task' \in [Task -> TaskRecord]
    BY <1>2, <1>3, Types, Zenon
  <1>5. /\ \A q \in Process : (Cached(q)' <=> Cached(q)) /\ Held(q)' = Held(q)
        /\ \A q, r \in Process : SameStore(q, r)' <=> SameStore(q, r)
        /\ \A u \in Task : ProcessOf[u] \in Process
    BY Types, Zenon DEF Cached, Held, SameStore, Issues
  <1>6. \A u \in Task : task'[u].token = task[u].token
    BY <1>3, <1>4, Zenon
  <1>7. c = "answer" => tok \in 1 .. minted /\ tok # n
    <2> SUFFICES ASSUME c = "answer" PROVE tok \in 1 .. minted /\ tok # n
      BY Zenon
    <2>1. tok # 0 /\ tok \in Nat /\ tok <= minted /\ minted \in Nat
      BY <1>1, Types, Parts, Zenon DEF TaskInv, Issued, Issues
    <2> QED BY <1>0, <2>1, SMTT(30)
  <1>8. /\ Unseen(n) /\ n \in Nat /\ n # 0 /\ n \notin gone /\ minted \in Nat
        /\ \A u \in Task : task[u].answer.refresh # n
        /\ \A d \in detached : d.token # n
        /\ \A j \in 1 .. minted : family[j] # n
    BY <1>0, NextToken, Types, Zenon
  <1>9. f \in 1 .. n
    <2>1. c = "answer" => family[tok] \in 1 .. minted
      BY <1>7, Parts, Zenon DEF Issued
    <2> QED BY <1>0, <1>8, <2>1, SMTT(30)
  <1>10. /\ minted' \in 0 .. MaxToken /\ family' \in [Token -> 0 .. MaxToken] /\ family'[n] = f
         /\ \A k \in 1 .. minted : family'[k] = family[k]
         /\ \A k \in 1 .. minted' : family'[k] \in 1 .. minted'
         /\ 1 .. minted \subseteq 1 .. minted'
    BY <1>0, <1>9, Minted, Zenon DEF Issues
  <1>11. redeemed \subseteq redeemed' /\ redeemed' \subseteq redeemed \cup {tok}
         /\ redeemed' \subseteq 1 .. minted /\ (c # "answer" => redeemed' = redeemed)
         /\ redeemed \subseteq 1 .. minted
    BY <1>7, Bounds, Zenon DEF Issues
  <1>12. TypeOK'
    BY <1>4, <1>10, <1>11, Types, OldTypes, Bounds, TypesAgain, Zenon DEF Issues
  <1>13. ASSUME NEW u \in Task PROVE TaskInv(u)'
    <2>1. CASE u = t
      BY <1>0, <1>1, <1>3, <1>4, <1>5, <1>8, <2>1, SMTT(30) DEF TaskInv, FileGuarded, Issues
    <2>2. CASE u # t
      BY <1>4, <1>5, <2>2, Parts, SMTT(30) DEF TaskInv, Issues
    <2> QED BY <2>1, <2>2, Zenon
  <1>14. ASSUME NEW k, Unseen(k) PROVE Unseen(k)'
    <2>1. k # tok
      BY <1>14, Zenon DEF Unseen
    <2> QED BY <1>6, <1>11, <1>14, <2>1, Zenon DEF Unseen, Issues
  <1>15. Pending'
    <2>1. /\ \A u \in Task : task[u].answer.refresh # 0 => Unseen(task[u].answer.refresh)
          /\ \A d \in detached : d.token # 0 => Unseen(d.token)
          /\ \A u, w \in Task : u # w /\ task[u].answer.refresh # 0
                                  => task[u].answer.refresh # task[w].answer.refresh
          /\ \A u \in Task, d \in detached : d.token # 0 => task[u].answer.refresh # d.token
          /\ \A d, e \in detached : d # e /\ d.token # 0 => d.token # e.token
      BY Parts, Zenon DEF Pending
    <2>2. task'[t].answer.refresh = n
      BY <1>0, <1>3, <1>4, Zenon DEF Issues
    <2>3. \A u \in Task \ {t} : task'[u].answer.refresh = task[u].answer.refresh
      BY <1>4, Zenon
    <2>4. /\ \A u \in Task : task[u].answer.refresh # n /\ \A d \in detached : d.token # n
          /\ n # 0
      BY <1>8, Zenon
    <2>5. Unseen(n)'
      BY <1>8, <1>14, Zenon
    <2>6. ASSUME NEW u \in Task, NEW k, k = task'[u].answer.refresh, k # 0
          PROVE  /\ Unseen(k)' /\ \A d \in detached : d.token # k
                 /\ \A w \in Task : w # u => task'[w].answer.refresh # k
      <3>1. CASE u = t
        <4>1. k = n
          BY <2>2, <2>6, <3>1, Zenon
        <4>2. \A w \in Task : w # u => task'[w].answer.refresh # n
          BY <2>3, <2>4, <3>1, Zenon
        <4> QED BY <2>4, <2>5, <4>1, <4>2, Zenon
      <3>2. CASE u # t
        <4>1. k = task[u].answer.refresh /\ k # n
          BY <2>3, <2>4, <2>6, <3>2, Zenon
        <4>2. Unseen(k) /\ \A d \in detached : d.token # k
          BY <2>1, <2>6, <4>1, Zenon
        <4>3. \A w \in Task : w # u => task[w].answer.refresh # k
          BY <2>1, <2>6, <4>1, Zenon
        <4>4. \A w \in Task : w # u => task'[w].answer.refresh # k
          BY <2>2, <2>3, <4>1, <4>3, Zenon
        <4> QED BY <1>14, <4>2, <4>4, Zenon
      <3> QED BY <3>1, <3>2, Zenon
    <2>7. \A d \in detached : d.token # 0 => Unseen(d.token)'
      <3> SUFFICES ASSUME NEW d \in detached, NEW k, k = d.token, k # 0 PROVE Unseen(k)'
        BY Zenon
      <3>1. Unseen(k)
        BY <2>1, Zenon
      <3> QED BY <1>14, <3>1, Zenon
    <2> QED BY <2>1, <2>6, <2>7, Zenon DEF Pending, Issues
  <1>16. Separated'
    <2>1. /\ \A q, r \in Process : Held(q) # 0 /\ Held(q) = Held(r) => SameStore(q, r)
          /\ \A u \in Task, q \in Process :
                task[u].token # 0 /\ task[u].token = Held(q) => SameStore(ProcessOf[u], q)
          /\ \A u, w \in Task : task[u].token # 0 /\ task[u].token = task[w].token
                                   => SameStore(ProcessOf[u], ProcessOf[w])
      BY Parts, Zenon DEF Separated
    <2>2. \A q, r \in Process : Held(q)' # 0 /\ Held(q)' = Held(r)' => SameStore(q, r)'
      BY <1>5, <2>1, SMTT(30)
    <2>3. \A u \in Task, q \in Process : task'[u].token # 0 /\ task'[u].token = Held(q)'
             => SameStore(ProcessOf[u], q)'
      BY <1>5, <1>6, <2>1, SMTT(30)
    <2>4. \A u, w \in Task : task'[u].token # 0 /\ task'[u].token = task'[w].token
             => SameStore(ProcessOf[u], ProcessOf[w])'
      BY <1>5, <1>6, <2>1, SMTT(30)
    <2> QED BY <2>2, <2>3, <2>4, Zenon DEF Separated
  <1>17. Spent'
    <2> SUFFICES ASSUME NEW q \in Process, Held(q)' \in redeemed' \ lost'
                 PROVE  \E u \in Task : /\ SameStore(ProcessOf[u], q)' /\ task'[u].pc \in {"answer", "store"}
                                        /\ task'[u].token = Held(q)' /\ task'[u].answer.refresh # 0
      BY Zenon DEF Spent
    <2>1. CASE Held(q) \in redeemed
      <3>1. PICK u \in Task : /\ SameStore(ProcessOf[u], q) /\ task[u].pc \in {"answer", "store"}
                              /\ task[u].token = Held(q) /\ task[u].answer.refresh # 0
        BY <1>5, <2>1, Parts, Zenon DEF Spent, Issues
      <3>2. u # t
        BY <3>1, Zenon DEF Issues
      <3> QED BY <1>4, <1>5, <3>1, <3>2, Zenon
    <2>2. CASE Held(q) \notin redeemed
      <3>1. c = "answer" /\ Held(q) = tok /\ tok # 0
        BY <1>5, <1>7, <1>11, <2>2, SMTT(30) DEF Issues
      <3>2. SameStore(p, q)
        BY <3>1, Parts, Zenon DEF Separated
      <3> QED BY <1>0, <1>1, <1>3, <1>4, <1>5, <1>8, <3>1, <3>2, SMTT(30) DEF Issues
    <2> QED BY <2>1, <2>2, Zenon
  <1>18. Issued'
    <2>1. /\ record <= minted /\ \A q \in Process : state[q].refresh <= minted
          /\ \A u \in Task : task[u].token <= minted /\ task[u].answer.refresh <= minted
          /\ \A d \in detached : d.token <= minted /\ gone \subseteq 1 .. minted
      BY Parts, Zenon DEF Issued
    <2>2. record \in Nat /\ \A q \in Process : state[q].refresh \in Nat
      BY Types, Zenon
    <2>3. \A u \in Task : task[u].token \in Nat /\ task[u].answer.refresh \in Nat
      BY Types, Zenon
    <2>4. \A d \in detached : d.token \in Nat
      BY Types, Zenon
    <2>5. \A u \in Task : task'[u].token <= minted' /\ task'[u].answer.refresh <= minted'
      BY <1>0, <1>3, <1>4, <1>6, <1>8, <2>1, <2>3, SMTT(30) DEF Issues
    <2>6. /\ record <= minted' /\ \A q \in Process : state[q].refresh <= minted'
          /\ \A d \in detached : d.token <= minted'
      BY <1>8, <2>1, <2>2, <2>4, SMTT(30) DEF Issues
    <2>7. gone \subseteq 1 .. minted
      BY Parts, Zenon DEF Issued
    <2> QED BY <1>10, <2>5, <2>6, <2>7, Zenon DEF Issued, Issues
  <1>19. Families'
    <2>1. \A k : k \in Nat /\ k <= minted /\ k # 0 => k \in 1 .. minted
      BY <1>8, SMTT(30)
    <2>2. \A u \in Task : /\ task[u].token # 0 => task[u].token \in 1 .. minted
                          /\ task[u].answer.refresh # 0 => task[u].answer.refresh \in 1 .. minted
      BY <2>1, Types, Parts, SMTT(30) DEF Issued
    <2>3. SessionStaysGone'
      <3>1. record # 0 => record \in 1 .. minted /\ family[record] \notin gone
        BY <2>1, Types, Parts, Zenon DEF Issued, Families, SessionStaysGone
      <3> QED BY <1>10, <3>1, SMTT(30) DEF SessionStaysGone, Issues
    <2>4. ASSUME NEW d \in detached, d.token # 0 PROVE family'[d.token] \notin gone
      <3>1. d.token \in 1 .. minted /\ family[d.token] \notin gone
        BY <2>1, <2>4, Types, Parts, Zenon DEF Issued, Families
      <3> QED BY <1>10, <3>1, Zenon
    <2>5. ASSUME NEW u \in Task, Cached(ProcessOf[u]), task'[u].token # 0,
                 task'[u].pc \in {"refresh", "answer", "store"}
          PROVE  /\ family'[task'[u].token] \notin gone
                 /\ task'[u].answer.refresh # 0 =>
                      family'[task'[u].answer.refresh] = family'[task'[u].token]
      <3>1. CASE u = t
        <4>1. c = "answer" /\ f = family[tok] /\ task'[t].answer.refresh = n
          BY <1>0, <1>3, <1>4, <2>5, <3>1, Zenon DEF Issues
        <4>2. family[tok] \notin gone
          BY <1>3, <1>4, <2>5, <3>1, <4>1, Parts, SMTT(30) DEF Families, Issues
        <4>3. family'[tok] = family[tok] /\ family'[n] = family[tok]
          BY <1>7, <1>10, <4>1, Zenon
        <4> QED BY <1>6, <3>1, <4>1, <4>2, <4>3, Zenon
      <3>2. CASE u # t
        <4>1. task'[u] = task[u]
          BY <1>4, <3>2, Zenon
        <4>2. /\ family[task[u].token] \notin gone
              /\ task[u].answer.refresh # 0 =>
                   family[task[u].answer.refresh] = family[task[u].token]
          BY <2>5, <4>1, Parts, Zenon DEF Families
        <4> QED BY <1>10, <2>2, <2>5, <4>1, <4>2, SMTT(30)
      <3> QED BY <3>1, <3>2, Zenon
    <2>6. ASSUME NEW u \in Task, NEW k, k = task'[u].answer.refresh, k # 0,
                 task'[u].pc \in {"store_lock", "store"}, task'[u].token = 0
          PROVE  /\ family'[k] = k /\ k \notin gone
                 /\ \A j \in 1 .. minted' : family'[j] = k => j = k
      <3>1. \A j \in 1 .. minted' : j \in 1 .. minted \/ j = n
        BY <1>0, <1>8, SMTT(30) DEF Issues
      <3>2. CASE u = t
        <4>1. c = "store_lock" /\ k = n /\ f = n
          BY <1>0, <1>3, <1>4, <2>6, <3>2, Zenon DEF Issues
        <4> QED BY <1>8, <1>10, <3>1, <4>1, Zenon
      <3>3. CASE u # t
        <4>1. task'[u] = task[u]
          BY <1>4, <3>3, Zenon
        <4>2. /\ family[k] = k /\ k \notin gone /\ k \in 1 .. minted
              /\ \A j \in 1 .. minted : family[j] = k => j = k
          BY <2>2, <2>6, <4>1, Parts, Zenon DEF Families
        <4>3. k # tok /\ k # n
          BY <1>8, <2>6, <4>1, Parts, Zenon DEF Pending, Unseen
        <4>4. f # k
          BY <1>7, <4>2, <4>3, Zenon
        <4> QED BY <1>10, <3>1, <4>2, <4>4, SMTT(30)
      <3> QED BY <3>2, <3>3, Zenon
    <2>7. \A u \in Task : Cached(ProcessOf[u])' <=> Cached(ProcessOf[u])
      BY <1>5, Zenon
    <2>8. \A u \in Task : LET k == task'[u].answer.refresh IN
             k # 0 /\ task'[u].pc \in {"store_lock", "store"} /\ task'[u].token = 0
             => /\ family'[k] = k /\ k \notin gone
                /\ \A j \in 1 .. minted' : family'[j] = k => j = k
      BY <2>6, Zenon
    <2>9. \A u \in Task : Cached(ProcessOf[u])' /\ task'[u].token # 0
                            /\ task'[u].pc \in {"refresh", "answer", "store"}
             => /\ family'[task'[u].token] \notin gone
                /\ task'[u].answer.refresh # 0 =>
                     family'[task'[u].answer.refresh] = family'[task'[u].token]
      BY <2>5, <2>7, Zenon
    <2> QED BY <2>3, <2>4, <2>8, <2>9, ZenonT(40) DEF Families, Issues
  <1>20. RotationSerialized'
    <2> SUFFICES ASSUME NEW u \in Task, task'[u].pc = "refresh", task'[u].token \in redeemed'
                 PROVE  task'[u].token \in lost
      BY Zenon DEF RotationSerialized, At, Issues
    <2>1. u # t /\ task'[u] = task[u]
      BY <1>3, <1>4, Zenon
    <2>2. CASE task[u].token \in redeemed
      BY <2>1, <2>2, Parts, Zenon DEF RotationSerialized, At
    <2>3. CASE task[u].token \notin redeemed
      <3>1. c = "answer" /\ task[u].token = tok /\ tok # 0
        BY <1>7, <1>11, <2>1, <2>3, SMTT(30) DEF Issues
      <3>2. SameStore(ProcessOf[t], ProcessOf[u])
        BY <3>1, Parts, Zenon DEF Separated
      <3> QED BY <2>1, <3>1, <3>2, Exclusive, Zenon DEF Issues
    <2> QED BY <2>2, <2>3, Zenon
  <1>21. OneGrantPerExpiry'
    <2>1. \A u \in Task : is_expired(ProcessOf[u])' <=> is_expired(ProcessOf[u])
      BY Zenon DEF is_expired, Issues
    <2>2. v.op = "get" => is_expired(p)
      BY <1>3, Parts, Zenon DEF OneGrantPerExpiry, Issues
    <2> QED BY <1>3, <1>4, <2>1, <2>2, Parts, Zenon DEF OneGrantPerExpiry
  <1> QED BY <1>12, <1>13, <1>15, <1>16, <1>17, <1>18, <1>19, <1>20, <1>21, Parts, Zenon DEF TokenInv, StateRecord, Issues

LEMMA RedeemStep ==
  ASSUME TokenInv, NEW t \in Task, Redeem(t)
  PROVE  TokenInv'
  <1>1. /\ UNCHANGED <<conf, now, state, writeLock, record, fileLock, detached, ops, lost, gone>>
        /\ task[t].pc = "refresh" /\ MaxToken \in Nat /\ minted \in Nat /\ 0 \in 0 .. MaxToken
    BY Types, SMTT(30) DEF Redeem, At
  <1>2. CASE \E l \in Lifetime : /\ minted < MaxToken /\ minted' = minted + 1
                                 /\ family' = [family EXCEPT ![minted + 1] = family[task[t].token]]
                                 /\ redeemed' = redeemed \cup {task[t].token}
                                 /\ Reply(t, [kind |-> "refreshed", refresh |-> minted + 1, life |-> l])
    <2>1. PICK l \in Lifetime : /\ minted < MaxToken /\ minted' = minted + 1
                                /\ family' = [family EXCEPT ![minted + 1] = family[task[t].token]]
                                /\ redeemed' = redeemed \cup {task[t].token}
                                /\ Reply(t, [kind |-> "refreshed", refresh |-> minted + 1, life |-> l])
      BY <1>2, Zenon
    <2> DEFINE a == [kind |-> "refreshed", refresh |-> minted + 1, life |-> l]
    <2>2. minted + 1 \in 0 .. MaxToken
      BY <1>1, <2>1, SMTT(30)
    <2>3. /\ a \in Answer /\ a.refresh = minted + 1 /\ a.kind = "refreshed" /\ a.life \in Lifetime
          /\ task' = [task EXCEPT ![t].pc = "answer", ![t].answer = a]
      BY <2>1, <2>2, Zenon DEF Answer, Reply
    <2> HIDE DEF a
    <2> QED BY <1>1, <2>1, <2>3, TokenReply, Zenon DEF Issues
  <1>3. CASE \E l \in Lifetime : /\ Reply(t, [kind |-> "refreshed", refresh |-> 0, life |-> l])
                                 /\ UNCHANGED providerVars
    <2>1. PICK l \in Lifetime : /\ Reply(t, [kind |-> "refreshed", refresh |-> 0, life |-> l])
                                /\ UNCHANGED providerVars
      BY <1>3, Zenon
    <2> DEFINE a == [kind |-> "refreshed", refresh |-> 0, life |-> l]
    <2>2. /\ a \in Answer /\ a.refresh = 0 /\ a.kind = "refreshed" /\ a.life \in Lifetime
          /\ task' = [task EXCEPT ![t].pc = "answer", ![t].answer = a]
          /\ UNCHANGED <<minted, family, redeemed>>
      BY <1>1, <2>1, Zenon DEF Answer, Reply, providerVars
    <2> HIDE DEF a
    <2> QED BY <1>1, <2>2, PlainReply, Zenon
  <1>4. CASE /\ Reply(t, [NoAnswer EXCEPT !.kind = "reauthenticate"]) /\ UNCHANGED providerVars
    <2> DEFINE a == [NoAnswer EXCEPT !.kind = "reauthenticate"]
    <2>1. /\ a \in Answer /\ a.refresh = 0 /\ a.kind = "reauthenticate"
          /\ task' = [task EXCEPT ![t].pc = "answer", ![t].answer = a]
          /\ UNCHANGED <<minted, family, redeemed>>
      BY <1>1, <1>4, Zenon DEF Answer, Reply, providerVars, NoAnswer
    <2> HIDE DEF a
    <2> QED BY <1>1, <2>1, PlainReply, Zenon
  <1>5. CASE /\ conf[ProcessOf[t]] = "machine"
             /\ Reply(t, [NoAnswer EXCEPT !.kind = "unsupported"]) /\ UNCHANGED providerVars
    <2> DEFINE a == [NoAnswer EXCEPT !.kind = "unsupported"]
    <2>1. /\ a \in Answer /\ a.refresh = 0 /\ a.kind = "unsupported"
          /\ task' = [task EXCEPT ![t].pc = "answer", ![t].answer = a]
          /\ UNCHANGED <<minted, family, redeemed>>
      BY <1>1, <1>5, Zenon DEF Answer, Reply, providerVars, NoAnswer
    <2> HIDE DEF a
    <2> QED BY <1>1, <1>5, <2>1, PlainReply, Zenon
  <1> QED BY <1>2, <1>3, <1>4, <1>5, Zenon DEF Redeem


-----------------------------------------------------------------------------
(* Answers that reach the caller, and writes to the file                   *)

\* The answer a is returned to the caller of t and the task ends.
Finishes(t, a) ==
    /\ a.life \in Lifetime
    /\ Return(t, a)
    /\ UNCHANGED <<conf, now, detached, redeemed, ops, lost>>
    /\ Families'
    /\ task[t].pc \notin {"idle", "write_lock"}
    /\ minted' \in 0 .. MaxToken
    /\ minted <= minted'
    /\ a.refresh <= minted'
    /\ family' \in [Token -> 0 .. MaxToken]
    /\ \A k \in 1 .. minted' : family'[k] \in 1 .. minted'
    /\ gone' \subseteq 1 .. minted
    /\ a.refresh # 0 => /\ Unseen(a.refresh)
                        /\ \A u \in Task \ {t} : task[u].answer.refresh # a.refresh
                        /\ \A d \in detached : d.token # a.refresh
    /\ record' \in {0, record, a.refresh}
    /\ record' # record => Cached(ProcessOf[t])
    /\ task[t].op # "get" => Cached(ProcessOf[t])
    /\ (task[t].pc \in {"answer", "store"} /\ task[t].answer.refresh # 0)
          => a.refresh # 0 /\ (Cached(ProcessOf[t]) => record' = a.refresh)

\* The answer a reaches the caller of t: the guards go, the process takes over the
\* access token, and the new refresh token, if there is one, is from now on where
\* refreshes of this process start from.
LEMMA FinishStep ==
  ASSUME TokenInv, NEW t \in Task, NEW a \in Answer, Finishes(t, a)
  PROVE  TokenInv'
  <1> DEFINE p == ProcessOf[t]
             k == a.refresh
  <1>1. TaskInv(t) /\ task[t] \in TaskRecord /\ p \in Process
    BY Kept, Zenon
  <1>2. /\ task'[t] = Idle /\ \A u \in Task \ {t} : task'[u] = task[u]
        /\ task' \in [Task -> TaskRecord]
    BY Types, Rest, Zenon DEF Return, Ended, Finishes
  <1>3. /\ \A q \in Process : Cached(q)' <=> Cached(q)
        /\ \A q, r \in Process : SameStore(q, r)' <=> SameStore(q, r)
        /\ \A u \in Task : ProcessOf[u] \in Process
    BY Types, Zenon DEF Cached, SameStore, Finishes
  <1>4. k \in 0 .. MaxToken /\ k \in Nat /\ MaxToken \in Nat /\ minted \in Nat /\ minted' \in Nat
    BY Types, SMTT(30) DEF Answer, Finishes
  <1>5. /\ state' \in [Process -> StateRecord]
        /\ \A q \in Process \ {p} : state'[q] = state[q]
        /\ task[t].op # "get" => state' = state
        /\ state'[p].refresh \in {k, state[p].refresh}
        /\ task[t].op = "get" /\ k # 0 => state'[p].refresh = k
        /\ state'[p].expires_at \in Expiry
    <2>1. CASE task[t].op = "get"
      <3> DEFINE j == IF a.refresh # 0 THEN a.refresh ELSE state[p].refresh
                 w == [access |-> TRUE, refresh |-> j, expires_at |-> now + a.life]
      <3>1. state' = [state EXCEPT ![p] = w]
        BY <2>1, Zenon DEF Return, Updated, Finishes
      <3>2. j \in {k, state[p].refresh} /\ (k # 0 => j = k) /\ j \in 0 .. MaxToken
        BY <1>1, <1>4, Types, Zenon DEF StateRecord
      <3>3. now + a.life \in Nat /\ now + a.life \in Expiry
        <4>1. now \in Nat /\ a.life \in Nat /\ now \in 0 .. now
          <5>1. now \in 0 .. MaxClock
            BY Bounds, Zenon
          <5>2. MaxClock \in Nat /\ a.life \in Nat
            BY TokenAssumption, Zenon DEF Finishes
          <5> QED BY <5>1, <5>2, SMTT(30)
        <4>2. \E n \in 0 .. now, l \in Lifetime : now + a.life = n + l
          BY <4>1, Zenon DEF Finishes
        <4> QED BY <4>1, <4>2, SMTT(30) DEF Expiry
      <3> HIDE DEF j
      <3>4. w \in StateRecord /\ w.refresh = j /\ w.expires_at = now + a.life
        BY <3>2, <3>3, Zenon DEF StateRecord
      <3> HIDE DEF w
      <3>5. state'[p] = w /\ state' \in [Process -> StateRecord]
            /\ \A q \in Process \ {p} : state'[q] = state[q]
        BY <1>1, <3>1, <3>4, Types, Zenon
      <3> QED BY <2>1, <3>2, <3>3, <3>4, <3>5, Zenon
    <2>2. CASE task[t].op # "get"
      <3>1. state' = state
        BY <2>2, Zenon DEF Return, Finishes
      <3> QED BY <1>1, <2>2, <3>1, Types, Zenon
    <2> QED BY <2>1, <2>2, Zenon
  <1>6. TypeOK'
    <2>1. \A q \in Process : /\ state'[q].access \in BOOLEAN /\ state'[q].refresh \in 0 .. MaxToken
                             /\ state'[q].expires_at \in Expiry
      <3> TAKE q \in Process
      <3>1. state'[q] \in StateRecord
        BY <1>5, Zenon
      <3>2. state'[q].expires_at \in Expiry
        BY <1>5, Types, Zenon
      <3> QED BY <3>1, <3>2, Zenon DEF StateRecord
    <2>2. writeLock' \in [Process -> Task \cup {NoTask}] /\ fileLock' \in Task \cup {NoTask}
      BY Types, Zenon DEF Return, Released, Finishes
    <2>3. record' \in 0 .. MaxToken
      BY <1>4, Bounds, SMTT(30) DEF Finishes
    <2>4. 1 .. minted \subseteq 1 .. minted' /\ 1 .. minted \subseteq Token
      BY <1>4, Bounds, SMTT(30) DEF Token, Finishes
    <2>5. redeemed' \subseteq 1 .. minted' /\ gone' \subseteq Token
      BY <2>4, Bounds, Zenon DEF Finishes
    <2> QED BY <1>2, <2>1, <2>2, <2>3, <2>5, Bounds, TypesAgain, Zenon DEF Finishes
  <1>7. ASSUME NEW u \in Task PROVE TaskInv(u)'
    <2>1. CASE u = t
      BY <1>2, <2>1, IdleTaskInv, Zenon
    <2>2. CASE u # t
      <3>1. task'[u] = task[u] /\ TaskInv(u) /\ ProcessOf[u] \in Process
        BY <1>2, <1>3, <2>2, Parts, Zenon
      <3>2. /\ writeLock[ProcessOf[u]] = u => writeLock'[ProcessOf[u]] = u
            /\ fileLock = u => fileLock' = u
        BY <2>2, <3>1, Zenon DEF Return, Released, Finishes
      <3>3. Cached(ProcessOf[u])' <=> Cached(ProcessOf[u])
        BY Zenon DEF Cached, Finishes
      <3> QED BY <3>1, <3>2, <3>3, ZenonT(40) DEF TaskInv, Finishes
    <2> QED BY <2>1, <2>2, Zenon
  <1>8. \A u \in Task : /\ task'[u].token \in {0, task[u].token}
                        /\ task'[u].answer.refresh \in {0, task[u].answer.refresh}
                        /\ task'[u].pc # "idle" => u # t /\ task'[u] = task[u]
    BY <1>2, Rest, Zenon
  <1>9. task'[t].token = 0 /\ task'[t].answer.refresh = 0
    BY <1>2, Rest, Zenon
  <1>10. ASSUME NEW j, j # 0, j # k, Unseen(j) PROVE Unseen(j)'
    <2>1. \A q \in Process : state'[q].refresh # j
      BY <1>5, <1>10, Zenon DEF Unseen
    <2>2. record' # j /\ \A u \in Task : task'[u].token # j
      BY <1>8, <1>10, Zenon DEF Unseen, Finishes
    <2> QED BY <1>10, <2>1, <2>2, Zenon DEF Unseen, Finishes
  <1>11. Pending'
    <2>1. /\ \A u \in Task : task[u].answer.refresh # 0 => Unseen(task[u].answer.refresh)
          /\ \A d \in detached : d.token # 0 => Unseen(d.token)
          /\ \A u, w \in Task : u # w /\ task[u].answer.refresh # 0
                                  => task[u].answer.refresh # task[w].answer.refresh
          /\ \A u \in Task, d \in detached : d.token # 0 => task[u].answer.refresh # d.token
          /\ \A d, e \in detached : d # e /\ d.token # 0 => d.token # e.token
      BY Parts, Zenon DEF Pending
    <2>2. ASSUME NEW u \in Task, NEW j, j = task'[u].answer.refresh, j # 0
          PROVE  /\ Unseen(j)' /\ \A d \in detached : d.token # j
                 /\ \A w \in Task : w # u => task'[w].answer.refresh # j
      <3>1. u # t /\ j = task[u].answer.refresh
        BY <1>8, <1>9, <2>2, Zenon
      <3>2. Unseen(j) /\ \A d \in detached : d.token # j
        BY <2>1, <2>2, <3>1, Zenon
      <3>3. j # k
        BY <2>2, <3>1, Zenon DEF Finishes
      <3>4. \A w \in Task : w # u => task'[w].answer.refresh # j
        BY <1>8, <2>1, <2>2, <3>1, SMTT(30)
      <3> QED BY <1>10, <2>2, <3>2, <3>3, <3>4, Zenon
    <2>3. ASSUME NEW d \in detached, NEW j, j = d.token, j # 0 PROVE Unseen(j)'
      <3>1. Unseen(j) /\ j # k
        BY <2>1, <2>3, Zenon DEF Finishes
      <3> QED BY <1>10, <2>3, <3>1, Zenon
    <2>4. \A d \in detached : d.token # 0 => Unseen(d.token)'
      BY <2>3, Zenon
    <2> QED BY <2>1, <2>2, <2>4, Zenon DEF Pending, Finishes
  <1>12. \A q \in Process : \/ Held(q)' \in {0, Held(q)}
                            \/ Held(q)' = k /\ SameStore(p, q)
    <2> TAKE q \in Process
    <2>1. CASE Cached(q)
      BY <1>3, <2>1, Zenon DEF Held, SameStore, Finishes
    <2>2. CASE ~Cached(q)
      BY <1>3, <1>5, <2>2, Zenon DEF Held, SameStore
    <2> QED BY <2>1, <2>2, Zenon
  <1>13. Separated'
    <2>1. /\ \A q, r \in Process : Held(q) # 0 /\ Held(q) = Held(r) => SameStore(q, r)
          /\ \A u \in Task, q \in Process :
                task[u].token # 0 /\ task[u].token = Held(q) => SameStore(ProcessOf[u], q)
          /\ \A u, w \in Task : task[u].token # 0 /\ task[u].token = task[w].token
                                   => SameStore(ProcessOf[u], ProcessOf[w])
      BY Parts, Zenon DEF Separated
    <2>2. \A q, r \in Process : SameStore(p, q) /\ SameStore(p, r) => SameStore(q, r)
      BY Zenon DEF SameStore
    <2>3. k # 0 => /\ \A q \in Process : Held(q) # k
                   /\ \A u \in Task : task[u].token # k
      BY Zenon DEF Unseen, Held, Finishes
    <2>4. \A q, r \in Process : Held(q)' # 0 /\ Held(q)' = Held(r)' => SameStore(q, r)'
      BY <1>3, <1>12, <2>1, <2>2, <2>3, SMTT(30)
    <2>5. \A u \in Task, q \in Process : task'[u].token # 0 /\ task'[u].token = Held(q)'
             => SameStore(ProcessOf[u], q)'
      BY <1>3, <1>8, <1>12, <2>1, <2>3, SMTT(30)
    <2>6. \A u, w \in Task : task'[u].token # 0 /\ task'[u].token = task'[w].token
             => SameStore(ProcessOf[u], ProcessOf[w])'
      BY <1>3, <1>8, <2>1, ZenonT(40)
    <2> QED BY <2>4, <2>5, <2>6, Zenon DEF Separated
  <1>14. Spent'
    <2> SUFFICES ASSUME NEW q \in Process, Held(q)' \in redeemed' \ lost'
                 PROVE  \E u \in Task : /\ SameStore(ProcessOf[u], q)' /\ task'[u].pc \in {"answer", "store"}
                                        /\ task'[u].token = Held(q)' /\ task'[u].answer.refresh # 0
      BY Zenon DEF Spent
    <2>1. 0 \notin redeemed
      BY Bounds, Zenon
    <2>2. k \notin redeemed
      BY <2>1, Zenon DEF Unseen, Finishes
    <2>3. Held(q)' = Held(q) /\ Held(q) \in redeemed \ lost
      BY <1>12, <2>1, <2>2, Zenon DEF Finishes
    <2>4. PICK u \in Task : /\ SameStore(ProcessOf[u], q) /\ task[u].pc \in {"answer", "store"}
                            /\ task[u].token = Held(q) /\ task[u].answer.refresh # 0
      BY <2>3, Parts, Zenon DEF Spent
    <2>5. u # t
      <3> SUFFICES ASSUME u = t PROVE FALSE
        BY Zenon
      <3>1. SameStore(p, q) /\ k # 0 /\ (Cached(p) => record' = k)
        BY <2>4, Zenon DEF Finishes
      <3>2. CASE Cached(p)
        <4>1. Held(q)' = k
          BY <1>3, <3>1, <3>2, Zenon DEF SameStore, Held
        <4> QED BY <2>2, <2>3, <4>1, Zenon
      <3>3. CASE ~Cached(p)
        <4>1. q = p /\ task[t].op = "get" /\ ~Cached(p)'
          BY <1>1, <1>3, <3>1, <3>3, Zenon DEF SameStore, Finishes
        <4>2. Held(q)' = k
          BY <1>5, <3>1, <4>1, Zenon DEF Held
        <4> QED BY <2>2, <2>3, <4>2, Zenon
      <3> QED BY <3>2, <3>3, Zenon
    <2> QED BY <1>2, <1>3, <2>3, <2>4, <2>5, Zenon
  <1>15. Issued'
    <2>1. /\ record <= minted /\ \A q \in Process : state[q].refresh <= minted
          /\ \A u \in Task : task[u].token <= minted /\ task[u].answer.refresh <= minted
          /\ \A d \in detached : d.token <= minted
      BY Parts, Zenon DEF Issued
    <2>2. \A j : j \in Nat /\ j <= minted => j <= minted'
      BY <1>4, SMTT(30) DEF Finishes
    <2>3. /\ record <= minted' /\ \A q \in Process : state[q].refresh <= minted'
          /\ \A u \in Task : task[u].token <= minted' /\ task[u].answer.refresh <= minted'
          /\ \A d \in detached : d.token <= minted'
      BY <2>1, <2>2, Types, Zenon
    <2>4. 0 <= minted' /\ k <= minted' /\ 1 .. minted \subseteq 1 .. minted'
      BY <1>4, SMTT(30) DEF Finishes
    <2>5. record' <= minted' /\ \A q \in Process : state'[q].refresh <= minted'
      BY <1>5, <2>3, <2>4, Zenon DEF Finishes
    <2>6. \A u \in Task : task'[u].token <= minted' /\ task'[u].answer.refresh <= minted'
      BY <1>8, <2>3, <2>4, Zenon
    <2> QED BY <2>3, <2>4, <2>5, <2>6, Zenon DEF Issued, Finishes
  <1>16. RotationSerialized'
    BY <1>8, Parts, Zenon DEF RotationSerialized, At, Finishes
  <1>17. OneGrantPerExpiry'
    <2> SUFFICES ASSUME NEW u \in Task, task'[u].op = "get", task'[u].pc \notin {"idle", "write_lock"}
                 PROVE  is_expired(ProcessOf[u])'
      BY Zenon DEF OneGrantPerExpiry
    <2>1. u # t /\ task'[u] = task[u] /\ TaskInv(u) /\ ProcessOf[u] \in Process
      BY <1>3, <1>8, Parts, Zenon
    <2>2. is_expired(ProcessOf[u])
      BY <2>1, Parts, Zenon DEF OneGrantPerExpiry
    <2>3. state'[ProcessOf[u]] = state[ProcessOf[u]]
      <3>1. CASE task[t].op # "get"
        BY <1>5, <3>1, Zenon
      <3>2. CASE task[t].op = "get" /\ task[t].pc # "write_lock"
        <4>1. writeLock[p] = t /\ writeLock[ProcessOf[u]] = u
          BY <1>1, <2>1, <3>2, Zenon DEF TaskInv
        <4> QED BY <1>5, <2>1, <4>1, Zenon
      <3> QED BY <3>1, <3>2, Zenon DEF Finishes
    <2> QED BY <2>2, <2>3, Zenon DEF is_expired, Finishes
  <1> QED BY <1>5, <1>6, <1>7, <1>11, <1>13, <1>14, <1>15, <1>16, <1>17, Whole, Zenon DEF StateRecord, Finishes

\* A step that at most ends tasks and begins a new family keeps the families apart.
LEMMA FamiliesKept ==
  ASSUME TokenInv, UNCHANGED <<conf, record, detached, gone>>,
         \A u \in Task : task'[u] = task[u] \/ task'[u] = Idle,
         \A k \in 1 .. minted : family'[k] = family[k],
         \/ minted' = minted
         \/ minted' = minted + 1 /\ family'[minted + 1] = minted + 1
  PROVE  Families'
  <1>1. /\ record # 0 => family[record] \notin gone
        /\ \A d \in detached : d.token # 0 => family[d.token] \notin gone
        /\ \A t \in Task : Cached(ProcessOf[t]) /\ task[t].token # 0
                              /\ task[t].pc \in {"refresh", "answer", "store"}
              => /\ family[task[t].token] \notin gone
                 /\ task[t].answer.refresh # 0 =>
                      family[task[t].answer.refresh] = family[task[t].token]
        /\ \A t \in Task : task[t].answer.refresh # 0 /\ task[t].pc \in {"store_lock", "store"}
                             /\ task[t].token = 0
              => /\ family[task[t].answer.refresh] = task[t].answer.refresh
                 /\ task[t].answer.refresh \notin gone
                 /\ \A j \in 1 .. minted : family[j] = task[t].answer.refresh
                                              => j = task[t].answer.refresh
    BY Parts, Zenon DEF Families, SessionStaysGone
  <1>2. /\ record # 0 => record \in 1 .. minted
        /\ \A d \in detached : d.token # 0 => d.token \in 1 .. minted
        /\ \A t \in Task : /\ task[t].token # 0 => task[t].token \in 1 .. minted
                           /\ task[t].answer.refresh # 0 => task[t].answer.refresh \in 1 .. minted
    <2>1. /\ record <= minted /\ \A d \in detached : d.token <= minted
          /\ \A t \in Task : task[t].token <= minted /\ task[t].answer.refresh <= minted
      BY Parts, Zenon DEF Issued
    <2>2. \A k \in Nat : k <= minted /\ k # 0 => k \in 1 .. minted
      BY Types, SMTT(30)
    <2> QED BY <2>1, <2>2, Types, Zenon
  <1>3. \A t \in Task : Cached(ProcessOf[t])' <=> Cached(ProcessOf[t])
    BY Zenon DEF Cached
  <1>4. \A t \in Task : task'[t].pc # "idle" => task'[t] = task[t]
    BY Rest, Zenon
  <1>5. \A j \in 1 .. minted' : \/ j \in 1 .. minted
                                \/ j = minted + 1 /\ family'[j] = minted + 1
    BY Types, SMTT(30)
  <1>6. \A j \in 1 .. minted : j # minted + 1
    BY Types, SMTT(30)
  <1>7. SessionStaysGone' /\ \A d \in detached' : d.token # 0 => family'[d.token] \notin gone'
    BY <1>1, <1>2, Zenon DEF SessionStaysGone
  <1>8. \A t \in Task : (Cached(ProcessOf[t])' /\ task'[t].token # 0
                              /\ task'[t].pc \in {"refresh", "answer", "store"})
              => /\ family'[task'[t].token] \notin gone'
                 /\ task'[t].answer.refresh # 0 =>
                      family'[task'[t].answer.refresh] = family'[task'[t].token]
    <2> SUFFICES ASSUME NEW t \in Task, Cached(ProcessOf[t])', task'[t].token # 0,
                        task'[t].pc \in {"refresh", "answer", "store"}
                 PROVE  /\ family'[task'[t].token] \notin gone'
                        /\ task'[t].answer.refresh # 0 =>
                             family'[task'[t].answer.refresh] = family'[task'[t].token]
      BY Zenon
    <2>1. task'[t] = task[t] /\ Cached(ProcessOf[t])
      BY <1>3, <1>4, Zenon
    <2>2. /\ family'[task[t].token] = family[task[t].token]
          /\ task[t].answer.refresh # 0 =>
               family'[task[t].answer.refresh] = family[task[t].answer.refresh]
      BY <1>2, <2>1, Zenon
    <2> QED BY <1>1, <2>1, <2>2, ZenonT(40)
  <1>9. \A t \in Task : (task'[t].answer.refresh # 0 /\ task'[t].pc \in {"store_lock", "store"}
                             /\ task'[t].token = 0)
              => /\ family'[task'[t].answer.refresh] = task'[t].answer.refresh
                 /\ task'[t].answer.refresh \notin gone'
                 /\ \A j \in 1 .. minted' : family'[j] = task'[t].answer.refresh
                                              => j = task'[t].answer.refresh
    BY <1>1, <1>2, <1>4, <1>5, <1>6, SMTT(30)
  <1> QED BY <1>7, <1>8, <1>9, Zenon DEF Families

\* The answer to a refresh reaches the caller without a write to the file.
LEMMA AnswerReturns ==
  ASSUME TokenInv, NEW t \in Task, RefreshAnswer(t),
         task[t].answer.kind = "refreshed", Return(t, task[t].answer)
  PROVE  TokenInv'
  <1> DEFINE p == ProcessOf[t]
             a == task[t].answer
  <1>1. /\ UNCHANGED <<conf, now, record, detached, minted, family, redeemed, ops, lost, gone>>
        /\ task[t].pc = "answer"
    BY Zenon DEF RefreshAnswer, providerVars, At
  <1>2. TaskInv(t) /\ task[t] \in TaskRecord /\ a \in Answer
    BY Kept, Types, Zenon
  <1>3. Cached(p) => a.refresh = 0
    <2> SUFFICES ASSUME Cached(p), a.refresh # 0 PROVE FALSE
      BY Zenon
    <2>1. task' = [task EXCEPT ![t].pc = "store"]
      BY Zenon DEF RefreshAnswer, Goto
    <2>2. task'[t].pc = "store"
      BY <1>2, <2>1, Types, Zenon DEF TaskRecord
    <2>3. task'[t] = Idle
      BY Types, Zenon DEF Return, Ended
    <2> QED BY <2>2, <2>3, Rest, Zenon
  <1>4. a.life \in Lifetime /\ (task[t].op # "get" => Cached(p))
    BY <1>1, <1>2, Zenon DEF TaskInv, TaskRecord
  <1>5. a.refresh # 0 => /\ Unseen(a.refresh)
                         /\ \A u \in Task \ {t} : task[u].answer.refresh # a.refresh
                         /\ \A d \in detached : d.token # a.refresh
    BY Parts, Zenon DEF Pending
  <1>6. Families'
    <2>1. \A u \in Task : task'[u] = task[u] \/ task'[u] = Idle
      BY Zenon DEF Return, Ended
    <2> QED BY <1>1, <2>1, FamiliesKept, Zenon
  <1>7. /\ minted' \in 0 .. MaxToken /\ minted <= minted' /\ a.refresh <= minted'
        /\ family' \in [Token -> 0 .. MaxToken] /\ gone' \subseteq 1 .. minted
        /\ \A k \in 1 .. minted' : family'[k] \in 1 .. minted'
    BY <1>1, Types, Parts, Bounds, SMTT(30) DEF Issued
  <1> HIDE DEF a
  <1>8. a.refresh = task[t].answer.refresh
    BY Zenon DEF a
  <1>9. Return(t, a)
    BY Zenon DEF a
  <1> QED BY <1>1, <1>2, <1>3, <1>4, <1>5, <1>6, <1>7, <1>8, <1>9, FinishStep, Zenon DEF Finishes

\* A flow succeeds: its session goes to the file, or to the process that keeps it.
LEMMA FetchStep ==
  ASSUME TokenInv, NEW t \in Task, fetch_token(t)
  PROVE  TokenInv'
  <1> DEFINE p == ProcessOf[t]
  <1>1. /\ UNCHANGED <<conf, now, record, detached, redeemed, ops, lost, gone>>
        /\ task[t].pc = "fetch" /\ minted \in Nat /\ MaxToken \in Nat
    BY Types, Zenon DEF fetch_token, At
  <1>2. TaskInv(t) /\ task[t] \in TaskRecord
    BY Kept, Zenon
  <1>3. PICK l \in Lifetime, k \in {0, minted + 1} :
          /\ k <= MaxToken
          /\ Fetched(t, [kind |-> "refreshed", refresh |-> k, life |-> l])
          /\ IF k = 0 THEN UNCHANGED <<minted, family>>
             ELSE minted' = k /\ family' = [family EXCEPT ![k] = k]
    BY Zenon DEF fetch_token
  <1> DEFINE a == [kind |-> "refreshed", refresh |-> k, life |-> l]
  <1>4. k \in 0 .. MaxToken
    BY <1>1, <1>3, SMTT(30)
  <1>5. a \in Answer /\ a.refresh = k /\ a.kind = "refreshed" /\ a.life \in Lifetime
    BY <1>4, Zenon DEF Answer
  <1>6. Fetched(t, a)
    BY <1>3, Zenon
  <1> HIDE DEF a
  <1>7. task[t].op = "login" => Cached(p)
    BY <1>2, Zenon DEF TaskInv
  <1>8. k # 0 => minted < MaxToken
    BY <1>1, <1>4, SMTT(30)
  <1>9. CASE Cached(p)
    <2>1. /\ task' = [task EXCEPT ![t].pc = "store_lock", ![t].answer = a]
          /\ UNCHANGED <<state, writeLock, fileLock>>
      BY <1>6, <1>9, Zenon DEF Fetched
    <2>2. CASE k = 0
      BY <1>1, <1>3, <1>5, <1>9, <2>1, <2>2, PlainReply, Zenon
    <2>3. CASE k # 0
      <3>1. k = minted + 1 /\ minted' = minted + 1 /\ minted < MaxToken
            /\ family' = [family EXCEPT ![minted + 1] = minted + 1]
        BY <1>3, <1>8, <2>3, Zenon
      <3> QED BY <1>1, <1>5, <1>9, <2>1, <3>1, TokenReply, Zenon DEF Issues
    <2> QED BY <2>2, <2>3, Zenon
  <1>10. CASE ~Cached(p)
    <2>1. Return(t, a) /\ task[t].op = "get"
      BY <1>1, <1>2, <1>6, <1>7, <1>10, Zenon DEF Fetched, TaskInv, TaskRecord
    <2>2. \A u \in Task : task'[u] = task[u] \/ task'[u] = Idle
      BY <2>1, Zenon DEF Return, Ended
    <2>3. gone \subseteq 1 .. minted
      BY Parts, Zenon DEF Issued
    <2>4. CASE k = 0
      <3>1. UNCHANGED <<minted, family>> /\ a.refresh = 0
        BY <1>3, <1>5, <2>4, Zenon
      <3>2. Families'
        BY <1>1, <2>2, <3>1, FamiliesKept, Zenon
      <3>3. /\ minted' \in 0 .. MaxToken /\ minted <= minted' /\ a.refresh <= minted'
            /\ family' \in [Token -> 0 .. MaxToken]
            /\ \A j \in 1 .. minted' : family'[j] \in 1 .. minted'
        BY <1>1, <3>1, Parts, Bounds, SMTT(30) DEF Issued
      <3> QED BY <1>1, <1>5, <1>10, <2>1, <2>3, <3>1, <3>2, <3>3, FinishStep, Zenon DEF Finishes
    <2>5. CASE k # 0
      <3>1. k = minted + 1 /\ minted' = minted + 1 /\ minted < MaxToken /\ a.refresh = minted + 1
            /\ family' = [family EXCEPT ![minted + 1] = minted + 1] /\ minted + 1 \in 1 .. minted + 1
        BY <1>1, <1>3, <1>5, <1>8, <2>5, SMTT(30)
      <3>2. /\ minted' \in 0 .. MaxToken /\ family' \in [Token -> 0 .. MaxToken]
            /\ family'[minted + 1] = minted + 1
            /\ \A j \in 1 .. minted : family'[j] = family[j]
            /\ \A j \in 1 .. minted' : family'[j] \in 1 .. minted'
        BY <3>1, Minted, Zenon
      <3>3. Families'
        BY <1>1, <2>2, <3>1, <3>2, FamiliesKept, Zenon
      <3>4. minted <= minted' /\ a.refresh <= minted'
        BY <1>1, <3>1, SMTT(30)
      <3>5. /\ Unseen(a.refresh) /\ \A u \in Task : task[u].answer.refresh # a.refresh
            /\ \A d \in detached : d.token # a.refresh
        BY <3>1, NextToken, Zenon
      <3> QED BY <1>1, <1>5, <1>10, <2>1, <2>3, <3>2, <3>3, <3>4, <3>5, FinishStep, Zenon DEF Finishes
    <2> QED BY <2>4, <2>5, Zenon
  <1> QED BY <1>9, <1>10, Zenon

\* The file comes to hold k, or nothing.  A family goes only when nobody is left who
\* would write one of its tokens.
LEMMA ReplaceStep ==
  ASSUME TokenInv, NEW k \in 0 .. minted, NEW restored \in BOOLEAN, Replace(k, restored),
         UNCHANGED <<conf, minted, family>>, detached' \subseteq detached,
         \A u \in Task : task'[u] = task[u] \/ task'[u].pc \in {"idle", "fetch"},
         k # 0 => family[k] \notin gone,
         ~restored => /\ \A d \in detached' : d.token # 0 => family[d.token] # family[record]
                      /\ \A u \in Task : (/\ Cached(ProcessOf[u]) /\ task'[u] = task[u]
                                          /\ task[u].pc \in {"refresh", "answer", "store"}
                                          /\ task[u].token # 0)
                            => family[task[u].token] # family[record]
  PROVE  Families' /\ gone' \subseteq 1 .. minted /\ record' = k
  <1>1. /\ record # 0 => family[record] \notin gone
        /\ \A d \in detached : d.token # 0 => family[d.token] \notin gone
        /\ \A t \in Task : Cached(ProcessOf[t]) /\ task[t].token # 0
                              /\ task[t].pc \in {"refresh", "answer", "store"}
              => /\ family[task[t].token] \notin gone
                 /\ task[t].answer.refresh # 0 =>
                      family[task[t].answer.refresh] = family[task[t].token]
        /\ \A t \in Task : task[t].answer.refresh # 0 /\ task[t].pc \in {"store_lock", "store"}
                             /\ task[t].token = 0
              => /\ family[task[t].answer.refresh] = task[t].answer.refresh
                 /\ task[t].answer.refresh \notin gone
                 /\ \A j \in 1 .. minted : family[j] = task[t].answer.refresh
                                              => j = task[t].answer.refresh
    BY Parts, Zenon DEF Families, SessionStaysGone
  <1>2. record # 0 => record \in 1 .. minted /\ family[record] \in 1 .. minted
    <2>1. record \in Nat /\ minted \in Nat /\ record <= minted
      BY Types, Parts, Zenon DEF Issued
    <2>2. record # 0 => record \in 1 .. minted
      BY <2>1, SMTT(30)
    <2> QED BY <2>2, Parts, Zenon DEF Issued
  <1>3. \A t \in Task : Cached(ProcessOf[t])' <=> Cached(ProcessOf[t])
    BY Zenon DEF Cached
  <1>4. /\ record' = k
        /\ \/ gone' = gone
           \/ /\ gone' = gone \cup {family[record]} /\ ~restored /\ record # 0
              /\ k # 0 => family[k] # family[record]
    BY Zenon DEF Replace
  <1>5. gone' \subseteq 1 .. minted
    BY <1>2, <1>4, Parts, Zenon DEF Issued
  <1>6. SessionStaysGone' /\ \A d \in detached' : d.token # 0 => family'[d.token] \notin gone'
    BY <1>1, <1>4, Zenon DEF SessionStaysGone
  <1>7. \A t \in Task : (Cached(ProcessOf[t])' /\ task'[t].token # 0
                              /\ task'[t].pc \in {"refresh", "answer", "store"})
              => /\ family'[task'[t].token] \notin gone'
                 /\ task'[t].answer.refresh # 0 =>
                      family'[task'[t].answer.refresh] = family'[task'[t].token]
    BY <1>1, <1>3, <1>4, Zenon
  <1>8. \A t \in Task : (task'[t].answer.refresh # 0 /\ task'[t].pc \in {"store_lock", "store"}
                             /\ task'[t].token = 0)
              => /\ family'[task'[t].answer.refresh] = task'[t].answer.refresh
                 /\ task'[t].answer.refresh \notin gone'
                 /\ \A j \in 1 .. minted' : family'[j] = task'[t].answer.refresh
                                              => j = task'[t].answer.refresh
    <2> SUFFICES ASSUME NEW t \in Task, task'[t].answer.refresh # 0,
                        task'[t].pc \in {"store_lock", "store"}, task'[t].token = 0
                 PROVE  /\ family'[task'[t].answer.refresh] = task'[t].answer.refresh
                        /\ task'[t].answer.refresh \notin gone'
                        /\ \A j \in 1 .. minted' : family'[j] = task'[t].answer.refresh
                                              => j = task'[t].answer.refresh
      BY Zenon
    <2>1. task'[t] = task[t]
      BY Zenon
    <2>2. record # task[t].answer.refresh
      BY <2>1, Parts, Zenon DEF Pending, Unseen
    <2>3. record # 0 => family[record] # task[t].answer.refresh
      BY <1>1, <1>2, <2>1, <2>2, Zenon
    <2> QED BY <1>1, <1>4, <2>1, <2>3, Zenon
  <1> QED BY <1>4, <1>5, <1>6, <1>7, <1>8, Zenon DEF Families

\* The session of a login or a refresh is written to the file.
LEMMA StoreStep ==
  ASSUME TokenInv, NEW t \in Task, store(t)
  PROVE  TokenInv'
  <1> DEFINE p == ProcessOf[t]
  <1>1. PICK a \in Answer : a = task[t].answer
    BY Types, Zenon
  <1>2. /\ UNCHANGED <<conf, now, detached, minted, family, redeemed, ops, lost>>
        /\ task[t].pc = "store" /\ Return(t, a)
    BY <1>1, Zenon DEF store, providerVars, At
  <1>3. TaskInv(t) /\ task[t] \in TaskRecord
    BY Kept, Zenon
  <1>4. /\ Cached(p) /\ fileLock = t /\ a.kind = "refreshed" /\ a.life \in Lifetime
        /\ task[t].token # 0 => a.refresh # 0
    BY <1>1, <1>2, <1>3, Zenon DEF TaskInv, FileGuarded
  <1>5. a.refresh # 0 => /\ Unseen(a.refresh)
                         /\ \A u \in Task \ {t} : task[u].answer.refresh # a.refresh
                         /\ \A d \in detached : d.token # a.refresh
    BY <1>1, Parts, Zenon DEF Pending
  <1>6. a.refresh \in 0 .. minted
    BY <1>1, Types, Parts, SMTT(30) DEF Issued
  <1>7. a.refresh # 0 => family[a.refresh] \notin gone
    BY <1>1, <1>2, <1>4, Parts, Zenon DEF Families
  <1>8. \A u \in Task : task'[u] = task[u] \/ task'[u] = Idle
    BY <1>2, Zenon DEF Return, Ended
  <1>9. /\ Families' /\ gone' \subseteq 1 .. minted /\ record' \in {record, a.refresh}
        /\ a.refresh # 0 => record' = a.refresh
    <2>1. CASE a.refresh # 0 \/ task[t].op = "login"
      <3> DEFINE r == Detached(family[record])
      <3>1. Replace(a.refresh, r) /\ r \in BOOLEAN
        BY <1>1, <2>1, Zenon DEF store, Detached
      <3>2. ~r => \A d \in detached' : d.token # 0 => family[d.token] # family[record]
        BY <1>2, Zenon DEF Detached
      <3>3. \A u \in Task : Cached(ProcessOf[u]) /\ task[u].pc \in {"refresh", "answer", "store"}
                              => u = t
        BY <1>3, <1>4, Parts, Zenon DEF TaskInv, FileGuarded
      <3>4. task'[t] # task[t]
        <4>1. task'[t] = Idle
          BY <1>2, Types, Zenon DEF Return, Ended
        <4> QED BY <1>2, <4>1, Rest, Zenon
      <3>5. \A u \in Task : task'[u] = task[u] \/ task'[u].pc \in {"idle", "fetch"}
        BY <1>8, Rest, Zenon
      <3> HIDE DEF r
      <3> QED BY <1>2, <1>6, <1>7, <3>1, <3>2, <3>3, <3>4, <3>5, ReplaceStep, Zenon
    <2>2. CASE a.refresh = 0 /\ task[t].op # "login"
      <3>1. UNCHANGED <<record, gone>>
        BY <1>1, <2>2, Zenon DEF store
      <3>2. Families'
        BY <1>2, <1>8, <3>1, FamiliesKept, Zenon
      <3> QED BY <2>2, <3>1, <3>2, Parts, Zenon DEF Issued
    <2> QED BY <2>1, <2>2, Zenon
  <1>10. /\ minted' \in 0 .. MaxToken /\ minted <= minted' /\ a.refresh <= minted'
         /\ family' \in [Token -> 0 .. MaxToken]
         /\ \A j \in 1 .. minted' : family'[j] \in 1 .. minted'
    BY <1>2, <1>6, Types, Parts, Bounds, SMTT(30) DEF Issued
  <1> QED BY <1>1, <1>2, <1>4, <1>5, <1>9, <1>10, FinishStep, Zenon DEF Finishes

\* The record of the cache file becomes k outside a refresh.
Rewrites(k) ==
    /\ record' = k
    /\ Families'
    /\ gone' \subseteq 1 .. minted
    /\ UNCHANGED <<conf, now, state, writeLock, minted, family, redeemed, lost>>
    /\ ops' \in 0 .. MaxOps
    /\ fileLock' \in Task \cup {NoTask}
    /\ task' \in [Task -> TaskRecord]
    /\ \A u \in Task : TaskInv(u)'
    /\ \A u \in Task : \/ task'[u] = task[u]
                       \/ /\ task[u].pc = "delete" /\ task'[u].pc = "fetch"
                          /\ task'[u].op = task[u].op /\ task'[u].token = 0
                          /\ task'[u].answer = task[u].answer
    /\ detached' \subseteq detached
    /\ k # 0 => /\ Unseen(k) /\ \A u \in Task : task[u].answer.refresh # k
                /\ \A d \in detached' : d.token # k

\* The file changes while no task does more than give up a rejected session.
LEMMA RewriteStep ==
  ASSUME TokenInv, NEW k \in 0 .. minted, Rewrites(k)
  PROVE  TokenInv'
  <1>1. /\ \A q \in Process : Cached(q)' <=> Cached(q)
        /\ \A q, r \in Process : SameStore(q, r)' <=> SameStore(q, r)
        /\ \A u \in Task : ProcessOf[u] \in Process
    BY Types, Zenon DEF Cached, SameStore, Rewrites
  <1>2. \A u \in Task : /\ task'[u].token \in {0, task[u].token}
                        /\ task'[u].answer = task[u].answer
    BY Zenon DEF Rewrites
  <1>3. k \in Nat /\ k <= minted /\ k \in 0 .. MaxToken /\ minted \in Nat
    BY Types, Bounds, SMTT(30)
  <1>4. TypeOK'
    <2>1. gone' \subseteq Token
      BY Types, Bounds, SMTT(30) DEF Token, Rewrites
    <2>2. detached' \subseteq [process : Process, token : 0 .. MaxToken]
      BY Bounds, Zenon DEF Rewrites
    <2> QED BY <1>3, <2>1, <2>2, Types, OldTypes, Bounds, TypesAgain, Zenon DEF Rewrites
  <1>5. ASSUME NEW j, j # 0, j # k, Unseen(j) PROVE Unseen(j)'
    BY <1>2, <1>5, Zenon DEF Unseen, Rewrites
  <1>6. Pending'
    <2>1. /\ \A u \in Task : task[u].answer.refresh # 0 => Unseen(task[u].answer.refresh)
          /\ \A d \in detached : d.token # 0 => Unseen(d.token)
          /\ \A u, w \in Task : u # w /\ task[u].answer.refresh # 0
                                  => task[u].answer.refresh # task[w].answer.refresh
          /\ \A u \in Task, d \in detached : d.token # 0 => task[u].answer.refresh # d.token
          /\ \A d, e \in detached : d # e /\ d.token # 0 => d.token # e.token
      BY Parts, Zenon DEF Pending
    <2>2. ASSUME NEW u \in Task, NEW j, j = task'[u].answer.refresh, j # 0 PROVE Unseen(j)'
      BY <1>2, <1>5, <2>1, <2>2, SMTT(30) DEF Rewrites
    <2>3. ASSUME NEW d \in detached', NEW j, j = d.token, j # 0 PROVE Unseen(j)'
      BY <1>5, <2>1, <2>3, Zenon DEF Rewrites
    <2>4. \A d \in detached' : d.token # 0 => Unseen(d.token)'
      BY <2>3, Zenon
    <2>5. \A u \in Task : task'[u].answer.refresh = task[u].answer.refresh
      BY <1>2, Zenon
    <2>6. \A u \in Task : task'[u].answer.refresh # 0 => Unseen(task[u].answer.refresh)'
      BY <2>2, Zenon
    <2>7. detached' \subseteq detached
      BY Zenon DEF Rewrites
    <2> QED BY <2>1, <2>4, <2>5, <2>6, <2>7, ZenonT(40) DEF Pending
  <1>7. \A q \in Process : \/ Held(q)' = Held(q) /\ ~Cached(q)
                           \/ Held(q)' = k /\ Cached(q)
    BY <1>1, Zenon DEF Held, Rewrites
  <1>8. Separated'
    <2>1. /\ \A q, r \in Process : Held(q) # 0 /\ Held(q) = Held(r) => SameStore(q, r)
          /\ \A u \in Task, q \in Process :
                task[u].token # 0 /\ task[u].token = Held(q) => SameStore(ProcessOf[u], q)
          /\ \A u, w \in Task : task[u].token # 0 /\ task[u].token = task[w].token
                                   => SameStore(ProcessOf[u], ProcessOf[w])
      BY Parts, Zenon DEF Separated
    <2>2. \A q, r \in Process : Cached(q) /\ Cached(r) => SameStore(q, r)
      BY Zenon DEF SameStore
    <2>3. k # 0 => /\ \A q \in Process : Held(q) # k
                   /\ \A u \in Task : task[u].token # k
      BY Zenon DEF Unseen, Held, Rewrites
    <2>4. \A q, r \in Process : Held(q)' # 0 /\ Held(q)' = Held(r)' => SameStore(q, r)'
      BY <1>1, <1>7, <2>1, <2>2, <2>3, SMTT(30)
    <2>5. \A u \in Task, q \in Process : task'[u].token # 0 /\ task'[u].token = Held(q)'
             => SameStore(ProcessOf[u], q)'
      BY <1>1, <1>2, <1>7, <2>1, <2>3, SMTT(30)
    <2>6. \A u, w \in Task : task'[u].token # 0 /\ task'[u].token = task'[w].token
             => SameStore(ProcessOf[u], ProcessOf[w])'
      BY <1>1, <1>2, <2>1, Zenon
    <2> QED BY <2>4, <2>5, <2>6, Zenon DEF Separated
  <1>9. Spent'
    <2> SUFFICES ASSUME NEW q \in Process, Held(q)' \in redeemed' \ lost'
                 PROVE  \E u \in Task : /\ SameStore(ProcessOf[u], q)' /\ task'[u].pc \in {"answer", "store"}
                                        /\ task'[u].token = Held(q)' /\ task'[u].answer.refresh # 0
      BY Zenon DEF Spent
    <2>1. k \notin redeemed
      <3>1. 0 \notin redeemed
        BY Bounds, Zenon
      <3> QED BY <3>1, Zenon DEF Unseen, Rewrites
    <2>2. Held(q)' = Held(q) /\ Held(q) \in redeemed \ lost
      BY <1>7, <2>1, Zenon DEF Rewrites
    <2>3. PICK u \in Task : /\ SameStore(ProcessOf[u], q) /\ task[u].pc \in {"answer", "store"}
                            /\ task[u].token = Held(q) /\ task[u].answer.refresh # 0
      BY <2>2, Parts, Zenon DEF Spent
    <2>4. task'[u] = task[u]
      BY <2>3, Zenon DEF Rewrites
    <2> QED BY <1>1, <2>2, <2>3, <2>4, Zenon
  <1>10. Issued'
    <2>1. /\ \A q \in Process : state[q].refresh <= minted
          /\ \A u \in Task : task[u].token <= minted /\ task[u].answer.refresh <= minted
          /\ \A d \in detached : d.token <= minted
          /\ \A j \in 1 .. minted : family[j] \in 1 .. minted
      BY Parts, Zenon DEF Issued
    <2>2. 0 <= minted
      BY <1>3, SMTT(30)
    <2>3. \A u \in Task : task'[u].token <= minted' /\ task'[u].answer.refresh <= minted'
      BY <1>2, <2>1, <2>2, Zenon DEF Rewrites
    <2> QED BY <1>3, <2>1, <2>3, Zenon DEF Issued, Rewrites
  <1>11. RotationSerialized'
    <2> SUFFICES ASSUME NEW u \in Task, task'[u].pc = "refresh", task'[u].token \in redeemed
                 PROVE  task'[u].token \in lost
      BY Zenon DEF RotationSerialized, At, Rewrites
    <2>1. task'[u] = task[u]
      BY Zenon DEF Rewrites
    <2> QED BY <2>1, Parts, Zenon DEF RotationSerialized, At
  <1>12. OneGrantPerExpiry'
    <2> SUFFICES ASSUME NEW u \in Task, task'[u].op = "get", task'[u].pc \notin {"idle", "write_lock"}
                 PROVE  is_expired(ProcessOf[u])'
      BY Zenon DEF OneGrantPerExpiry
    <2>1. task[u].op = "get" /\ task[u].pc \notin {"idle", "write_lock"}
      BY Zenon DEF Rewrites
    <2>2. is_expired(ProcessOf[u])
      BY <2>1, Parts, Zenon DEF OneGrantPerExpiry
    <2> QED BY <2>2, Zenon DEF is_expired, Rewrites
  <1> QED BY <1>4, <1>6, <1>8, <1>9, <1>10, <1>11, <1>12, Parts, Zenon DEF TokenInv, StateRecord, Rewrites

\* A rejected session is removed from the file.
LEMMA DeleteStep ==
  ASSUME TokenInv, NEW t \in Task, delete(t)
  PROVE  TokenInv'
  <1> DEFINE p == ProcessOf[t]
             v == [task[t] EXCEPT !.pc = "fetch", !.token = 0]
             r == Detached(family[record])
  <1>1. /\ UNCHANGED <<conf, now, state, writeLock, detached, minted, family, redeemed, ops, lost>>
        /\ task[t].pc = "delete" /\ fileLock' = NoTask /\ Replace(0, r) /\ r \in BOOLEAN
        /\ task' = [task EXCEPT ![t] = v]
    BY Zenon DEF delete, providerVars, At, Detached
  <1>2. TaskInv(t) /\ task[t] \in TaskRecord /\ p \in Process
    BY Kept, Zenon
  <1>3. /\ v \in TaskRecord /\ v.pc = "fetch" /\ v.op = task[t].op /\ v.token = 0
        /\ v.answer = task[t].answer
    BY <1>2, Rest, Zenon DEF TaskRecord, PCs, Idle
  <1>4. Cached(p) /\ fileLock = t
    BY <1>1, <1>2, Zenon DEF TaskInv, FileGuarded
  <1> HIDE DEF v
  <1>5. /\ task'[t] = v /\ \A u \in Task \ {t} : task'[u] = task[u]
        /\ task' \in [Task -> TaskRecord]
    BY <1>1, <1>3, Types, Zenon
  <1>6. ASSUME NEW u \in Task PROVE TaskInv(u)'
    <2>1. Cached(ProcessOf[u])' <=> Cached(ProcessOf[u])
      BY <1>1, Zenon DEF Cached
    <2>2. CASE u = t
      BY <1>1, <1>2, <1>3, <1>5, <2>1, <2>2, Zenon DEF TaskInv, FileGuarded
    <2>3. CASE u # t
      <3>1. TaskInv(u) /\ task'[u] = task[u] /\ fileLock # u
        BY <1>4, <1>5, <2>3, Parts, Zenon
      <3> QED BY <1>1, <2>1, <3>1, Zenon DEF TaskInv
    <2> QED BY <2>2, <2>3, Zenon
  <1>7. ~r => \A d \in detached' : d.token # 0 => family[d.token] # family[record]
    BY <1>1, Zenon DEF Detached
  <1>8. \A u \in Task : Cached(ProcessOf[u]) /\ task[u].pc \in {"refresh", "answer", "store"}
                          => u = t
    BY <1>4, Parts, Zenon DEF TaskInv, FileGuarded
  <1>9. \A u \in Task : task'[u] = task[u] \/ task'[u].pc \in {"idle", "fetch"}
    BY <1>3, <1>5, Zenon
  <1>10. 0 \in 0 .. minted
    BY Types, SMTT(30)
  <1> HIDE DEF r
  <1>11. Families' /\ gone' \subseteq 1 .. minted /\ record' = 0
    BY <1>1, <1>7, <1>8, <1>9, <1>10, ReplaceStep, Zenon
  <1>12. fileLock' \in Task \cup {NoTask} /\ ops' \in 0 .. MaxOps
    BY <1>1, Bounds, Zenon
  <1>13. \A u \in Task : \/ task'[u] = task[u]
                         \/ /\ task[u].pc = "delete" /\ task'[u].pc = "fetch"
                            /\ task'[u].op = task[u].op /\ task'[u].token = 0
                            /\ task'[u].answer = task[u].answer
    BY <1>1, <1>3, <1>5, Zenon
  <1> QED BY <1>1, <1>5, <1>6, <1>10, <1>11, <1>12, <1>13, RewriteStep, Zenon DEF Rewrites

LEMMA LogoutStep ==
  ASSUME TokenInv, NEW t \in Task, logout(t)
  PROVE  TokenInv'
  <1> DEFINE r == Detached(family[record]) \/ Refreshing(family[record])
  <1>1. /\ UNCHANGED <<conf, now, state, writeLock, fileLock, task, detached, minted, family,
                       redeemed, lost>>
        /\ ops' \in 0 .. MaxOps /\ Replace(0, r) /\ r \in BOOLEAN
    BY Kept, Zenon DEF logout, providerVars, At, Detached, Refreshing
  <1>2. ~r => /\ \A d \in detached' : d.token # 0 => family[d.token] # family[record]
              /\ \A u \in Task : (/\ Cached(ProcessOf[u]) /\ task'[u] = task[u]
                                  /\ task[u].pc \in {"refresh", "answer", "store"}
                                  /\ task[u].token # 0)
                      => family[task[u].token] # family[record]
    BY <1>1, Zenon DEF Detached, Refreshing
  <1>3. 0 \in 0 .. minted
    BY Types, SMTT(30)
  <1> HIDE DEF r
  <1>4. Families' /\ gone' \subseteq 1 .. minted /\ record' = 0
    BY <1>1, <1>2, <1>3, ReplaceStep, Zenon
  <1>5. \A u \in Task : TaskInv(u)'
    BY <1>1, Parts, ZenonT(40) DEF TaskInv, Cached
  <1>6. fileLock' \in Task \cup {NoTask} /\ task' \in [Task -> TaskRecord]
    BY <1>1, Types, Zenon
  <1> QED BY <1>1, <1>3, <1>4, <1>5, <1>6, RewriteStep, Zenon DEF Rewrites

\* A write whose caller is gone takes effect.
LEMMA LandsStep ==
  ASSUME TokenInv, NEW d \in detached, DetachedLands(d)
  PROVE  TokenInv'
  <1> DEFINE r == \/ Refreshing(family[record])
                  \/ \E e \in detached \ {d} : e.token # 0 /\ family[e.token] = family[record]
  <1>0. PICK k \in Nat : k = d.token
    BY Types, Zenon
  <1>1. /\ UNCHANGED <<conf, now, state, writeLock, fileLock, task, minted, family, redeemed,
                       ops, lost>>
        /\ detached' = detached \ {d} /\ Replace(k, r) /\ r \in BOOLEAN
    BY <1>0, Zenon DEF DetachedLands, providerVars, Refreshing
  <1>2. ~r => /\ \A e \in detached' : e.token # 0 => family[e.token] # family[record]
              /\ \A u \in Task : (/\ Cached(ProcessOf[u]) /\ task'[u] = task[u]
                                  /\ task[u].pc \in {"refresh", "answer", "store"}
                                  /\ task[u].token # 0)
                      => family[task[u].token] # family[record]
    BY <1>1, Zenon DEF Refreshing
  <1>3. k \in 0 .. minted
    BY <1>0, Types, Parts, SMTT(30) DEF Issued
  <1>4. k # 0 => /\ Unseen(k) /\ \A u \in Task : task[u].answer.refresh # k
                 /\ \A e \in detached' : e.token # k
                 /\ family[k] \notin gone
    BY <1>0, <1>1, Parts, Zenon DEF Pending, Families
  <1> HIDE DEF r
  <1>5. Families' /\ gone' \subseteq 1 .. minted /\ record' = k
    BY <1>1, <1>2, <1>3, <1>4, ReplaceStep, Zenon
  <1>6. \A u \in Task : TaskInv(u)'
    BY <1>1, Parts, ZenonT(40) DEF TaskInv, Cached
  <1>7. fileLock' \in Task \cup {NoTask} /\ task' \in [Task -> TaskRecord] /\ ops' \in 0 .. MaxOps
    BY <1>1, Types, Bounds, Zenon
  <1> QED BY <1>1, <1>3, <1>4, <1>5, <1>6, <1>7, RewriteStep, Zenon DEF Rewrites

\* Time passes: an expired token stays expired.
LEMMA TickStep ==
  ASSUME TokenInv, Tick
  PROVE  TokenInv'
  <1>1. /\ UNCHANGED <<conf, state, writeLock, record, fileLock, task, detached, minted, family,
                       redeemed, ops, lost, gone>>
        /\ now < MaxClock /\ now' = now + 1
    BY Zenon DEF Tick, providerVars
  <1>2. now \in 0 .. MaxClock
    BY Bounds, Zenon
  <1>3. MaxClock \in Nat /\ Buffer \in Nat
    BY TokenAssumption, Zenon
  <1>4. now' \in 0 .. MaxClock /\ now \in Nat /\ 0 .. now \subseteq 0 .. now'
    BY <1>1, <1>2, <1>3, SMTT(30)
  <1>5. \A p \in Process : state'[p].expires_at \in Expiry'
    <2>1. \A p \in Process : state[p].expires_at \in Expiry
      BY Types, Zenon
    <2>2. Expiry \subseteq Expiry'
      BY <1>4, SMTT(30) DEF Expiry
    <2> QED BY <1>1, <2>1, <2>2, Zenon
  <1>6. TypeOK'
    BY <1>1, <1>4, <1>5, OldTypes, Bounds, Types, Zenon DEF TypeOK, TaskRecord
  <1>7. \A t \in Task : TaskInv(t)'
    BY <1>1, Parts, ZenonT(40) DEF TaskInv, Cached
  <1>8. Pending'
    BY <1>1, Parts, Zenon DEF Pending, Unseen
  <1>9. Separated'
    BY <1>1, Parts, Zenon DEF Separated, SameStore, Held, Cached
  <1>10. Spent'
    <2>1. \A q, r : Held(q)' = Held(q) /\ (SameStore(q, r)' <=> SameStore(q, r))
      BY <1>1, Zenon DEF SameStore, Held, Cached
    <2> QED BY <1>1, <2>1, Parts, Zenon DEF Spent
  <1>11. Issued' /\ Families' /\ RotationSerialized'
    BY <1>1, Parts, Zenon DEF Issued, Families, SessionStaysGone, RotationSerialized, Cached, At
  <1>12. OneGrantPerExpiry'
    <2> SUFFICES ASSUME NEW u \in Task, task'[u].op = "get", task'[u].pc \notin {"idle", "write_lock"}
                 PROVE  is_expired(ProcessOf[u])'
      BY Zenon DEF OneGrantPerExpiry
    <2>1. is_expired(ProcessOf[u]) /\ ProcessOf[u] \in Process
      BY <1>1, Types, Parts, Zenon DEF OneGrantPerExpiry
    <2>2. state[ProcessOf[u]] \in StateRecord
      BY <2>1, Types, Zenon
    <2>3. state[ProcessOf[u]].expires_at \in Nat
      BY <2>2, Zenon DEF StateRecord
    <2>4. now + Buffer >= state[ProcessOf[u]].expires_at
             => now' + Buffer >= state[ProcessOf[u]].expires_at
      BY <1>1, <1>3, <1>4, <2>3, SMTT(30)
    <2> QED BY <1>1, <2>1, <2>4, Zenon DEF is_expired
  <1> QED BY <1>1, <1>6, <1>7, <1>8, <1>9, <1>10, <1>11, <1>12, Parts, Zenon DEF TokenInv, StateRecord

-----------------------------------------------------------------------------
(* The theorems                                                            *)

LEMMA InitTokenInv ==
  ASSUME Init
  PROVE  TokenInv
  <1>1. /\ conf \in Config /\ now = 0 /\ state = [p \in Process |-> NewState]
        /\ writeLock = [p \in Process |-> NoTask] /\ record \in {0, 1} /\ fileLock = NoTask
        /\ task = [t \in Task |-> Idle] /\ detached = {} /\ minted = record
        /\ redeemed = {} /\ ops = 0 /\ lost = {} /\ gone = {}
    BY Zenon DEF Init
  <1>2. family = [k \in Token |-> IF k <= minted THEN k ELSE 0]
    BY Zenon DEF Init
  <1>3. /\ MaxToken \in Nat /\ MaxToken >= 1 /\ MaxClock \in Nat /\ MaxOps \in Nat
        /\ ProcessOf \in [Task -> Process]
    BY TokenAssumption, SMTT(30)
  <1>4. \A t \in Task : task[t] = Idle
    BY <1>1, Zenon
  <1>5. \A p \in Process : state[p] = NewState
    BY <1>1, Zenon
  <1>6. /\ record \in 0 .. MaxToken /\ minted \in 0 .. MaxToken /\ 0 \in 0 .. MaxClock
        /\ 0 \in 0 .. MaxOps /\ minted \in {0, 1}
    BY <1>1, <1>3, SMTT(30)
  <1>7. family \in [Token -> 0 .. MaxToken] /\ \A k \in 1 .. minted : family[k] = k
    <2>1. \A k \in Token : k \in 0 .. MaxToken /\ 0 \in 0 .. MaxToken
      BY <1>3, SMTT(30) DEF Token
    <2>2. \A k \in 1 .. minted : k \in Token /\ k <= minted
      BY <1>3, <1>6, SMTT(30) DEF Token
    <2> QED BY <1>2, <2>1, <2>2, Zenon
  <1>8. TypeOK
    <2>1. task \in [Task -> TaskRecord]
      BY <1>1, Rest, Zenon
    <2>2. writeLock \in [Process -> Task \cup {NoTask}]
      BY <1>1, Zenon
    <2>3. \A p \in Process : state[p].access \in BOOLEAN /\ state[p].refresh \in 0 .. MaxToken
                             /\ state[p].expires_at = 0
      <3> SUFFICES ASSUME NEW p \in Process
                   PROVE  /\ state[p].access \in BOOLEAN /\ state[p].refresh \in 0 .. MaxToken
                          /\ state[p].expires_at = 0
        BY Zenon
      <3>1. state[p] = NewState
        BY <1>5, Zenon
      <3>2. state[p] \in StateRecord /\ state[p].expires_at = 0
        BY <3>1, Rest, Zenon
      <3> QED BY <3>2, Zenon DEF StateRecord
    <2>4. 0 \in 0 .. MaxClock /\ 0 \in 0 .. MaxOps /\ 0 \in Expiry
      BY TokenAssumption, SMTT(30) DEF Expiry
    <2> QED BY <1>1, <1>6, <1>7, <2>1, <2>2, <2>3, <2>4, Zenon DEF TypeOK, TaskRecord
  <1>9. state \in [Process -> StateRecord]
    BY <1>1, Rest, Zenon
  <1>10. \A t \in Task : TaskInv(t)
    BY <1>4, Rest, Zenon DEF TaskInv, FileGuarded
  <1>11. Pending
    BY <1>1, <1>4, Rest, Zenon DEF Pending
  <1>12. Separated
    <2>1. \A p \in Process : Held(p) = IF Cached(p) THEN record ELSE 0
      BY <1>5, Rest, Zenon DEF Held
    <2>2. \A t \in Task : task[t].token = 0
      BY <1>4, Rest, Zenon
    <2>3. \A p, q \in Process : Held(p) # 0 /\ Held(p) = Held(q) => SameStore(p, q)
      BY <2>1, Zenon DEF SameStore
    <2> QED BY <2>2, <2>3, Zenon DEF Separated
  <1>13. Spent
    BY <1>1, Zenon DEF Spent
  <1>14. Issued
    <2>1. \A p \in Process : state[p].refresh = 0
      BY <1>5, Rest, Zenon
    <2>2. \A t \in Task : task[t].token = 0 /\ task[t].answer.refresh = 0
      BY <1>4, Rest, Zenon
    <2>3. 0 <= minted /\ record <= minted
      BY <1>1, <1>6, SMTT(30)
    <2> QED BY <1>1, <1>7, <2>1, <2>2, <2>3, Zenon DEF Issued
  <1>15. Families
    <2>1. \A t \in Task : task[t].token = 0 /\ task[t].answer.refresh = 0
      BY <1>4, Rest, Zenon
    <2> QED BY <1>1, <2>1, Zenon DEF Families, SessionStaysGone
  <1>16. RotationSerialized /\ OneGrantPerExpiry
    BY <1>1, <1>4, Rest, Zenon DEF RotationSerialized, OneGrantPerExpiry
  <1> QED BY <1>8, <1>9, <1>10, <1>11, <1>12, <1>13, <1>14, <1>15, <1>16, Zenon DEF TokenInv, StateRecord

LEMMA StutterStep ==
  ASSUME TokenInv, UNCHANGED vars
  PROVE  TokenInv'
  <1>1. UNCHANGED <<conf, now, state, writeLock, record, fileLock, task, detached,
                    minted, family, redeemed, ops, lost, gone>>
    BY Zenon DEF vars
  <1>2. TypeOK' /\ \A t \in Task : TaskInv(t)'
    <2>1. \A t \in Task : TaskInv(t)'
      BY <1>1, Parts, ZenonT(40) DEF TaskInv, Cached
    <2> QED BY <1>1, <2>1, OldTypes, Bounds, Types, TypesAgain, Zenon
  <1>3. Pending'
    BY <1>1, Parts, Zenon DEF Pending, Unseen
  <1>4. Separated' /\ Spent'
    <2>1. \A q, r : Held(q)' = Held(q) /\ (SameStore(q, r)' <=> SameStore(q, r))
      BY <1>1, Zenon DEF SameStore, Held, Cached
    <2> QED BY <1>1, <2>1, Parts, ZenonT(40) DEF Separated, Spent
  <1>5. Issued' /\ Families' /\ RotationSerialized' /\ OneGrantPerExpiry'
    BY <1>1, Parts, Zenon
       DEF Issued, Families, SessionStaysGone, RotationSerialized, Cached, At, OneGrantPerExpiry, is_expired
  <1> QED BY <1>1, <1>2, <1>3, <1>4, <1>5, Parts, Zenon DEF TokenInv, StateRecord

LEMMA AnswerStep ==
  ASSUME TokenInv, NEW t \in Task, RefreshAnswer(t)
  PROVE  TokenInv'
  BY AnswerGoesOn, AnswerReturns, Zenon

LEMMA NextTokenInv ==
  ASSUME TokenInv, [Next]_vars
  PROVE  TokenInv'
  <1>1. ASSUME NEW t \in Task, get_valid_token(t) \/ login(t) \/ logout(t) \/ WriteLock(t) \/ Cancel(t)
        PROVE  TokenInv'
    BY <1>1, GetStep, LoginStep, LogoutStep, WriteLockStep, CancelStep, Zenon
  <1>2. ASSUME NEW t \in Task, Step(t)
        PROVE  TokenInv'
    BY <1>2, AcquireStep, TimeoutStep, LoadStep, RedeemStep, AnswerStep, DeleteStep, FetchStep,
       StoreStep, FailStep, Zenon DEF Step
  <1>3. ASSUME NEW d \in detached, DetachedLands(d)
        PROVE  TokenInv'
    BY <1>3, LandsStep, Zenon
  <1>4. ASSUME NEW p \in Process, Crash(p)
        PROVE  TokenInv'
    BY <1>4, CrashStep, Zenon
  <1> QED BY <1>1, <1>2, <1>3, <1>4, TickStep, StutterStep, Zenon DEF Next

\* The locks, the file, the tasks and the provider's books keep their types in every
\* interleaving, with crashes and dropped futures.
THEOREM TokenTypeCorrect == Spec => []TypeOK
  <1>1. Init => TokenInv
    BY InitTokenInv, Zenon
  <1>2. TokenInv /\ [Next]_vars => TokenInv'
    BY NextTokenInv, Zenon
  <1>3. TokenInv => TypeOK
    BY Parts, Zenon
  <1> QED BY <1>1, <1>2, <1>3, PTL DEF Spec

\* The write lock of a process and the lock file between processes serialize the
\* rotation: nobody presents a refresh token that was redeemed before, unless the
\* answer to that earlier request was lost with its caller.
THEOREM RotationIsSerialized == Spec => []RotationSerialized
  <1>1. Init => TokenInv
    BY InitTokenInv, Zenon
  <1>2. TokenInv /\ [Next]_vars => TokenInv'
    BY NextTokenInv, Zenon
  <1>3. TokenInv => RotationSerialized
    BY Parts, Zenon
  <1> QED BY <1>1, <1>2, <1>3, PTL DEF Spec

\* A session that a login, a rejected refresh or a logout removed from the cache file
\* is not written back, but by a refresh that a logout did not wait for and by a write
\* whose caller was dropped.
THEOREM SessionsStayGone == Spec => []SessionStaysGone
  <1>1. Init => TokenInv
    BY InitTokenInv, Zenon
  <1>2. TokenInv /\ [Next]_vars => TokenInv'
    BY NextTokenInv, Zenon
  <1>3. TokenInv => SessionStaysGone
    BY Parts, Zenon DEF Families
  <1> QED BY <1>1, <1>2, <1>3, PTL DEF Spec

\* get_valid_token looks again once it holds the write lock: tasks that found the
\* token expired together send one request to the provider.
THEOREM OneGrant == Spec => []OneGrantPerExpiry
  <1>1. Init => TokenInv
    BY InitTokenInv, Zenon
  <1>2. TokenInv /\ [Next]_vars => TokenInv'
    BY NextTokenInv, Zenon
  <1>3. TokenInv => OneGrantPerExpiry
    BY Parts, Zenon
  <1> QED BY <1>1, <1>2, <1>3, PTL DEF Spec
================================================================================
