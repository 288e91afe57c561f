------------------------------ MODULE OAuthTokens ------------------------------
(***************************************************************************)
(* The token lifecycle of remote connections: OAuthHeaderProvider          *)
(* (remote/oauth.rs) keeps an access token per process behind a RwLock;    *)
(* TokenCache and OAuthSession (remote/token_cache.rs) share one refresh   *)
(* token between processes in a file, guarded by an advisory file lock.    *)
(*                                                                         *)
(* Every await is a step boundary, and at every await the caller may drop  *)
(* the future: guards are released at once, while a blocking file          *)
(* operation that was already handed to a thread still takes effect.       *)
(* Processes crash.  The identity provider is external: it rotates a       *)
(* refresh token when it is redeemed and rejects one redeemed before.      *)
(* A login begins a family of refresh tokens; the family is named by its   *)
(* first token.  Token 0 stands for None.                                  *)
(***************************************************************************)
EXTENDS Naturals

CONSTANTS
    Process, Task,
    ProcessOf,   \* ProcessOf[t]: the process that task t runs in
    Config,      \* the configurations of the processes considered
    Lifetime,    \* the values of expires_in
    Buffer,      \* refresh_buffer
    MaxToken,    \* bound on the refresh tokens issued
    MaxClock,    \* bound on time
    MaxOps       \* bound on the operations started

ASSUME TokenAssumption ==
    /\ ProcessOf \in [Task -> Process]
    /\ Config \subseteq [Process -> {"cache", "memory", "machine"}]
    /\ Lifetime \subseteq Nat /\ Buffer \in Nat
    /\ MaxToken \in Nat \ {0} /\ MaxClock \in Nat /\ MaxOps \in Nat
    /\ "none" \notin Task

VARIABLES
    conf,      \* conf[p]: "cache", "memory", or "machine" (a source without refresh)
    now,
    state,     \* state[p]: TokenState
    writeLock, \* writeLock[p]: the task that holds token_state for writing
    record,    \* the refresh token in the cache file
    fileLock,  \* the task that holds the lock file
    task,      \* task[t]: program counter and locals
    detached,  \* file operations whose caller is gone
    minted, family, redeemed,  \* the provider's books
    ops,
    lost,      \* ghost: tokens redeemed by a caller that never stored the answer
    gone       \* ghost: families that have left the file for good

providerVars == <<minted, family, redeemed>>
vars == <<conf, now, state, writeLock, record, fileLock, task, detached,
          minted, family, redeemed, ops, lost, gone>>

NoTask   == "none"
Token    == 1 .. MaxToken
NoAnswer == [kind |-> "none", refresh |-> 0, life |-> 0]
Idle     == [pc |-> "idle", op |-> "none", token |-> 0, answer |-> NoAnswer]

PCs == {"idle", "write_lock", "lock", "load", "refresh", "answer", "delete",
        "fetch", "store_lock", "store"}

Answer == [kind : {"none", "refreshed", "reauthenticate", "unsupported"},
           refresh : 0 .. MaxToken, life : {0} \cup Lifetime]

\* The expiry times a process can hold: none, or a grant received so far.
Expiry == {0} \cup {n + l : n \in 0 .. now, l \in Lifetime}

TypeOK ==
    /\ conf \in Config
    /\ now \in 0 .. MaxClock
    /\ \A p \in Process : /\ state[p].access \in BOOLEAN
                          /\ state[p].refresh \in 0 .. MaxToken
                          /\ state[p].expires_at \in Expiry
    /\ writeLock \in [Process -> Task \cup {NoTask}]
    /\ record \in 0 .. MaxToken /\ fileLock \in Task \cup {NoTask}
    /\ task \in [Task -> [pc : PCs, op : {"none", "get", "login"},
                          token : 0 .. MaxToken, answer : Answer]]
    /\ detached \subseteq [process : Process, token : 0 .. MaxToken]
    /\ minted \in 0 .. MaxToken /\ family \in [Token -> 0 .. MaxToken]
    /\ redeemed \subseteq 1 .. minted
    /\ ops \in 0 .. MaxOps
    /\ lost \subseteq redeemed /\ gone \subseteq Token

NewState == [access |-> FALSE, refresh |-> 0, expires_at |-> 0]

\* The file is empty or holds the session of an earlier login.
Init ==
    /\ conf \in Config
    /\ now = 0
    /\ state = [p \in Process |-> NewState]
    /\ writeLock = [p \in Process |-> NoTask]
    /\ record \in {0, 1} /\ fileLock = NoTask
    /\ task = [t \in Task |-> Idle]
    /\ detached = {}
    /\ minted = record /\ family = [k \in Token |-> IF k <= minted THEN k ELSE 0]
    /\ redeemed = {}
    /\ ops = 0 /\ lost = {} /\ gone = {}

-----------------------------------------------------------------------------
(* TokenState                                                              *)

is_expired(p) == ~state[p].access \/ now + Buffer >= state[p].expires_at

\* Faulty variant: the lifetime is added to the old expiry.
UpdatedFromExpiry(s, a) == [access |-> TRUE,
                            refresh |-> IF a.refresh # 0 THEN a.refresh ELSE s.refresh,
                            expires_at |-> s.expires_at + a.life]

\* update: a response without a refresh token keeps the one held.
Updated(s, a) == [access |-> TRUE,
                  refresh |-> IF a.refresh # 0 THEN a.refresh ELSE s.refresh,
                  expires_at |-> now + a.life]

-----------------------------------------------------------------------------
(* Tasks                                                                   *)

At(t, l)   == task[t].pc = l
Goto(t, l) == task' = [task EXCEPT ![t].pc = l]
Cached(p)  == conf[p] = "cache"

\* The locks without the ones the tasks in ts hold: their guards are dropped.
Released(ts) ==
    /\ writeLock' = [p \in Process |-> IF writeLock[p] \in ts THEN NoTask ELSE writeLock[p]]
    /\ fileLock' = IF fileLock \in ts THEN NoTask ELSE fileLock

Ended(ts) == task' = [t \in Task |-> IF t \in ts THEN Idle ELSE task[t]]

\* The tokens that tasks in ts have redeemed and will now never store.
Unstored(ts) == {task[t].token : t \in {u \in ts : task[u].pc \in {"answer", "store"}}}
                  \cap redeemed

\* Someone is still going to write a token of family f to the file.
Detached(f)   == \E d \in detached : d.token # 0 /\ family[d.token] = f
Refreshing(f) == \E t \in Task : /\ task[t].pc \in {"refresh", "answer", "store"}
                                 /\ Cached(ProcessOf[t])
                                 /\ task[t].token # 0 /\ family[task[t].token] = f

\* The file comes to hold k; restored says that the old family is still to be written.
Replace(k, restored) ==
    /\ record' = k
    /\ gone' = IF /\ record # 0 /\ (k = 0 \/ family[k] # family[record])
                  /\ ~restored
               THEN gone \cup {family[record]} ELSE gone

-----------------------------------------------------------------------------
(* OAuthHeaderProvider                                                     *)

\* The fast path under the read lock; a valid token is returned at once.
get_valid_token(t) ==
    /\ At(t, "idle") /\ ops < MaxOps
    /\ ops' = ops + 1
    /\ task' = IF is_expired(ProcessOf[t])
               THEN [task EXCEPT ![t] = [Idle EXCEPT !.pc = "write_lock", !.op = "get"]]
               ELSE task
    /\ UNCHANGED <<conf, now, state, writeLock, record, fileLock, detached, providerVars, lost, gone>>


\* The slow path: check again, then use the shared session, the token in memory,
\* or a new grant.
WriteLock(t) ==
    LET p == ProcessOf[t] IN
    /\ At(t, "write_lock") /\ writeLock[p] = NoTask
    /\ \/ /\ ~is_expired(p)
          /\ Ended({t})
          /\ UNCHANGED writeLock
       \/ /\ is_expired(p)
          /\ writeLock' = [writeLock EXCEPT ![p] = t]
          /\ task' = [task EXCEPT
                       ![t].pc = IF Cached(p) THEN "lock"
                                 ELSE IF state[p].refresh # 0 THEN "refresh" ELSE "fetch",
                       ![t].token = IF Cached(p) THEN 0 ELSE state[p].refresh]
    /\ UNCHANGED <<conf, now, state, record, fileLock, detached, providerVars, ops, lost, gone>>

\* The answer a reaches its caller: state.update, and both guards are dropped.
Return(t, a) ==
    /\ Released({t})
    /\ Ended({t})
    /\ state' = IF task[t].op = "get"
                THEN [state EXCEPT ![ProcessOf[t]] = Updated(@, a)] ELSE state

-----------------------------------------------------------------------------
(* TokenCache: refresh_or_acquire and store_login_response                 *)

acquire_lock(t) ==
    /\ task[t].pc \in {"lock", "store_lock"} /\ fileLock = NoTask
    /\ fileLock' = t
    /\ Goto(t, IF At(t, "lock") THEN "load" ELSE "store")
    /\ UNCHANGED <<conf, now, state, writeLock, record, detached, providerVars, ops, lost, gone>>

\* The deadline passes while another process holds the lock.
LockTimeout(t) ==
    /\ task[t].pc \in {"lock", "store_lock"} /\ fileLock # NoTask
    /\ Released({t}) /\ Ended({t})
    /\ UNCHANGED <<conf, now, state, record, detached, providerVars, ops, lost, gone>>

\* Faulty variant: the guard is dropped as soon as the record has been read.
load_unguarded(t) ==
    /\ At(t, "load")
    /\ IF record # 0
       THEN task' = [task EXCEPT ![t].pc = "refresh", ![t].token = record]
       ELSE Goto(t, "fetch")
    /\ fileLock' = NoTask
    /\ UNCHANGED <<conf, now, state, writeLock, record, detached, providerVars, ops, lost, gone>>

\* Without a record the guard's block ends and an interactive flow begins.
load(t) ==
    /\ At(t, "load")
    /\ IF record # 0
       THEN /\ task' = [task EXCEPT ![t].pc = "refresh", ![t].token = record]
            /\ UNCHANGED fileLock
       ELSE Goto(t, "fetch") /\ fileLock' = NoTask
    /\ UNCHANGED <<conf, now, state, writeLock, record, detached, providerVars, ops, lost, gone>>

\* The refresh request came back.
RefreshAnswer(t) ==
    LET p == ProcessOf[t]
        a == task[t].answer IN
    /\ At(t, "answer")
    /\ \/ /\ a.kind = "refreshed"
          /\ IF Cached(p) /\ a.refresh # 0
             THEN Goto(t, "store") /\ UNCHANGED <<state, writeLock, fileLock>>
             ELSE Return(t, a)
       \/ /\ a.kind = "reauthenticate"
          /\ Goto(t, IF Cached(p) THEN "delete" ELSE "fetch")
          /\ state' = IF Cached(p) THEN state ELSE [state EXCEPT ![p].refresh = 0]
          /\ UNCHANGED <<writeLock, fileLock>>
       \/ /\ a.kind = "unsupported"
          /\ Goto(t, "fetch")
          /\ UNCHANGED <<state, writeLock, fileLock>>
    /\ UNCHANGED <<conf, now, record, detached, providerVars, ops, lost, gone>>

\* A rejected session is removed under the lock, then the flow runs without it.
delete(t) ==
    /\ At(t, "delete")
    /\ Replace(0, Detached(family[record]))
    /\ task' = [task EXCEPT ![t].pc = "fetch", ![t].token = 0]
    /\ fileLock' = NoTask
    /\ UNCHANGED <<conf, now, state, writeLock, detached, providerVars, ops, lost>>

\* store, store_if_refreshable and store_login_response: rename replaces the record;
\* a login without a refresh token removes it.
store(t) ==
    LET a == task[t].answer IN
    /\ At(t, "store")
    /\ IF a.refresh # 0 \/ task[t].op = "login"
       THEN Replace(a.refresh, Detached(family[record]))
       ELSE UNCHANGED <<record, gone>>
    /\ Return(t, a)
    /\ UNCHANGED <<conf, now, detached, providerVars, ops, lost>>

-----------------------------------------------------------------------------
(* The provider (external)                                                 *)

Reply(t, a) == task' = [task EXCEPT ![t].pc = "answer", ![t].answer = a]

\* The answer to a refresh grant: rotated, not rotated, or rejected.
Redeem(t) ==
    LET k == task[t].token IN
    /\ At(t, "refresh")
    /\ \/ /\ conf[ProcessOf[t]] # "machine" /\ k \notin redeemed
          /\ \E l \in Lifetime :
             \/ /\ minted < MaxToken
                /\ minted' = minted + 1
                /\ family' = [family EXCEPT ![minted + 1] = family[k]]
                /\ redeemed' = redeemed \cup {k}
                /\ Reply(t, [kind |-> "refreshed", refresh |-> minted + 1, life |-> l])
             \/ /\ Reply(t, [kind |-> "refreshed", refresh |-> 0, life |-> l])
                /\ UNCHANGED providerVars
       \/ /\ conf[ProcessOf[t]] # "machine"
          /\ Reply(t, [NoAnswer EXCEPT !.kind = "reauthenticate"])
          /\ UNCHANGED providerVars
       \/ /\ conf[ProcessOf[t]] = "machine"
          /\ Reply(t, [NoAnswer EXCEPT !.kind = "unsupported"])
          /\ UNCHANGED providerVars
    /\ UNCHANGED <<conf, now, state, writeLock, record, fileLock, detached, ops, lost, gone>>

\* Faulty variant: the new session is stored without the lock.
FetchedUnlocked(t, a) ==
    IF Cached(ProcessOf[t]) \/ task[t].op = "login"
    THEN /\ task' = [task EXCEPT ![t].pc = "store", ![t].answer = a]
         /\ UNCHANGED <<state, writeLock, fileLock>>
    ELSE Return(t, a)

\* What a new session goes on to: the file if there is one.
Fetched(t, a) ==
    IF Cached(ProcessOf[t]) \/ task[t].op = "login"
    THEN /\ task' = [task EXCEPT ![t].pc = "store_lock", ![t].answer = a]
         /\ UNCHANGED <<state, writeLock, fileLock>>
    ELSE Return(t, a)

\* A flow succeeds (OAuthFlow): a new family, or a session without a refresh token.
fetch_token(t) ==
    /\ At(t, "fetch")
    /\ \E l \in Lifetime, k \in {0, minted + 1} :
       /\ k <= MaxToken
       /\ Fetched(t, [kind |-> "refreshed", refresh |-> k, life |-> l])
       /\ IF k = 0 THEN UNCHANGED <<minted, family>>
          ELSE minted' = k /\ family' = [family EXCEPT ![k] = k]
    /\ UNCHANGED <<conf, now, record, detached, redeemed, ops, lost, gone>>

-----------------------------------------------------------------------------
(* OAuthSession                                                            *)

login(t) ==
    /\ At(t, "idle") /\ Cached(ProcessOf[t]) /\ ops < MaxOps
    /\ ops' = ops + 1
    /\ task' = [task EXCEPT ![t] = [Idle EXCEPT !.pc = "fetch", !.op = "login"]]
    /\ UNCHANGED <<conf, now, state, writeLock, record, fileLock, detached, providerVars, lost, gone>>

\* logout takes no lock: a refresh in progress writes the session back.
logout(t) ==
    /\ At(t, "idle") /\ Cached(ProcessOf[t]) /\ ops < MaxOps
    /\ ops' = ops + 1
    /\ Replace(0, Detached(family[record]) \/ Refreshing(family[record]))
    /\ UNCHANGED <<conf, now, state, writeLock, fileLock, task, detached, providerVars, lost>>

-----------------------------------------------------------------------------
(* Errors, dropped futures, crashes, time                                  *)

Awaiting == {"load", "refresh", "answer", "delete", "fetch", "store"}

\* A file operation, the request or the flow fails: `?` returns the error.
Fail(t) ==
    /\ task[t].pc \in Awaiting
    /\ Released({t}) /\ Ended({t})
    /\ lost' = lost \cup Unstored({t})
    /\ UNCHANGED <<conf, now, state, record, detached, providerVars, ops, gone>>

\* The caller drops the future while a file operation runs: the guards go, the
\* operation stays with its thread.
Cancel(t) ==
    /\ task[t].pc \in {"store", "delete"}
    /\ Released({t}) /\ Ended({t})
    /\ detached' = detached \cup
         {[process |-> ProcessOf[t],
           token |-> IF At(t, "store") THEN task[t].answer.refresh ELSE 0]}
    /\ lost' = lost \cup Unstored({t})
    /\ UNCHANGED <<conf, now, state, record, providerVars, ops, gone>>

DetachedLands(d) ==
    /\ detached' = detached \ {d}
    /\ Replace(d.token, \/ Refreshing(family[record])
                        \/ \E e \in detached \ {d} : /\ e.token # 0
                                                     /\ family[e.token] = family[record])
    /\ UNCHANGED <<conf, now, state, writeLock, fileLock, task, providerVars, ops, lost>>

\* The operating system releases the lock file; what was in memory is lost.
Crash(p) ==
    LET ts == {t \in Task : ProcessOf[t] = p} IN
    /\ state[p] # NewState \/ \E t \in ts : ~At(t, "idle")
    /\ ops < MaxOps /\ ops' = ops + 1
    /\ Released(ts) /\ Ended(ts)
    /\ state' = [state EXCEPT ![p] = NewState]
    /\ detached' = {d \in detached : d.process # p}
    /\ lost' = lost \cup Unstored(ts)
    /\ UNCHANGED <<conf, now, record, providerVars, gone>>

Tick ==
    /\ now < MaxClock /\ now' = now + 1
    /\ UNCHANGED <<conf, state, writeLock, record, fileLock, task, detached, providerVars,
                   ops, lost, gone>>

Step(t) ==
    \/ acquire_lock(t) \/ LockTimeout(t) \/ load(t) \/ Redeem(t)
    \/ RefreshAnswer(t) \/ delete(t) \/ fetch_token(t) \/ store(t) \/ Fail(t)

Next ==
    \/ \E t \in Task : \/ get_valid_token(t) \/ login(t) \/ logout(t)
                       \/ WriteLock(t) \/ Step(t) \/ Cancel(t)
    \/ \E d \in detached : DetachedLands(d)
    \/ \E p \in Process : Crash(p)
    \/ Tick

Spec == Init /\ [][Next]_vars

\* Requests have timeouts, flows have deadlines (OAuthFlow) and so has the wait for
\* the file lock: as long as a task can go on, some task does.
Fairness == WF_vars(\E t \in Task : WriteLock(t) \/ Step(t))

FairSpec == Spec /\ Fairness

-----------------------------------------------------------------------------
(* Properties                                                              *)

\* Refresh-token rotation is serialized across tasks and processes: no one presents
\* a refresh token that was already redeemed, unless the answer to that earlier grant
\* was lost to a crash, an error or a dropped future.
RotationSerialized ==
    \A t \in Task : At(t, "refresh") /\ task[t].token \in redeemed => task[t].token \in lost

\* A session that has left the cache file does not come back: a login, a rejected
\* refresh and a logout are final, except for a refresh that a logout did not wait
\* for and for writes whose caller was dropped.
SessionStaysGone == record # 0 => family[record] \notin gone

\* Tasks that find the token expired together cause one grant: nobody asks the
\* provider while the process holds a token that is still valid.
OneGrantPerExpiry ==
    \A t \in Task : task[t].op = "get" /\ task[t].pc \notin {"idle", "write_lock"}
                      => is_expired(ProcessOf[t])

\* Every get_valid_token and login comes to an end, whatever crashes or is dropped,
\* even while another process holds the file lock.
OperationsEnd == \A t \in Task : ~At(t, "idle") ~> At(t, "idle")

-----------------------------------------------------------------------------
(* The inductive invariant behind RotationSerialized, SessionStaysGone and *)
(* OneGrantPerExpiry.                                                      *)

\* The refresh token that the next refresh of process p starts from, and whether
\* two processes start from the same place.
Held(p)         == IF Cached(p) THEN record ELSE state[p].refresh
SameStore(p, q) == p = q \/ (Cached(p) /\ Cached(q))

\* Where a task holds the lock file, if its process shares its session.
FileGuarded == {"load", "refresh", "answer", "delete", "store"}

\* What the code between two awaits relies on.
TaskInv(t) ==
    LET v == task[t]
        p == ProcessOf[t]
    IN  /\ v.pc = "idle" <=> v.op = "none"
        /\ v.pc \in {"idle", "write_lock"} => v.token = 0
        /\ v.pc \in {"refresh", "answer"} => v.token # 0
        /\ v.op = "login" => v.pc \in {"fetch", "store_lock", "store"} /\ Cached(p)
        /\ v.pc \in {"lock", "load", "delete", "store_lock", "store"} => Cached(p)
        /\ v.op = "get" /\ v.pc # "write_lock" => writeLock[p] = t
        /\ v.pc \in FileGuarded /\ Cached(p) => fileLock = t
        /\ v.pc \in {"lock", "load", "fetch", "store_lock"} /\ Cached(p) => v.token = 0
        /\ v.pc \in {"store_lock", "store"} => v.answer.kind = "refreshed"
        /\ v.pc = "store" /\ v.token # 0 => v.answer.refresh # 0
        /\ v.answer.kind = "refreshed" => v.answer.life \in Lifetime
        /\ v.answer.kind = "unsupported" => conf[p] = "machine"
        /\ v.answer.refresh # 0 =>
             v.answer.kind = "refreshed" /\ v.pc \in {"answer", "store_lock", "store"}

\* k is a token that the provider has sent and nobody has stored yet: no one else
\* knows it, and it was not redeemed.
Unseen(k) ==
    /\ k \notin redeemed /\ k # record
    /\ \A p \in Process : state[p].refresh # k
    /\ \A t \in Task : task[t].token # k

Pending ==
    /\ \A t \in Task : task[t].answer.refresh # 0 => Unseen(task[t].answer.refresh)
    /\ \A d \in detached : d.token # 0 => Unseen(d.token)
    /\ \A t, u \in Task : t # u /\ task[t].answer.refresh # 0
                            => task[t].answer.refresh # task[u].answer.refresh
    /\ \A t \in Task, d \in detached : d.token # 0 => task[t].answer.refresh # d.token
    /\ \A d, e \in detached : d # e /\ d.token # 0 => d.token # e.token

\* Two tasks or processes that know one token share the place it comes from.
Separated ==
    /\ \A p, q \in Process : Held(p) # 0 /\ Held(p) = Held(q) => SameStore(p, q)
    /\ \A t \in Task, p \in Process :
          task[t].token # 0 /\ task[t].token = Held(p) => SameStore(ProcessOf[t], p)
    /\ \A t, u \in Task :
          task[t].token # 0 /\ task[t].token = task[u].token
             => SameStore(ProcessOf[t], ProcessOf[u])

\* A redeemed token is still where refreshes start from only while the task that
\* redeemed it is about to replace it, or after that task was lost.
Spent ==
    \A p \in Process : Held(p) \in redeemed \ lost =>
        \E t \in Task : /\ SameStore(ProcessOf[t], p) /\ task[t].pc \in {"answer", "store"}
                        /\ task[t].token = Held(p) /\ task[t].answer.refresh # 0

\* The provider issued every token in use, and every family by one of its tokens.
Issued ==
    /\ record <= minted /\ \A p \in Process : state[p].refresh <= minted
    /\ \A t \in Task : task[t].token <= minted /\ task[t].answer.refresh <= minted
    /\ \A d \in detached : d.token <= minted
    /\ gone \subseteq 1 .. minted
    /\ \A k \in 1 .. minted : family[k] \in 1 .. minted

\* What is still going to be written belongs to no family that is gone: what a
\* refresh brings belongs to the family it refreshes, what a new grant brings
\* begins a family of which nothing else is known.
Families ==
    /\ SessionStaysGone
    /\ \A d \in detached : d.token # 0 => family[d.token] \notin gone
    /\ \A t \in Task : Cached(ProcessOf[t]) /\ task[t].token # 0
                          /\ task[t].pc \in {"refresh", "answer", "store"}
          => /\ family[task[t].token] \notin gone
             /\ task[t].answer.refresh # 0 =>
                  family[task[t].answer.refresh] = family[task[t].token]
    /\ \A t \in Task : LET k == task[t].answer.refresh IN
          k # 0 /\ task[t].pc \in {"store_lock", "store"} /\ task[t].token = 0
          => /\ family[k] = k /\ k \notin gone
             /\ \A j \in 1 .. minted : family[j] = k => j = k

TokenInv ==
    /\ TypeOK
    /\ state \in [Process -> [access : BOOLEAN, refresh : 0 .. MaxToken, expires_at : Nat]]
    /\ \A t \in Task : TaskInv(t)
    /\ Pending /\ Separated /\ Spent /\ Issued /\ Families
    /\ RotationSerialized /\ OneGrantPerExpiry
=============================================================================
