--------------------------- MODULE BackgroundCache ---------------------------
(***************************************************************************)
(* The refresh-ahead cache of utils/background_cache.rs.                   *)
(*                                                                         *)
(* The cache is a mutex around a state (Empty, Current or Refreshing) and  *)
(* a generation counter.  Three kinds of actor take the mutex: callers of  *)
(* get (twice: the fast path, then determine_action), callers of           *)
(* invalidate, and the task that start_fetch spawns to publish the outcome *)
(* of a fetch.  The future of a fetch is shared, so it can resolve (and be *)
(* seen by peek) before the spawned task has had a chance to run; that     *)
(* window is explicit here, as is the one between the moment a fetch reads *)
(* the source and the moment it resolves.                                  *)
(*                                                                         *)
(* A cached value is the version of the source that the fetch read.        *)
(* Variables named in ghostVars exist only to state properties.            *)
(***************************************************************************)
EXTENDS Naturals

CONSTANTS
    TTL,            \* BackgroundCache::ttl
    RefreshWindow,  \* BackgroundCache::refresh_window
    Fetch,          \* identities of fetches (one per call of start_fetch)
    Caller,         \* tasks that call get or try_get
    None,           \* Option::None
    Err,            \* the Err outcome of a fetch
    MaxTime,        \* bound on the clock
    MaxVersion,     \* bound on the versions the source goes through
    MaxGeneration   \* bound on the number of invalidations

\* BackgroundCache::new asserts refresh_window < ttl.
ASSUME DurationAssumption ==
    /\ TTL \in Nat /\ RefreshWindow \in Nat
    /\ RefreshWindow < TTL

ASSUME ValueAssumption ==
    /\ None \notin Nat /\ Err \notin Nat /\ None # Err
    /\ None \notin Fetch /\ None \notin [value: Nat, at: Nat]

ASSUME BoundAssumption ==
    MaxTime \in Nat /\ MaxVersion \in Nat /\ MaxGeneration \in Nat

VARIABLES
    state,       \* CacheInner::state
    generation,  \* CacheInner::generation
    now,         \* clock::now()
    source,      \* the version a fetch that reads now would return
    stage,       \* stage[f]: how far fetch f and its spawned task have come
    fetchGen,    \* fetchGen[f]: the generation captured by start_fetch
    result,      \* result[f]: what the shared future of f resolves to
    call,        \* call[c]: where caller c is inside get
    waitFor,     \* waitFor[c]: the shared future caller c awaits
    ret,         \* ret[c]: what the last call of c returned
    floor,       \* ghost: source at the last invalidation
    asof         \* ghost: asof[c] is floor when the last call of c began

ghostVars == <<floor, asof>>
fetchVars == <<stage, fetchGen, result>>
callVars  == <<call, waitFor, ret, asof>>
vars == <<state, generation, now, source, stage, fetchGen, result,
          call, waitFor, ret, floor, asof>>

-----------------------------------------------------------------------------
(* The cache's state                                                       *)

Entry == [value: Nat, at: Nat]

State == [tag: {"Empty", "Current", "Refreshing"},
          entry: Entry \cup {None},
          future: Fetch \cup {None}]

Empty == [tag |-> "Empty", entry |-> None, future |-> None]

Current(v, t) == [tag    |-> "Current",
                  entry  |-> [value |-> v, at |-> t],
                  future |-> None]

Refreshing(previous, f) ==
    [tag |-> "Refreshing", entry |-> previous, future |-> f]

\* The state that a failed refresh falls back to.
Fallback(previous) == IF previous = None
                      THEN Empty
                      ELSE Current(previous.value, previous.at)

Elapsed(e) == now - e.at

\* State::fresh_value: a cached or previous value outside the refresh window.
IsFresh == /\ state.entry # None
           /\ Elapsed(state.entry) < TTL - RefreshWindow

\* Future::peek on the shared future of f.
Resolved(f) == stage[f] \in {"resolved", "done"}

TypeOK ==
    /\ state \in State
    /\ generation \in Nat /\ now \in Nat /\ source \in Nat
    /\ stage \in [Fetch -> {"unused", "running", "read", "resolved", "done"}]
    /\ fetchGen \in [Fetch -> Nat]
    /\ result \in [Fetch -> Nat \cup {None, Err}]
    /\ call \in [Caller -> {"idle", "slow", "wait"}]
    /\ waitFor \in [Caller -> Fetch \cup {None}]
    /\ ret \in [Caller -> Nat \cup {None, Err}]
    /\ floor \in Nat
    /\ asof \in [Caller -> Nat]

\* No call and no fetch has been made yet.
Untouched ==
    /\ now = 0 /\ generation = 0 /\ floor = 0
    /\ stage = [f \in Fetch |-> "unused"]
    /\ fetchGen = [f \in Fetch |-> 0]
    /\ result = [f \in Fetch |-> None]
    /\ call = [c \in Caller |-> "idle"]
    /\ waitFor = [c \in Caller |-> None]
    /\ ret = [c \in Caller |-> None]
    /\ asof = [c \in Caller |-> 0]

\* A cache starts empty; its users may seed it before they share it.
Init ==
    /\ source = 0
    /\ Untouched
    /\ state \in {Empty, Current(source, now)}

-----------------------------------------------------------------------------
(* Callers                                                                 *)

Return(c, v) ==
    /\ call' = [call EXCEPT ![c] = "idle"]
    /\ waitFor' = [waitFor EXCEPT ![c] = None]
    /\ ret' = [ret EXCEPT ![c] = v]

Wait(c, f) ==
    /\ call' = [call EXCEPT ![c] = "wait"]
    /\ waitFor' = [waitFor EXCEPT ![c] = f]
    /\ UNCHANGED ret

\* try_get: the fresh value if there is one.
TryGet(c) ==
    /\ call[c] = "idle"
    /\ asof' = [asof EXCEPT ![c] = floor]
    /\ Return(c, IF IsFresh THEN state.entry.value ELSE None)
    /\ UNCHANGED <<state, generation, now, source, fetchVars, floor>>

\* get, first critical section: return a fresh value or go on to the second.
GetFast(c) ==
    /\ call[c] = "idle"
    /\ asof' = [asof EXCEPT ![c] = floor]
    /\ IF IsFresh
       THEN Return(c, state.entry.value)
       ELSE /\ call' = [call EXCEPT ![c] = "slow"]
            /\ ret' = [ret EXCEPT ![c] = None]
            /\ UNCHANGED waitFor
    /\ UNCHANGED <<state, generation, now, source, fetchVars, floor>>

\* An identity that denotes no fetch that anyone can still observe.
Free(f) ==
    /\ stage[f] \in {"unused", "done"}
    /\ state.future # f
    /\ \A c \in Caller : waitFor[c] # f

\* start_fetch: fetch f captures the generation, its task is spawned, and the
\* state becomes Refreshing.
StartFetch(f, previous) ==
    /\ Free(f)
    /\ stage' = [stage EXCEPT ![f] = "running"]
    /\ fetchGen' = [fetchGen EXCEPT ![f] = generation]
    /\ result' = [result EXCEPT ![f] = None]
    /\ state' = Refreshing(previous, f)

\* determine_action on a Refreshing state whose future has resolved moves the
\* state on before the spawned task does, and re-evaluates.
Settled ==
    IF state.tag = "Refreshing" /\ Resolved(state.future)
    THEN IF result[state.future] = Err
         THEN Fallback(state.entry)
         ELSE Current(result[state.future], now)
    ELSE state

\* determine_action and the match on the Action it returns.
GetSlow(c) ==
    /\ call[c] = "slow"
    /\ LET s == Settled IN
       \/ /\ s.tag = "Empty"
          /\ \E f \in Fetch : StartFetch(f, None) /\ Wait(c, f)
       \/ /\ s.tag = "Current"
          /\ Elapsed(s.entry) < TTL - RefreshWindow
          /\ state' = s
          /\ Return(c, s.entry.value)
          /\ UNCHANGED fetchVars
       \/ /\ s.tag = "Current"
          /\ Elapsed(s.entry) \in (TTL - RefreshWindow) .. (TTL - 1)
          /\ \E f \in Fetch : StartFetch(f, s.entry)
          /\ Return(c, s.entry.value)
       \/ /\ s.tag = "Current"
          /\ Elapsed(s.entry) >= TTL
          /\ \E f \in Fetch : StartFetch(f, s.entry) /\ Wait(c, f)
       \/ /\ s.tag = "Refreshing"
          /\ state' = s
          /\ IF s.entry # None /\ Elapsed(s.entry) < TTL
             THEN Return(c, s.entry.value)
             ELSE Wait(c, s.future)
          /\ UNCHANGED fetchVars
    /\ UNCHANGED <<generation, now, source, floor, asof>>

\* Faulty variant: a failed fetch is tried again.
GetDoneRetries(c) ==
    /\ call[c] = "wait"
    /\ Resolved(waitFor[c])
    /\ IF result[waitFor[c]] = Err
       THEN /\ call' = [call EXCEPT ![c] = "slow"]
            /\ waitFor' = [waitFor EXCEPT ![c] = None]
            /\ UNCHANGED ret
       ELSE Return(c, result[waitFor[c]])
    /\ UNCHANGED <<state, generation, now, source, fetchVars, floor, asof>>

\* Action::Wait(fut) => fut.await.
GetDone(c) ==
    /\ call[c] = "wait"
    /\ Resolved(waitFor[c])
    /\ Return(c, result[waitFor[c]])
    /\ UNCHANGED <<state, generation, now, source, fetchVars, floor, asof>>

\* Faulty variant: the generation advances but the state survives.
InvalidateKeepsState ==
    /\ generation < MaxGeneration
    /\ generation' = generation + 1
    /\ floor' = source
    /\ UNCHANGED <<state, now, source, fetchVars, callVars>>

Invalidate ==
    /\ generation < MaxGeneration
    /\ state' = Empty
    /\ generation' = generation + 1
    /\ floor' = source
    /\ UNCHANGED <<now, source, fetchVars, callVars>>

-----------------------------------------------------------------------------
(* Fetches                                                                 *)

\* The fetch closure reads the source...
FetchRead(f) ==
    /\ stage[f] = "running"
    /\ stage' = [stage EXCEPT ![f] = "read"]
    /\ result' = [result EXCEPT ![f] = source]
    /\ UNCHANGED <<state, generation, now, source, fetchGen, callVars, floor>>

\* ... and the shared future resolves, possibly to an error.
FetchResolve(f) ==
    /\ stage[f] = "read"
    /\ stage' = [stage EXCEPT ![f] = "resolved"]
    /\ result' \in {result, [result EXCEPT ![f] = Err]}
    /\ UNCHANGED <<state, generation, now, source, fetchGen, callVars, floor>>

\* Faulty variant: the generation is not compared.
PublishIgnoresGeneration(f) ==
    /\ stage[f] = "resolved"
    /\ stage' = [stage EXCEPT ![f] = "done"]
    /\ state' = IF result[f] # Err THEN Current(result[f], now)
                ELSE IF state.tag = "Refreshing" THEN Fallback(state.entry)
                ELSE Empty
    /\ UNCHANGED <<generation, now, source, fetchGen, result, callVars, floor>>

\* The task that start_fetch spawned publishes the outcome.
Publish(f) ==
    /\ stage[f] = "resolved"
    /\ stage' = [stage EXCEPT ![f] = "done"]
    /\ state' = IF generation # fetchGen[f] THEN state
                ELSE IF result[f] # Err THEN Current(result[f], now)
                ELSE IF state.tag = "Refreshing" THEN Fallback(state.entry)
                ELSE Empty
    /\ UNCHANGED <<generation, now, source, fetchGen, result, callVars, floor>>

-----------------------------------------------------------------------------
(* The environment: the clock advances, the source gets new versions.      *)

Tick ==
    /\ now < MaxTime
    /\ now' = now + 1
    /\ UNCHANGED <<state, generation, source, fetchVars, callVars, floor>>

SourceWrite ==
    /\ source < MaxVersion
    /\ source' = source + 1
    /\ UNCHANGED <<state, generation, now, fetchVars, callVars, floor>>

Next ==
    \/ \E c \in Caller : TryGet(c) \/ GetFast(c) \/ GetSlow(c) \/ GetDone(c)
    \/ \E f \in Fetch : FetchRead(f) \/ FetchResolve(f) \/ Publish(f)
    \/ Invalidate \/ Tick \/ SourceWrite

Spec == Init /\ [][Next]_vars

-----------------------------------------------------------------------------
(* Properties                                                              *)

\* What invalidate promises: a value the cache holds (the current one, or the
\* previous one of a refresh) was read from the source no earlier than the last
\* invalidation, whatever fetches were in flight at that moment.
NoStaleWrite ==
    state.entry # None => state.entry.value >= floor

\* The same promise seen by a caller: a get (or try_get) that began after an
\* invalidation never returns what the source held before that invalidation,
\* whether it is served from the cache or joins a fetch it did not start.
NoStaleReturn ==
    \A c \in Caller : call[c] = "idle" /\ ret[c] \in Nat => ret[c] >= asof[c]

-----------------------------------------------------------------------------
(* The inductive invariant behind NoStaleWrite and NoStaleReturn.          *)

\* Each state carries exactly what its variant carries, and the future of a
\* refresh was started in the current generation: invalidate drops it.
StateShape ==
    /\ state.tag = "Empty" => state = Empty
    /\ state.tag = "Current" => state.entry # None /\ state.future = None
    /\ state.tag = "Refreshing" =>
          /\ state.future \in Fetch
          /\ stage[state.future] # "unused"
          /\ fetchGen[state.future] = generation

FetchShape ==
    \A f \in Fetch :
        /\ fetchGen[f] <= generation
        /\ stage[f] \in {"read", "resolved", "done"} => result[f] # None

\* A fetch of the current generation read the source after the invalidation
\* that began it.
FetchNotStale ==
    \A f \in Fetch :
        fetchGen[f] = generation /\ result[f] \in Nat => result[f] >= floor

\* The fetch a caller waits for reads (or has read) the source no earlier than
\* the last invalidation before the call.
WaitNotStale ==
    \A c \in Caller :
        /\ call[c] # "wait" => waitFor[c] = None
        /\ call[c] = "wait" =>
              /\ waitFor[c] \in Fetch
              /\ stage[waitFor[c]] # "unused"
              /\ result[waitFor[c]] \in Nat => result[waitFor[c]] >= asof[c]

FloorBounds ==
    /\ floor <= source
    /\ \A c \in Caller : asof[c] <= floor

IInv ==
    /\ TypeOK
    /\ StateShape /\ FetchShape /\ FetchNotStale /\ WaitNotStale /\ FloorBounds
    /\ NoStaleWrite /\ NoStaleReturn

-----------------------------------------------------------------------------
(* Claims of the documentation, and liveness.                              *)

\* A failed refresh preserves a cached value that has not expired.
ErrorPreservesCache ==
    [][\A f \in Fetch :
          /\ Publish(f) /\ result[f] = Err
          /\ state.entry # None /\ Elapsed(state.entry) < TTL
          => state'.entry = state.entry]_vars

\* The runtime keeps polling the tasks it spawned and the callers that wait,
\* and a fetch (a read of storage or of the server) ends, well or badly.  In the
\* code the second critical section of get is never blocked; here it can lack a
\* free fetch identity while others hold them all, hence strong fairness.
Fairness ==
    /\ \A f \in Fetch : WF_vars(FetchRead(f) \/ FetchResolve(f) \/ Publish(f))
    /\ \A c \in Caller : SF_vars(GetSlow(c) \/ GetDone(c))

FairSpec == Spec /\ Fairness

\* Every get returns: no order of resolution, peek, publication, invalidation
\* and expiry leaves a caller waiting for a fetch that nobody drives.
GetReturns ==
    \A c \in Caller : call[c] # "idle" ~> call[c] = "idle"
=============================================================================
