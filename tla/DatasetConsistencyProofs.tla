---------------------- MODULE DatasetConsistencyProofs ----------------------
(***************************************************************************)
(* The handle of DatasetConsistency implements TableHandle, and no read    *)
(* through it is stale, for every number of tasks, every consistency mode  *)
(* and every cache timing.                                                 *)
(***************************************************************************)
EXTENDS DatasetConsistency, TLAPS

\* The proofs about the cache, for the cache of this handle.
CacheProofs == INSTANCE BackgroundCacheProofs WITH source <- latest, Caller <- Task

LEMMA InitHandleInv == Init => HandleInv
  BY OptionAssumption, SMTT(30) DEF Init, HandleInv, Locations, Storing, Cache!Untouched

\* Moving a task, with a committed version where it will store one.
LEMMA CarryStep ==
  ASSUME HandleInv, NEW t \in Task, NEW l \in Locations, NEW v,
         l \in Storing => v \in 0 .. latest',
         latest' \in Nat, latest' >= latest,
         Carry(t, l, v)
  PROVE  /\ pc' \in [Task -> Locations]
         /\ val' = [x \in Task |-> val'[x]]
         /\ \A x \in Task : pc'[x] \in Storing => val'[x] \in 0 .. latest'
  <1>1. "idle" \notin Storing
    BY Zenon DEF Storing
  <1> QED BY <1>1, SMTT(30) DEF HandleInv, Carry

\* A step that leaves the fetches of the cache alone.
LEMMA FetchesStay ==
  ASSUME HandleInv, UNCHANGED <<stage, result>>, latest' \in Nat, latest' >= latest
  PROVE  /\ stage' = [f \in Fetch |-> stage'[f]]
         /\ result' \in [Fetch -> Nat \cup {None, Err}]
         /\ \A f \in Fetch : stage'[f] = "read" => result'[f] \in 0 .. latest'
  BY SMTT(30) DEF HandleInv

\* The steps of a task that move only the task.
LEMMA QuietSteps ==
  ASSUME HandleInv, NEW t \in Task,
         \/ Get(t) \/ GetLazy(t) \/ RefreshRead(t) \/ EndGet(t) \/ Sample(t)
         \/ AsLatest(t) \/ AsLatestRead(t) \/ Reload(t) \/ StorageError(t)
  PROVE  HandleInv' /\ UNCHANGED <<latest, dataset, pinned>>
  <1> USE DEF handleVars, cacheVars
  <1>1. UNCHANGED <<latest, mode, dataset, pinned, stage, result>>
    BY Zenon DEF Get, GetLazy, RefreshRead, EndGet, Sample, AsLatest, AsLatestRead, Reload,
           StorageError
  <1>2. \E l \in Locations : \E v : /\ l \in Storing => v \in 0 .. latest
                                   /\ Carry(t, l, v)
    <2> USE DEF Goto, Locations, Storing, HandleInv
    <2>1. CASE Get(t)
      BY <2>1, Zenon DEF Get, Modes
    <2>2. CASE GetLazy(t) \/ RefreshRead(t) \/ EndGet(t) \/ Sample(t) \/ AsLatestRead(t)
      BY <2>2, SMTT(30) DEF GetLazy, RefreshRead, EndGet, Sample, AsLatestRead
    <2>3. CASE AsLatest(t)
      BY <2>3, Zenon DEF AsLatest, AfterAsLatest
    <2>4. CASE Reload(t)
      BY <2>4, Zenon DEF Reload
    <2>5. CASE StorageError(t)
      BY <2>5, Zenon DEF StorageError
    <2> QED BY <2>1, <2>2, <2>3, <2>4, <2>5, Zenon
  <1>3. latest' \in Nat /\ latest' >= latest
    BY <1>1, SMTT(30) DEF HandleInv
  <1>4. /\ pc' \in [Task -> Locations]
        /\ val' = [x \in Task |-> val'[x]]
        /\ \A x \in Task : pc'[x] \in Storing => val'[x] \in 0 .. latest'
    BY <1>1, <1>2, <1>3, CarryStep, Zenon
  <1> QED BY <1>1, <1>3, <1>4, FetchesStay, Zenon DEF HandleInv

\* The steps of the cache: a fetch in flight read a committed version.
LEMMA CacheFetches ==
  ASSUME HandleInv, UNCHANGED latest,
         \/ \E t \in Task : \/ Cache!TryGet(t) \/ Cache!GetFast(t)
                           \/ Cache!GetSlow(t) \/ Cache!GetDone(t)
         \/ \E f \in Fetch : \/ Cache!FetchRead(f) \/ Cache!FetchResolve(f)
                            \/ Cache!Publish(f)
         \/ Cache!Invalidate \/ Cache!Tick
  PROVE  /\ stage' = [f \in Fetch |-> stage'[f]]
         /\ result' \in [Fetch -> Nat \cup {None, Err}]
         /\ \A f \in Fetch : stage'[f] = "read" => result'[f] \in 0 .. latest'
  <1> USE DEF Cache!fetchVars, HandleInv
  <1>1. ASSUME NEW f \in Fetch, NEW p, Cache!StartFetch(f, p)
        PROVE  /\ stage' = [g \in Fetch |-> stage'[g]]
               /\ result' \in [Fetch -> Nat \cup {None, Err}]
               /\ \A g \in Fetch : stage'[g] = "read" => result'[g] \in 0 .. latest'
    BY <1>1, Zenon DEF Cache!StartFetch
  <1>2. ASSUME NEW t \in Task, Cache!GetSlow(t)
        PROVE  \/ UNCHANGED <<stage, result>>
               \/ \E f \in Fetch : \E p : Cache!StartFetch(f, p)
    BY <1>2, Zenon DEF Cache!GetSlow
  <1>3. ASSUME NEW t \in Task, Cache!GetSlow(t)
        PROVE  /\ stage' = [g \in Fetch |-> stage'[g]]
               /\ result' \in [Fetch -> Nat \cup {None, Err}]
               /\ \A g \in Fetch : stage'[g] = "read" => result'[g] \in 0 .. latest'
    BY <1>1, <1>2, <1>3, Zenon
  <1>4. ASSUME NEW t \in Task, Cache!TryGet(t) \/ Cache!GetFast(t) \/ Cache!GetDone(t)
        PROVE  UNCHANGED <<stage, result>>
    BY <1>4, Zenon DEF Cache!TryGet, Cache!GetFast, Cache!GetDone
  <1>5. ASSUME Cache!Invalidate \/ Cache!Tick
        PROVE  UNCHANGED <<stage, result>>
    BY <1>5, Zenon DEF Cache!Invalidate, Cache!Tick
  <1>6. ASSUME NEW f \in Fetch,
               Cache!FetchRead(f) \/ Cache!FetchResolve(f) \/ Cache!Publish(f)
        PROVE  /\ stage' = [g \in Fetch |-> stage'[g]]
               /\ result' \in [Fetch -> Nat \cup {None, Err}]
               /\ \A g \in Fetch : stage'[g] = "read" => result'[g] \in 0 .. latest'
    BY <1>6, SMTT(30) DEF Cache!FetchRead, Cache!FetchResolve, Cache!Publish
  <1> QED BY <1>3, <1>4, <1>5, <1>6, Zenon

\* The steps that use the cache and leave the handle alone.
LEMMA CacheSteps ==
  ASSUME HandleInv,
         \/ \E t \in Task : \/ TryGetCache(t) \/ GetFromCache(t)
                           \/ Invalidate(t) \/ AsLatestInvalidate(t)
         \/ CacheStep
  PROVE  HandleInv' /\ UNCHANGED <<latest, dataset, pinned>>
  <1> USE DEF handleVars
  <1>1. UNCHANGED <<mode, dataset, pinned>>
    BY Zenon DEF TryGetCache, GetFromCache, Invalidate, AsLatestInvalidate, CacheStep
  <1>2. \/ \E t \in Task : \/ Cache!TryGet(t) \/ Cache!GetFast(t)
                          \/ Cache!GetSlow(t) \/ Cache!GetDone(t)
        \/ \E f \in Fetch : \/ Cache!FetchRead(f) \/ Cache!FetchResolve(f)
                           \/ Cache!Publish(f)
        \/ Cache!Invalidate \/ Cache!Tick
    BY Zenon DEF TryGetCache, GetFromCache, Invalidate, AsLatestInvalidate, CacheStep
  <1>3. UNCHANGED latest
    BY <1>2, Zenon DEF Cache!TryGet, Cache!GetFast, Cache!GetSlow, Cache!GetDone, Cache!FetchRead,
                Cache!FetchResolve, Cache!Publish, Cache!Invalidate, Cache!Tick
  <1>4. /\ stage' = [f \in Fetch |-> stage'[f]]
        /\ result' \in [Fetch -> Nat \cup {None, Err}]
        /\ \A f \in Fetch : stage'[f] = "read" => result'[f] \in 0 .. latest'
    BY <1>2, <1>3, CacheFetches, Zenon
  <1>5. \/ UNCHANGED taskVars
        \/ \E t \in Task, l \in Locations : \E v : l \notin Storing /\ Carry(t, l, v)
    BY Zenon DEF TryGetCache, GetFromCache, Invalidate, AsLatestInvalidate, CacheStep,
           AfterAsLatest, Goto, Locations, Storing
  <1>6. latest' \in Nat /\ latest' >= latest
    BY <1>3, SMTT(30) DEF HandleInv
  <1>7. /\ pc' \in [Task -> Locations]
        /\ val' = [x \in Task |-> val'[x]]
        /\ \A x \in Task : pc'[x] \in Storing => val'[x] \in 0 .. latest'
    <2>1. CASE UNCHANGED taskVars
      BY <2>1, <1>3, Zenon DEF taskVars, HandleInv
    <2>2. CASE \E t \in Task, l \in Locations : \E v : l \notin Storing /\ Carry(t, l, v)
      BY <2>2, <1>6, CarryStep, Zenon
    <2> QED BY <1>5, <2>1, <2>2, Zenon
  <1> QED BY <1>1, <1>3, <1>4, <1>7, Zenon DEF HandleInv

\* Beginning an operation.
LEMMA BeginSteps ==
  ASSUME HandleInv, NEW t \in Task,
         \/ BeginGet(t) \/ BeginSnapshot(t) \/ BeginWrite(t)
         \/ BeginCheckoutLatest(t) \/ BeginReload(t) \/ BeginRestore(t)
         \/ \E v \in 0 .. latest, isTag \in BOOLEAN : BeginCheckout(t, v, isTag)
  PROVE  HandleInv' /\ UNCHANGED <<latest, dataset, pinned>>
  <1>0. 0 \in 0 .. latest
    BY SMTT(30) DEF HandleInv
  <1>1. \E o \in Ops, l \in Locations, v \in 0 .. latest : Begin(t, o, l, v)
    BY <1>0, Zenon DEF BeginGet, BeginSnapshot, BeginWrite, BeginCheckoutLatest, BeginReload,
                BeginRestore, BeginCheckout, Ops, Locations
  <1> QED BY <1>1, SMTT(30) DEF Begin, HandleInv, handleVars, cacheVars

\* A store of a committed version: the handle moves as Advance does, or not at all.
LEMMA AdvancedFacts ==
  ASSUME HandleInv, NEW v \in 0 .. latest, dataset' = Advanced(v),
         UNCHANGED <<latest, pinned>>
  PROVE  /\ dataset' \in 0 .. latest' /\ pinned' \in {None, dataset'}
         /\ Handle!Next \/ UNCHANGED Handle!vars
  BY OptionAssumption, SMTT(30) DEF HandleInv, Advanced, Handle!Next, Handle!Advance, Handle!vars

\* The steps of a task that store a version in the handle.
LEMMA StoreSteps ==
  ASSUME HandleInv, NEW t \in Task,
         RefreshStore(t) \/ Update(t) \/ AsLatestStore(t) \/ StoreCheckout(t)
  PROVE  HandleInv' /\ (Handle!Next \/ UNCHANGED Handle!vars)
  <1> USE DEF cacheVars, handleVars
  <1>1. UNCHANGED <<latest, mode, stage, result>>
    BY Zenon DEF RefreshStore, Update, AsLatestStore, StoreCheckout
  <1>2. pc[t] \in Storing
    BY Zenon DEF RefreshStore, Update, AsLatestStore, StoreCheckout, Storing
  <1>3. val[t] \in 0 .. latest
    BY <1>2, Zenon DEF HandleInv
  <1>4. \E l \in Locations : \E v : l \notin Storing /\ Carry(t, l, v)
    BY Zenon DEF RefreshStore, Update, AsLatestStore, StoreCheckout, AfterAsLatest, Goto,
           Locations, Storing
  <1>5. /\ dataset' \in 0 .. latest' /\ pinned' \in {None, dataset'}
        /\ Handle!Next \/ UNCHANGED Handle!vars
    <2>1. CASE RefreshStore(t) \/ Update(t)
      BY <2>1, <1>1, <1>3, AdvancedFacts, Zenon DEF RefreshStore, Update
    <2>2. CASE AsLatestStore(t)
      BY <2>2, <1>1, <1>3, Zenon DEF AsLatestStore, HandleInv, Handle!Next, Handle!CheckoutLatest,
                              Handle!vars
    <2>3. CASE StoreCheckout(t)
      BY <2>3, <1>1, <1>3, OptionAssumption, Zenon
         DEF StoreCheckout, HandleInv, Handle!Next, Handle!Checkout, Handle!vars
    <2> QED BY <2>1, <2>2, <2>3, Zenon
  <1>6. latest' \in Nat /\ latest' >= latest
    BY <1>1, SMTT(30) DEF HandleInv
  <1>7. /\ pc' \in [Task -> Locations]
        /\ val' = [x \in Task |-> val'[x]]
        /\ \A x \in Task : pc'[x] \in Storing => val'[x] \in 0 .. latest'
    BY <1>4, <1>6, CarryStep, Zenon
  <1> QED BY <1>1, <1>5, <1>6, <1>7, FetchesStay, Zenon DEF HandleInv

LEMMA CommitSteps ==
  ASSUME HandleInv, OtherCommit \/ \E t \in Task : Commit(t)
  PROVE  HandleInv' /\ Handle!Next
  <1> USE DEF cacheVars, handleVars
  <1>1. latest' = latest + 1 /\ UNCHANGED <<mode, dataset, pinned, stage, result>>
    BY Zenon DEF OtherCommit, Commit
  <1>2. latest' \in Nat /\ latest' >= latest /\ latest' \in 0 .. latest'
    BY <1>1, SMTT(30) DEF HandleInv
  <1>3. /\ pc' \in [Task -> Locations]
        /\ val' = [x \in Task |-> val'[x]]
        /\ \A x \in Task : pc'[x] \in Storing => val'[x] \in 0 .. latest'
    <2>1. CASE OtherCommit
      BY <2>1, <1>1, SMTT(30) DEF OtherCommit, taskVars, HandleInv
    <2>2. ASSUME NEW t \in Task, Commit(t)
          PROVE  \E l \in Locations : Carry(t, l, latest')
      BY <2>2, Zenon DEF Commit, Locations
    <2>3. CASE \E t \in Task : Commit(t)
      BY <2>2, <2>3, <1>2, CarryStep, Zenon
    <2> QED BY <2>1, <2>3, Zenon
  <1>4. Handle!Next
    BY <1>1, Zenon DEF Handle!Next, Handle!Commit
  <1> QED BY <1>1, <1>2, <1>3, <1>4, FetchesStay, SMTT(30) DEF HandleInv

LEMMA FetchResolveStep ==
  ASSUME HandleInv, NEW f \in Fetch, FetchResolve(f)
  PROVE  HandleInv' /\ (Handle!Next \/ UNCHANGED Handle!vars)
  <1>1. Cache!FetchResolve(f) /\ UNCHANGED <<latest, mode, pinned, pc, val>>
    BY Zenon DEF FetchResolve, Cache!FetchResolve, taskVars
  <1>2. /\ stage' = [g \in Fetch |-> stage'[g]]
        /\ result' \in [Fetch -> Nat \cup {None, Err}]
        /\ \A g \in Fetch : stage'[g] = "read" => result'[g] \in 0 .. latest'
    BY <1>1, CacheFetches, Zenon
  <1>3. result'[f] = Err \/ result'[f] \in 0 .. latest
    BY <1>1, Zenon DEF Cache!FetchResolve, HandleInv
  <1>4. /\ dataset' \in 0 .. latest' /\ pinned' \in {None, dataset'}
        /\ Handle!Next \/ UNCHANGED Handle!vars
    <2>1. CASE result'[f] = Err
      BY <2>1, <1>1, Zenon DEF FetchResolve, HandleInv, Handle!vars
    <2>2. CASE result'[f] # Err
      BY <2>2, <1>1, <1>3, AdvancedFacts, Zenon DEF FetchResolve
    <2> QED BY <2>1, <2>2, Zenon
  <1> QED BY <1>1, <1>2, <1>4, Zenon DEF HandleInv

LEMMA NextHandleInv ==
  ASSUME HandleInv, [Next]_vars
  PROVE  HandleInv' /\ [Handle!Next]_(Handle!vars)
  <1>1. CASE UNCHANGED vars
    BY <1>1, Zenon DEF vars, HandleInv, Handle!vars
  <1>2. CASE Next
    BY <1>2, QuietSteps, CacheSteps, BeginSteps, StoreSteps, CommitSteps, FetchResolveStep, Zenon
       DEF Next, Handle!vars
  <1> QED BY <1>1, <1>2, Zenon

\* A pinned handle shows its pinned version, whatever tasks race with the checkout
\* (DatasetConsistencyWrapper's critical sections after each await).
THEOREM PinIsConsistent == Spec => []PinConsistent
  <1>1. HandleInv => PinConsistent
    BY Zenon DEF HandleInv, PinConsistent
  <1> QED BY InitHandleInv, NextHandleInv, <1>1, PTL DEF Spec

\* The wrapper implements the abstract handle: tracking, it never goes back.
THEOREM WrapperImplementsHandle == Spec => HandleSpec
  <1>1. Init => Handle!Init
    BY SMTT(30) DEF Init, Handle!Init
  <1> QED BY InitHandleInv, NextHandleInv, <1>1, PTL DEF Spec, HandleSpec, Handle!Spec

-----------------------------------------------------------------------------
(* GetNotStale: the cache's own invariant, what tasks were promised, and what *)
(* they carry, are preserved together.                                       *)

\* The two instances of the cache are the same formulas.
LEMMA CacheStepInv ==
  ASSUME Cache!IInv, [Cache!Next]_(Cache!vars)
  PROVE  Cache!IInv'
  <1>1. CacheProofs!IInv /\ [CacheProofs!Next]_(CacheProofs!vars) => CacheProofs!IInv'
    BY CacheProofs!NextIInv, OptionAssumption, CacheAssumption, Zenon
  <1>2. CacheProofs!IInv
    BY Zenon DEF Cache!IInv, Cache!TypeOK, Cache!State, Cache!Entry, Cache!StateShape,
           Cache!Empty, Cache!FetchShape, Cache!FetchNotStale, Cache!WaitNotStale,
           Cache!FloorBounds, Cache!NoStaleWrite, Cache!NoStaleReturn, CacheProofs!IInv,
           CacheProofs!TypeOK, CacheProofs!State, CacheProofs!Entry,
           CacheProofs!StateShape, CacheProofs!Empty, CacheProofs!FetchShape,
           CacheProofs!FetchNotStale, CacheProofs!WaitNotStale, CacheProofs!FloorBounds,
           CacheProofs!NoStaleWrite, CacheProofs!NoStaleReturn
  <1>3. Cache!Next => CacheProofs!Next
    BY Zenon DEF Cache!Next, Cache!TryGet, Cache!GetFast, Cache!GetSlow, Cache!GetDone,
           Cache!FetchRead, Cache!FetchResolve, Cache!Publish, Cache!Invalidate,
           Cache!Tick, Cache!SourceWrite, Cache!Return, Cache!Wait, Cache!Free,
           Cache!StartFetch, Cache!Settled, Cache!IsFresh, Cache!Elapsed,
           Cache!Resolved, Cache!Fallback, Cache!Empty, Cache!Current, Cache!Refreshing,
           Cache!fetchVars, Cache!callVars, CacheProofs!Next, CacheProofs!TryGet,
           CacheProofs!GetFast, CacheProofs!GetSlow, CacheProofs!GetDone,
           CacheProofs!FetchRead, CacheProofs!FetchResolve, CacheProofs!Publish,
           CacheProofs!Invalidate, CacheProofs!Tick, CacheProofs!SourceWrite,
           CacheProofs!Return, CacheProofs!Wait, CacheProofs!Free,
           CacheProofs!StartFetch, CacheProofs!Settled, CacheProofs!IsFresh,
           CacheProofs!Elapsed, CacheProofs!Resolved, CacheProofs!Fallback,
           CacheProofs!Empty, CacheProofs!Current, CacheProofs!Refreshing,
           CacheProofs!fetchVars, CacheProofs!callVars
  <1>4. [CacheProofs!Next]_(CacheProofs!vars)
    BY <1>3, Zenon DEF Cache!vars, CacheProofs!vars
  <1>5. CacheProofs!IInv' => Cache!IInv'
    BY Zenon DEF Cache!IInv, Cache!TypeOK, Cache!State, Cache!Entry, Cache!StateShape,
           Cache!Empty, Cache!FetchShape, Cache!FetchNotStale, Cache!WaitNotStale,
           Cache!FloorBounds, Cache!NoStaleWrite, Cache!NoStaleReturn, CacheProofs!IInv,
           CacheProofs!TypeOK, CacheProofs!State, CacheProofs!Entry,
           CacheProofs!StateShape, CacheProofs!Empty, CacheProofs!FetchShape,
           CacheProofs!FetchNotStale, CacheProofs!WaitNotStale, CacheProofs!FloorBounds,
           CacheProofs!NoStaleWrite, CacheProofs!NoStaleReturn
  <1> QED BY <1>1, <1>2, <1>4, <1>5, Zenon

\* Every step of the handle is a step of its cache, or leaves it alone; a commit
\* is a write of the cache's source.
LEMMA StepsOfCache ==
  ASSUME [Next]_vars
  PROVE  [Cache!Next]_(Cache!vars)
  <1> USE DEF Cache!Next, Cache!vars, cacheVars
  <1>1. CASE UNCHANGED vars
    BY <1>1, Zenon DEF vars
  <1>2. ASSUME NEW t \in Task,
               \/ BeginGet(t) \/ BeginSnapshot(t) \/ BeginWrite(t)
               \/ BeginCheckoutLatest(t) \/ BeginReload(t) \/ BeginRestore(t)
               \/ \E v \in 0 .. latest, isTag \in BOOLEAN : BeginCheckout(t, v, isTag)
        PROVE  UNCHANGED Cache!vars
    BY <1>2, Zenon DEF BeginGet, BeginSnapshot, BeginWrite, BeginCheckoutLatest, BeginReload,
                BeginRestore, BeginCheckout, Begin
  <1>3. ASSUME NEW t \in Task,
               \/ Get(t) \/ GetLazy(t) \/ RefreshRead(t) \/ RefreshStore(t) \/ EndGet(t)
               \/ Sample(t) \/ Update(t) \/ AsLatest(t) \/ AsLatestRead(t)
               \/ AsLatestStore(t) \/ Reload(t) \/ StoreCheckout(t) \/ StorageError(t)
        PROVE  UNCHANGED Cache!vars
    BY <1>3, Zenon DEF Get, GetLazy, RefreshRead, RefreshStore, EndGet, Sample, Update, AsLatest,
                AsLatestRead, AsLatestStore, Reload, StoreCheckout, StorageError
  <1>4. ASSUME NEW t \in Task,
               \/ TryGetCache(t) \/ GetFromCache(t) \/ Invalidate(t) \/ AsLatestInvalidate(t)
        PROVE  Cache!Next
    BY <1>4, Zenon DEF TryGetCache, GetFromCache, Invalidate, AsLatestInvalidate
  <1>5. ASSUME \/ \E f \in Fetch : FetchResolve(f)
               \/ CacheStep
        PROVE  Cache!Next
    BY <1>5, Zenon DEF FetchResolve, CacheStep
  <1>6. ASSUME OtherCommit \/ \E t \in Task : Commit(t)
        PROVE  Cache!SourceWrite
    BY <1>6, Zenon DEF OtherCommit, Commit, Cache!SourceWrite, Cache!fetchVars, Cache!callVars
  <1> QED BY <1>1, <1>2, <1>3, <1>4, <1>5, <1>6, Zenon DEF Next

LEMMA InitStaleInv == Init => StaleInv
  <1> SUFFICES ASSUME Init PROVE StaleInv
    BY Zenon
  <1>1. HandleInv
    BY InitHandleInv, Zenon
  <1>2. TypeOK
    BY OptionAssumption, SMTT(30) DEF Init, TypeOK, Modes, Ops, Locations
  <1>3. Promised /\ PromiseKept
    BY OptionAssumption, SMTT(30) DEF Init, Promised, PromiseKept, Cache!Untouched
  <1>4. Cache!TypeOK
    <2>1. state \in Cache!State
      BY SMTT(30) DEF Init, Cache!Untouched, Cache!State, Cache!Entry, Cache!Current, Cache!Empty
    <2> QED BY <2>1, Zenon DEF Init, Cache!Untouched, Cache!TypeOK
  <1>5. Cache!StateShape /\ Cache!NoStaleWrite
    BY CacheAssumption, SMTT(30) DEF Init, Cache!Untouched, Cache!StateShape, Cache!NoStaleWrite,
                           Cache!Current, Cache!Empty
  <1>6. Cache!FetchShape /\ Cache!FetchNotStale /\ Cache!WaitNotStale /\ Cache!FloorBounds
        /\ Cache!NoStaleReturn
    BY OptionAssumption, SMTT(30)
       DEF Init, Cache!Untouched, Cache!FetchShape, Cache!FetchNotStale, Cache!WaitNotStale,
           Cache!FloorBounds, Cache!NoStaleReturn
  <1> QED BY <1>1, <1>2, <1>3, <1>4, <1>5, <1>6, Zenon DEF StaleInv, Cache!IInv

\* What a task at l that carries v may have been promised, w, when the cache was
\* last invalidated at fl.
Fits(l, v, w, fl) ==
    /\ l \in {"refresh_store", "got"} => v >= w
    /\ l = "lazy" => mode = "Lazy"
    /\ l \in {"try_get", "cache_get", "invalidate"} => mode = "Eventual"
    /\ l \in {"get", "try_get", "cache_get"} /\ mode = "Eventual" => w <= fl

\* Task t moves to l with v and the promise w; the handle stays or advances.
Moves(t, l, v, w) ==
    /\ call[t] = "idle"
    /\ pc' = [pc EXCEPT ![t] = l]
    /\ val' = [val EXCEPT ![t] = v]
    /\ low' = [low EXCEPT ![t] = w]
    /\ UNCHANGED <<mode, pinned, call, asof>>
    /\ latest' >= latest /\ floor' >= floor
    /\ pinned = None => dataset' >= dataset
    /\ w <= latest'
    /\ pinned # None => w = 0
    /\ pinned = None /\ mode # "Strong" => w <= dataset'
    /\ \/ acked' = acked
       \/ /\ acked' = w
          /\ pinned = None => w <= dataset'
          /\ mode = "Eventual" => w <= floor'
    /\ Fits(l, v, w, floor')

LEMMA TaskStep ==
  ASSUME StaleInv, NEW t \in Task, NEW l \in Locations, NEW v \in Nat, NEW w \in Nat,
         latest' \in Nat, dataset' \in Nat, floor' \in Nat,
         Moves(t, l, v, w)
  PROVE  Promised' /\ PromiseKept'
  <1> USE DEF StaleInv, TypeOK, Moves
  <1>1. floor \in Nat /\ acked \in Nat /\ asof \in [Task -> Nat]
    BY Zenon DEF Cache!IInv, Cache!TypeOK
  <1>2. acked' \in Nat
    BY <1>1, Zenon
  <1>3. \A x \in Task : low'[x] = IF x = t THEN w ELSE low[x]
    BY Zenon
  <1>4. \A x \in Task : val'[x] = IF x = t THEN v ELSE val[x]
    BY Zenon
  <1>5. \A x \in Task : pc'[x] = IF x = t THEN l ELSE pc[x]
    BY Zenon
  <1>6. Promised'
    <2>1. \A x \in Task : low'[x] <= latest'
      BY <1>3, SMTT(30) DEF Promised
    <2>2. pinned' # None => acked' = 0 /\ \A x \in Task : low'[x] = 0
      BY <1>3, Zenon DEF Promised
    <2>3. pinned' = None => acked' <= dataset'
      BY <1>1, <1>2, SMTT(30) DEF Promised
    <2>4. pinned' = None /\ mode' # "Strong" => \A x \in Task : low'[x] <= dataset'
      BY <1>3, SMTT(30) DEF Promised
    <2> QED BY <2>1, <2>2, <2>3, <2>4, Zenon DEF Promised
  <1>7. PromiseKept'
    <2>1. mode' = "Eventual" => acked' <= floor'
      BY <1>1, <1>2, SMTT(30) DEF PromiseKept
    <2>2. ASSUME NEW x \in Task, x # t
          PROVE  /\ pc'[x] \in {"refresh_store", "got"} => val'[x] >= low'[x]
                 /\ pc'[x] = "lazy" => mode' = "Lazy"
                 /\ pc'[x] \in {"try_get", "cache_get", "invalidate"} => mode' = "Eventual"
                 /\ pc'[x] \in {"get", "try_get"} /\ mode' = "Eventual" => low'[x] <= floor'
                 /\ pc'[x] = "cache_get" =>
                       low'[x] <= IF call'[x] = "idle" THEN floor' ELSE asof'[x]
                 /\ call'[x] # "idle" => pc'[x] = "cache_get"
      BY <2>2, <1>1, <1>3, <1>4, <1>5, SMTT(30) DEF PromiseKept
    <2>3. /\ pc'[t] \in {"refresh_store", "got"} => val'[t] >= low'[t]
          /\ pc'[t] = "lazy" => mode' = "Lazy"
          /\ pc'[t] \in {"try_get", "cache_get", "invalidate"} => mode' = "Eventual"
          /\ pc'[t] \in {"get", "try_get"} /\ mode' = "Eventual" => low'[t] <= floor'
          /\ pc'[t] = "cache_get" =>
                low'[t] <= IF call'[t] = "idle" THEN floor' ELSE asof'[t]
          /\ call'[t] # "idle" => pc'[t] = "cache_get"
      BY <1>3, <1>4, <1>5, Zenon DEF Fits
    <2> QED BY <2>1, <2>2, <2>3, Zenon DEF PromiseKept
  <1> QED BY <1>6, <1>7, Zenon

\* A task that carries nothing that could break its promise, or ends.
LEMMA CarryMoves ==
  ASSUME NEW t \in Task, NEW l \in Locations, NEW v \in Nat, NEW w \in Nat,
         Fits(l, v, w, floor'), Carry(t, l, v)
  PROVE  \E u \in Nat : /\ pc' = [pc EXCEPT ![t] = l]
                        /\ val' = [val EXCEPT ![t] = u]
                        /\ Fits(l, u, w, floor')
  <1>1. CASE l = "idle"
    <2>1. Fits(l, 0, w, floor')
      BY <1>1, Zenon DEF Fits
    <2> QED BY <1>1, <2>1, Zenon DEF Carry
  <1>2. CASE l # "idle"
    BY <1>2, Zenon DEF Carry
  <1> QED BY <1>1, <1>2, Zenon

LEMMA CacheTypes ==
  ASSUME StaleInv
  PROVE  /\ floor \in Nat /\ floor <= latest
         /\ call \in [Task -> {"idle", "slow", "wait"}]
         /\ asof \in [Task -> Nat]
  BY Zenon DEF StaleInv, Cache!IInv, Cache!TypeOK, Cache!FloorBounds

\* Steps that move one task and leave the handle, the cache and the promises alone.
LEMMA QuietStale ==
  ASSUME StaleInv, NEW t \in Task,
         \/ Get(t) \/ GetLazy(t) \/ RefreshRead(t) \/ EndGet(t) \/ Sample(t)
         \/ AsLatest(t) \/ AsLatestRead(t) \/ Reload(t) \/ StorageError(t)
  PROVE  Promised' /\ PromiseKept'
  <1> USE DEF handleVars, ghostVars, cacheVars
  <1>1. UNCHANGED <<latest, mode, dataset, pinned, acked, low, call, asof, floor>>
    BY Zenon DEF Get, GetLazy, RefreshRead, EndGet, Sample, AsLatest, AsLatestRead, Reload,
           StorageError
  <1>2. /\ latest \in Nat /\ dataset \in Nat /\ val[t] \in Nat /\ low[t] \in Nat
        /\ low[t] <= latest /\ pinned \in Nat \cup {None}
        /\ low = [low EXCEPT ![t] = low[t]]
    BY Zenon DEF StaleInv, TypeOK, Promised
  <1>3. call[t] = "idle"
    BY Zenon DEF StaleInv, PromiseKept, Get, GetLazy, RefreshRead, EndGet, Sample, AsLatest,
           AsLatestRead, Reload, StorageError
  <1>4. \E l \in Locations, v \in Nat : Carry(t, l, v) /\ Fits(l, v, low[t], floor)
    <2> USE DEF Goto, Locations
    <2>1. CASE Get(t)
      <3>1. CASE pinned # None
        <4>1. low[t] = 0
          BY <3>1, Zenon DEF StaleInv, Promised
        <4>2. Fits("got", dataset, low[t], floor)
          BY <4>1, <1>2, SMTT(30) DEF Fits
        <4> QED BY <2>1, <3>1, <4>2, <1>2, Zenon DEF Get
      <3>2. CASE pinned = None
        <4>1. mode = "Eventual" => low[t] <= floor
          BY <2>1, Zenon DEF Get, StaleInv, PromiseKept
        <4>2. CASE mode = "Lazy"
          <5>1. Carry(t, "lazy", val[t])
            BY <2>1, <3>2, <4>2, Zenon DEF Get
          <5> QED BY <4>2, <5>1, <1>2, Zenon DEF Fits
        <4>3. CASE mode = "Strong"
          <5>1. Carry(t, "refresh", val[t])
            BY <2>1, <3>2, <4>3, Zenon DEF Get
          <5> QED BY <4>3, <5>1, <1>2, Zenon DEF Fits
        <4>4. CASE mode = "Eventual"
          <5>1. Carry(t, "try_get", val[t])
            BY <2>1, <3>2, <4>4, Zenon DEF Get
          <5> QED BY <4>1, <4>4, <5>1, <1>2, Zenon DEF Fits
        <4> QED BY <4>2, <4>3, <4>4, Zenon DEF StaleInv, TypeOK, Modes
      <3> QED BY <3>1, <3>2, Zenon
    <2>2. CASE GetLazy(t)
      <3>1. dataset >= low[t]
        BY <2>2, <1>2, SMTT(30) DEF GetLazy, StaleInv, PromiseKept, Promised
      <3> QED BY <2>2, <3>1, <1>2, Zenon DEF GetLazy, Fits
    <2>3. CASE RefreshRead(t) \/ AsLatestRead(t)
      BY <2>3, <1>2, Zenon DEF RefreshRead, AsLatestRead, Fits
    <2>4. CASE EndGet(t) \/ Sample(t) \/ StorageError(t)
      BY <2>4, <1>2, Zenon DEF EndGet, Sample, StorageError, Fits
    <2>5. CASE AsLatest(t)
      BY <2>5, <1>2, Zenon DEF AsLatest, AfterAsLatest, Fits
    <2>6. CASE Reload(t)
      BY <2>6, <1>2, Zenon DEF Reload, Fits
    <2> QED BY <2>1, <2>2, <2>3, <2>4, <2>5, <2>6, Zenon
  <1>5. \E l \in Locations, v \in Nat : Moves(t, l, v, low[t])
    <2>1. PICK l \in Locations, v \in Nat : Carry(t, l, v) /\ Fits(l, v, low[t], floor')
      BY <1>1, <1>4, Zenon
    <2>2. PICK u \in Nat : /\ pc' = [pc EXCEPT ![t] = l]
                           /\ val' = [val EXCEPT ![t] = u]
                           /\ Fits(l, u, low[t], floor')
      BY <2>1, <1>2, CarryMoves, Zenon
    <2>3. Moves(t, l, u, low[t])
      BY <2>2, <1>1, <1>2, <1>3, CacheTypes, SMTT(30) DEF Moves, StaleInv, Promised
    <2> QED BY <2>3, Zenon
  <1> QED BY <1>1, <1>2, <1>5, TaskStep, CacheTypes, Zenon

LEMMA BeginStale ==
  ASSUME StaleInv, NEW t \in Task,
         \/ BeginGet(t) \/ BeginSnapshot(t) \/ BeginWrite(t)
         \/ BeginCheckoutLatest(t) \/ BeginReload(t) \/ BeginRestore(t)
         \/ \E v \in 0 .. latest, isTag \in BOOLEAN : BeginCheckout(t, v, isTag)
  PROVE  Promised' /\ PromiseKept'
  <1>1. PICK o \in Ops, l \in Locations, v \in Nat :
           /\ Begin(t, o, l, v)
           /\ l \in {"get", "as_latest", "reload", "checkout_store"}
    BY SMTT(30) DEF BeginGet, BeginSnapshot, BeginWrite, BeginCheckoutLatest, BeginReload,
           BeginRestore, BeginCheckout, Ops, Locations, StaleInv, TypeOK
  <1>2. /\ latest \in Nat /\ dataset \in Nat /\ acked \in Nat
    BY Zenon DEF StaleInv, TypeOK
  <1>3. /\ Required \in Nat /\ Required <= latest
        /\ pinned # None => Required = 0
        /\ pinned = None /\ mode # "Strong" => Required <= dataset
        /\ mode = "Eventual" => Required <= floor
    <2>1. /\ dataset <= latest /\ 0 <= latest
          /\ pinned = None => acked <= dataset
          /\ mode = "Eventual" => acked <= floor
      BY <1>2, SMTT(30) DEF StaleInv, HandleInv, Promised, PromiseKept
    <2>2. 0 <= floor
      BY CacheTypes, SMTT(30)
    <2>3. pinned = None => acked <= latest
      BY <1>2, <2>1, SMTT(30)
    <2> QED BY <1>2, <2>1, <2>2, <2>3, SMTT(30) DEF Required
  <1>4. call[t] = "idle"
    BY <1>1, Zenon DEF Begin, StaleInv, PromiseKept
  <1>5. Moves(t, l, v, Required)
    BY <1>1, <1>2, <1>3, <1>4, CacheTypes, SMTT(30) DEF Begin, Moves, Fits, handleVars, cacheVars
  <1> QED BY <1>1, <1>2, <1>3, <1>5, CacheTypes, TaskStep, Zenon DEF Begin, handleVars, cacheVars

\* A write commits a version nobody has been promised yet.
LEMMA CommitStale ==
  ASSUME StaleInv, NEW t \in Task, Commit(t)
  PROVE  Promised' /\ PromiseKept'
  <1> USE DEF handleVars, ghostVars, cacheVars
  <1>1. /\ latest \in Nat /\ dataset \in Nat /\ low[t] \in Nat
        /\ low[t] <= latest /\ low = [low EXCEPT ![t] = low[t]]
    BY Zenon DEF StaleInv, TypeOK, Promised
  <1>2. /\ latest' = latest + 1
        /\ UNCHANGED <<mode, dataset, pinned, acked, low, call, asof, floor>>
    BY Zenon DEF Commit
  <1>3. call[t] = "idle"
    BY Zenon DEF Commit, StaleInv, PromiseKept
  <1>4. \E l \in Locations, u \in Nat : Moves(t, l, u, low[t])
    <2>1. PICK l \in {"update", "as_latest"} : Carry(t, l, latest')
      BY Zenon DEF Commit
    <2>2. l \in Locations /\ latest' \in Nat /\ Fits(l, latest', low[t], floor')
      BY <1>1, <1>2, SMTT(30) DEF Fits, Locations
    <2>3. PICK u \in Nat : /\ pc' = [pc EXCEPT ![t] = l]
                           /\ val' = [val EXCEPT ![t] = u]
                           /\ Fits(l, u, low[t], floor')
      BY <2>1, <2>2, <1>1, CarryMoves, Zenon
    <2>4. Moves(t, l, u, low[t])
      BY <2>3, <1>1, <1>2, <1>3, CacheTypes, SMTT(30) DEF Moves, StaleInv, Promised
    <2> QED BY <2>2, <2>4, Zenon
  <1> QED BY <1>1, <1>2, <1>4, TaskStep, CacheTypes, SMTT(30)

\* refresh_latest by a task and update: what the task stored becomes its promise,
\* and is acknowledged once the handle shows it, or after the invalidation.
LEMMA StoreStale ==
  ASSUME StaleInv, NEW t \in Task, RefreshStore(t) \/ Update(t)
  PROVE  Promised' /\ PromiseKept'
  <1> USE DEF ghostVars, cacheVars
  <1>1. /\ latest \in Nat /\ dataset \in Nat /\ val[t] \in Nat /\ low \in [Task -> Nat]
        /\ low[t] \in Nat /\ low[t] <= latest /\ acked \in Nat
    BY Zenon DEF StaleInv, TypeOK, Promised
  <1>2. /\ UNCHANGED <<latest, mode, pinned, call, asof, floor>>
        /\ dataset' = Advanced(val[t])
    BY Zenon DEF RefreshStore, Update
  <1>3. call[t] = "idle"
    BY Zenon DEF RefreshStore, Update, StaleInv, PromiseKept
  <1>4. val[t] <= latest
    BY <1>1, SMTT(30) DEF RefreshStore, Update, StaleInv, HandleInv, Storing
  <1>5. /\ dataset' \in Nat /\ dataset' >= dataset
        /\ pinned = None => dataset' >= val[t]
        /\ pinned # None => dataset' = dataset
    BY <1>1, <1>2, SMTT(30) DEF Advanced
  <1> DEFINE w == IF pinned = None THEN val[t] ELSE low[t]
  <1>6. /\ Stored(t) = [low EXCEPT ![t] = w] /\ w \in Nat /\ w <= latest
        /\ pinned # None => w = 0 /\ acked = 0
        /\ pinned = None => w = val[t]
    <2>1. CASE pinned = None
      BY <1>1, <1>4, <2>1, Zenon DEF Stored
    <2>2. CASE pinned # None
      BY <1>1, <2>2, Zenon DEF Stored, StaleInv, Promised
    <2> QED BY <2>1, <2>2, Zenon
  <1>7. CASE RefreshStore(t) /\ op[t] \notin {"reload", "checkout_latest"}
    <2>1. Goto(t, "got") /\ UNCHANGED <<acked, low>>
      BY <1>7, Zenon DEF RefreshStore
    <2>2. Fits("got", val[t], low[t], floor')
      BY <1>7, Zenon DEF Fits, RefreshStore, StaleInv, PromiseKept
    <2>3. PICK u \in Nat : /\ pc' = [pc EXCEPT ![t] = "got"]
                           /\ val' = [val EXCEPT ![t] = u]
                           /\ Fits("got", u, low[t], floor')
      BY <2>1, <2>2, <1>1, CarryMoves, Zenon DEF Goto, Locations
    <2>4. low' = [low EXCEPT ![t] = low[t]]
      BY <2>1, <1>1, Zenon
    <2>5. /\ pinned # None => low[t] = 0
          /\ pinned = None /\ mode # "Strong" => low[t] <= dataset
      BY Zenon DEF StaleInv, Promised
    <2>6. Moves(t, "got", u, low[t])
      <3>1. pinned = None /\ mode # "Strong" => low[t] <= dataset'
        BY <2>5, <1>1, <1>5, SMTT(30)
      <3>2. UNCHANGED <<mode, pinned, call, asof>> /\ latest' >= latest /\ floor' >= floor
        BY <1>1, <1>2, CacheTypes, SMTT(30)
      <3>3. acked' = acked /\ low[t] <= latest'
        BY <2>1, <1>1, <1>2, Zenon
      <3> QED BY <2>3, <2>4, <2>5, <3>1, <3>2, <3>3, <1>3, <1>5, Zenon DEF Moves
    <2> QED BY <2>6, <1>1, <1>2, <1>5, TaskStep, CacheTypes, Zenon DEF Locations
  <1>8. CASE ~(RefreshStore(t) /\ op[t] \notin {"reload", "checkout_latest"})
    <2>1. low' = Stored(t) /\ low'[t] = w
      BY <1>1, <1>6, <1>8, Zenon DEF RefreshStore, Update
    <2>2. \/ mode = "Eventual" /\ Goto(t, "invalidate") /\ UNCHANGED acked
          \/ (mode # "Eventual" \/ pinned # None) /\ Goto(t, "idle") /\ Ack(t, low'[t])
      BY <1>8, Zenon DEF RefreshStore, Update
    <2>3. PICK l \in {"invalidate", "idle"} :
              /\ Goto(t, l)
              /\ l = "invalidate" => mode = "Eventual"
              /\ l = "invalidate" => UNCHANGED acked
              /\ l = "idle" => Ack(t, w) /\ (mode # "Eventual" \/ pinned # None)
      BY <2>1, <2>2, Zenon
    <2>4. l \in Locations /\ Fits(l, val[t], w, floor')
      BY <2>3, Zenon DEF Fits, Locations
    <2>5. PICK u \in Nat : /\ pc' = [pc EXCEPT ![t] = l]
                           /\ val' = [val EXCEPT ![t] = u]
                           /\ Fits(l, u, w, floor')
      BY <2>3, <2>4, <1>1, <1>6, CarryMoves, Zenon DEF Goto
    <2>6. acked' \in {acked, w}
      BY <2>3, Zenon DEF Ack
    <2>7. pinned = None => w <= dataset'
      BY <1>5, <1>6, Zenon
    <2>8. \/ acked' = acked
          \/ acked' = w /\ (mode = "Eventual" => w <= floor')
      BY <2>3, <2>6, <1>2, <1>6, CacheTypes, Zenon DEF Ack
    <2>9. Moves(t, l, u, w)
      <3> HIDE DEF w
      <3> QED BY <2>1, <2>5, <2>7, <2>8, <1>1, <1>2, <1>3, <1>5, <1>6, CacheTypes, SMTT(30) DEF Moves
    <2> HIDE DEF w
    <2> QED BY <2>4, <2>9, <1>1, <1>2, <1>5, <1>6, TaskStep, CacheTypes, Zenon
  <1> QED BY <1>7, <1>8, Zenon

\* The invalidations: what is acknowledged after one is no newer than it.
LEMMA InvalidateStale ==
  ASSUME StaleInv, NEW t \in Task, Invalidate(t) \/ AsLatestInvalidate(t)
  PROVE  Promised' /\ PromiseKept'
  <1>1. /\ latest \in Nat /\ dataset \in Nat /\ val[t] \in Nat /\ low \in [Task -> Nat]
        /\ low[t] \in Nat /\ low[t] <= latest /\ acked \in Nat
        /\ low = [low EXCEPT ![t] = low[t]]
    BY Zenon DEF StaleInv, TypeOK, Promised
  <1>2. /\ UNCHANGED <<latest, mode, pinned, dataset, low, call, asof>>
        /\ floor' = latest
    BY Zenon DEF Invalidate, AsLatestInvalidate, Cache!Invalidate, Cache!callVars, handleVars,
           ghostVars
  <1>3. call[t] = "idle"
    BY Zenon DEF Invalidate, AsLatestInvalidate, StaleInv, PromiseKept
  <1>4. PICK l \in {"idle", "reload"} : Carry(t, l, val[t])
    BY Zenon DEF Invalidate, AsLatestInvalidate, AfterAsLatest, Goto
  <1>5. l \in Locations /\ Fits(l, val[t], low[t], floor')
    BY Zenon DEF Fits, Locations
  <1>6. PICK u \in Nat : /\ pc' = [pc EXCEPT ![t] = l]
                         /\ val' = [val EXCEPT ![t] = u]
                         /\ Fits(l, u, low[t], floor')
    BY <1>1, <1>4, <1>5, CarryMoves, Zenon
  <1>7. /\ pinned # None => low[t] = 0
        /\ pinned = None /\ mode # "Strong" => low[t] <= dataset
    BY Zenon DEF StaleInv, Promised
  <1>8. \/ acked' = acked
        \/ acked' = low[t] /\ (pinned = None => low[t] <= dataset)
    BY <1>7, Zenon DEF Invalidate, AsLatestInvalidate, Ack, ghostVars, StaleInv, PromiseKept
  <1>9. Moves(t, l, u, low[t])
    BY <1>1, <1>2, <1>3, <1>6, <1>7, <1>8, CacheTypes, SMTT(30) DEF Moves
  <1> QED BY <1>1, <1>2, <1>5, <1>9, TaskStep, Zenon

\* A checkout, or the end of one: nothing is promised any more.
LEMMA ResetStale ==
  ASSUME StaleInv, NEW t \in Task,
         NEW l \in {"idle", "reload", "latest_invalidate"}, NEW v,
         Carry(t, l, v), call[t] = "idle",
         low' = [x \in Task |-> 0], acked' = 0,
         UNCHANGED <<latest, mode, call, asof, floor>>, dataset' \in Nat
  PROVE  Promised' /\ PromiseKept'
  <1>1. latest \in Nat /\ floor \in Nat /\ val \in [Task -> Nat] /\ asof \in [Task -> Nat]
        /\ pc \in [Task -> Locations]
    BY CacheTypes, Zenon DEF StaleInv, TypeOK
  <1>2. Promised'
    BY <1>1, SMTT(30) DEF Promised
  <1>3. /\ \A x \in Task : pc'[x] = IF x = t THEN l ELSE pc[x]
        /\ \A x \in Task : x # t => val'[x] = val[x]
    BY <1>1, Zenon DEF Carry
  <1>4. \A x \in Task : call[x] # "idle" => x # t
    BY Zenon
  <1>5. PromiseKept'
    BY <1>1, <1>3, <1>4, SMTT(30) DEF PromiseKept, StaleInv
  <1> QED BY <1>2, <1>5, Zenon

LEMMA AsLatestStale ==
  ASSUME StaleInv, NEW t \in Task, AsLatestStore(t)
  PROVE  Promised' /\ PromiseKept'
  <1> USE DEF ghostVars, cacheVars
  <1>1. /\ latest \in Nat /\ dataset \in Nat /\ val[t] \in Nat /\ low \in [Task -> Nat]
        /\ low[t] \in Nat /\ low[t] <= latest
        /\ low = [low EXCEPT ![t] = low[t]]
    BY Zenon DEF StaleInv, TypeOK, Promised
  <1>2. UNCHANGED <<latest, mode, acked, low, call, asof, floor>>
    BY Zenon DEF AsLatestStore
  <1>3. call[t] = "idle"
    BY Zenon DEF AsLatestStore, StaleInv, PromiseKept
  <1>4. PICK l \in {"idle", "reload", "latest_invalidate"} : Carry(t, l, val[t])
    BY Zenon DEF AsLatestStore, AfterAsLatest, Goto
  <1>5. CASE pinned # None
    <2>1. acked = 0 /\ \A x \in Task : low[x] = 0
      BY <1>5, Zenon DEF StaleInv, Promised
    <2>2. low' = [x \in Task |-> 0] /\ acked' = 0
      BY <2>1, <1>1, <1>2, Zenon
    <2>3. dataset' \in Nat
      BY <1>1, <1>5, Zenon DEF AsLatestStore
    <2> QED BY <1>2, <1>3, <1>4, <2>2, <2>3, ResetStale, Zenon
  <1>6. CASE pinned = None
    <2>1. UNCHANGED <<dataset, pinned>>
      BY <1>6, Zenon DEF AsLatestStore
    <2>2. l \in Locations /\ Fits(l, val[t], low[t], floor')
      BY Zenon DEF Fits, Locations
    <2>3. PICK u \in Nat : /\ pc' = [pc EXCEPT ![t] = l]
                           /\ val' = [val EXCEPT ![t] = u]
                           /\ Fits(l, u, low[t], floor')
      BY <1>1, <1>4, <2>2, CarryMoves, Zenon
    <2>4. mode # "Strong" => low[t] <= dataset
      BY <1>6, Zenon DEF StaleInv, Promised
    <2>5. Moves(t, l, u, low[t])
      BY <1>1, <1>2, <1>3, <1>6, <2>1, <2>3, <2>4, CacheTypes, SMTT(30) DEF Moves
    <2> QED BY <1>1, <1>2, <2>1, <2>2, <2>5, TaskStep, CacheTypes, Zenon
  <1> QED BY <1>5, <1>6, Zenon

LEMMA CheckoutStale ==
  ASSUME StaleInv, NEW t \in Task, StoreCheckout(t)
  PROVE  Promised' /\ PromiseKept'
  <1> USE DEF ghostVars, cacheVars
  <1>1. /\ latest \in Nat /\ dataset \in Nat /\ val[t] \in Nat /\ low \in [Task -> Nat]
        /\ low[t] \in Nat /\ low[t] <= latest
        /\ low = [low EXCEPT ![t] = low[t]]
    BY Zenon DEF StaleInv, TypeOK, Promised
  <1>2. UNCHANGED <<latest, mode, call, asof, floor>> /\ Carry(t, "idle", val[t])
    BY Zenon DEF StoreCheckout, Goto
  <1>3. call[t] = "idle"
    BY Zenon DEF StoreCheckout, StaleInv, PromiseKept
  <1>4. CASE pc[t] = "checkout_store"
    <2>1. low' = [x \in Task |-> 0] /\ acked' = 0 /\ dataset' \in Nat
      BY <1>1, <1>4, Zenon DEF StoreCheckout
    <2> QED BY <1>2, <1>3, <2>1, ResetStale, Zenon
  <1>5. CASE pc[t] # "checkout_store"
    <2>1. /\ UNCHANGED <<pinned, acked, low>> /\ dataset' \in Nat
          /\ pinned = None => dataset' = dataset
      BY <1>1, <1>5, OptionAssumption, Zenon DEF StoreCheckout
    <2>2. Fits("idle", val[t], low[t], floor')
      BY Zenon DEF Fits
    <2>3. PICK u \in Nat : /\ pc' = [pc EXCEPT ![t] = "idle"]
                           /\ val' = [val EXCEPT ![t] = u]
                           /\ Fits("idle", u, low[t], floor')
      BY <1>1, <1>2, <2>2, CarryMoves, Zenon DEF Locations
    <2>4. /\ pinned # None => low[t] = 0
          /\ pinned = None /\ mode # "Strong" => low[t] <= dataset
      BY Zenon DEF StaleInv, Promised
    <2>5. Moves(t, "idle", u, low[t])
      BY <1>1, <1>2, <1>3, <2>1, <2>3, <2>4, CacheTypes, SMTT(30) DEF Moves
    <2> QED BY <1>1, <1>2, <2>1, <2>5, TaskStep, CacheTypes, Zenon DEF Locations
  <1> QED BY <1>4, <1>5, Zenon

\* Steps of no task: the handle may advance, and storage.
LEMMA AwayStale ==
  ASSUME StaleInv, OtherCommit \/ CacheStep \/ \E f \in Fetch : FetchResolve(f)
  PROVE  Promised' /\ PromiseKept'
  <1> USE DEF handleVars, ghostVars, cacheVars, taskVars
  <1>1. /\ latest \in Nat /\ dataset \in Nat /\ low \in [Task -> Nat] /\ acked \in Nat
    BY Zenon DEF StaleInv, TypeOK
  <1>2. /\ UNCHANGED <<mode, pinned, pc, val, acked, low, call, asof, floor>>
        /\ latest' = latest \/ latest' = latest + 1
    BY Zenon DEF OtherCommit, CacheStep, FetchResolve, Cache!FetchResolve, Cache!FetchRead,
           Cache!Publish, Cache!Tick, Cache!callVars
  <1>3. dataset' \in Nat /\ (pinned = None => dataset' >= dataset)
    <2>1. CASE OtherCommit \/ CacheStep
      BY <1>1, <2>1, SMTT(30) DEF OtherCommit, CacheStep
    <2>2. ASSUME NEW f \in Fetch, FetchResolve(f)
          PROVE  dataset' \in Nat /\ (pinned = None => dataset' >= dataset)
      <3>1. result'[f] = Err \/ result'[f] \in Nat
        BY <2>2, SMTT(30) DEF FetchResolve, Cache!FetchResolve, StaleInv, HandleInv
      <3> QED BY <2>2, <3>1, <1>1, SMTT(30) DEF FetchResolve, Advanced
    <2> QED BY <2>1, <2>2, Zenon
  <1>4. Promised'
    <2>1. \A x \in Task : low'[x] <= latest'
      BY <1>1, <1>2, SMTT(30) DEF StaleInv, Promised
    <2>2. pinned' = None => acked' <= dataset'
      BY <1>1, <1>2, <1>3, SMTT(30) DEF StaleInv, Promised
    <2>3. pinned' = None /\ mode' # "Strong" => \A x \in Task : low'[x] <= dataset'
      BY <1>1, <1>2, <1>3, SMTT(30) DEF StaleInv, Promised
    <2> QED BY <1>2, <2>1, <2>2, <2>3, Zenon DEF StaleInv, Promised
  <1>5. PromiseKept'
    BY <1>2, Zenon DEF StaleInv, PromiseKept
  <1> QED BY <1>4, <1>5, Zenon

\* What an answer of the cache may be, and how old.
LEMMA CacheAnswers ==
  ASSUME StaleInv, Cache!IInv', NEW t \in Task,
         \/ Cache!TryGet(t)
         \/ Cache!GetFast(t) \/ Cache!GetSlow(t) \/ Cache!GetDone(t)
  PROVE  /\ \E k \in {"idle", "slow", "wait"} : call' = [call EXCEPT ![t] = k]
         /\ asof' = [asof EXCEPT ![t] = IF call[t] = "idle" THEN floor ELSE asof[t]]
         /\ UNCHANGED <<latest, floor>>
         /\ Cache!TryGet(t) => call'[t] = "idle" /\ ret'[t] \in Nat \cup {None}
         /\ ~Cache!TryGet(t) /\ call'[t] = "idle" => ret'[t] \in Nat \cup {Err}
         /\ call'[t] = "idle" /\ ret'[t] \in Nat => ret'[t] >= asof'[t]
  <1> USE DEF Cache!Return, Cache!Wait
  <1>1. /\ call \in [Task -> {"idle", "slow", "wait"}] /\ asof \in [Task -> Nat]
        /\ ret \in [Task -> Nat \cup {None, Err}]
        /\ state \in Cache!State /\ result \in [Fetch -> Nat \cup {None, Err}]
        /\ stage \in [Fetch -> {"unused", "running", "read", "resolved", "done"}]
    BY Zenon DEF StaleInv, Cache!IInv, Cache!TypeOK
  <1>2. call'[t] = "idle" /\ ret'[t] \in Nat => ret'[t] >= asof'[t]
    BY Zenon DEF Cache!IInv, Cache!NoStaleReturn
  <1>3. CASE Cache!TryGet(t)
    <2>1. ret'[t] \in Nat \cup {None}
      BY <1>1, <1>3, Zenon DEF Cache!TryGet, Cache!IsFresh, Cache!State, Cache!Entry
    <2> QED BY <1>1, <1>2, <1>3, <2>1, Zenon DEF Cache!TryGet
  <1>4. CASE Cache!GetFast(t)
    <2>1. call'[t] = "idle" => ret'[t] \in Nat
      BY <1>1, <1>4, Zenon DEF Cache!GetFast, Cache!IsFresh, Cache!State, Cache!Entry
    <2>2. \E k \in {"idle", "slow", "wait"} : call' = [call EXCEPT ![t] = k]
      BY <1>4, Zenon DEF Cache!GetFast
    <2>3. /\ asof' = [asof EXCEPT ![t] = IF call[t] = "idle" THEN floor ELSE asof[t]]
          /\ UNCHANGED <<latest, floor>>
      BY <1>4, Zenon DEF Cache!GetFast
    <2>4. Cache!TryGet(t) => call'[t] = "idle" /\ ret'[t] \in Nat \cup {None}
      BY <1>1, <2>1, Zenon DEF Cache!TryGet
    <2>5. ~Cache!TryGet(t) /\ call'[t] = "idle" => ret'[t] \in Nat \cup {Err}
      BY <2>1, Zenon
    <2> QED BY <1>2, <2>2, <2>3, <2>4, <2>5, Zenon
  <1>5. CASE Cache!GetSlow(t)
    <2>1. ~Cache!TryGet(t)
      BY <1>5, Zenon DEF Cache!GetSlow, Cache!TryGet
    <2>2. Cache!Settled.tag = "Current" => Cache!Settled.entry.value \in Nat
      BY <1>1, OptionAssumption, CacheAssumption, Zenon
         DEF StaleInv, Cache!IInv, Cache!StateShape, Cache!FetchShape, Cache!Settled,
             Cache!State, Cache!Entry, Cache!Fallback, Cache!Current, Cache!Empty,
             Cache!Resolved
    <2>3. Cache!Settled.tag = "Refreshing" /\ Cache!Settled.entry # None
             => Cache!Settled.entry.value \in Nat
      BY <1>1, Zenon DEF Cache!Settled, Cache!State, Cache!Entry, Cache!Fallback, Cache!Current,
                  Cache!Empty
    <2>4. \/ \E f : Cache!Wait(t, f)
          \/ \E v \in Nat : Cache!Return(t, v)
      BY <1>5, <2>2, <2>3, Zenon DEF Cache!GetSlow
    <2>5. /\ \E k \in {"idle", "slow", "wait"} : call' = [call EXCEPT ![t] = k]
          /\ call'[t] = "idle" => ret'[t] \in Nat
      BY <1>1, <2>4, Zenon
    <2>6. call[t] = "slow" /\ UNCHANGED <<latest, floor, asof>>
      BY <1>5, Zenon DEF Cache!GetSlow
    <2>7. asof' = [asof EXCEPT ![t] = IF call[t] = "idle" THEN floor ELSE asof[t]]
      BY <1>1, <2>6, Zenon
    <2>8. call'[t] = "idle" => ret'[t] \in Nat \cup {Err}
      BY <2>5, Zenon
    <2> QED BY <1>2, <2>1, <2>5, <2>6, <2>7, <2>8, Zenon
  <1>6. CASE Cache!GetDone(t)
    <2>1. ~Cache!TryGet(t)
      BY <1>6, Zenon DEF Cache!GetDone, Cache!TryGet
    <2>2. result[waitFor[t]] \in Nat \cup {Err}
      BY <1>1, <1>6, Zenon DEF Cache!GetDone, Cache!Resolved, StaleInv, Cache!IInv,
                        Cache!WaitNotStale, Cache!FetchShape
    <2>3. /\ call' = [call EXCEPT ![t] = "idle"] /\ ret'[t] \in Nat \cup {Err}
          /\ call[t] = "wait" /\ UNCHANGED <<latest, floor, asof>>
      BY <1>1, <1>6, <2>2, Zenon DEF Cache!GetDone
    <2> QED BY <1>1, <1>2, <2>1, <2>3, Zenon
  <1> QED BY <1>3, <1>4, <1>5, <1>6, Zenon

\* What a task does with an answer of the cache.
LEMMA CacheAnswerCarried ==
  ASSUME StaleInv, Cache!IInv', NEW t \in Task, TryGetCache(t) \/ GetFromCache(t)
  PROVE  /\ call'[t] # "idle" => pc[t] = "cache_get" /\ UNCHANGED taskVars
         /\ call'[t] = "idle" => \/ Carry(t, "cache_get", val[t])
                                 \/ Carry(t, "idle", val[t])
                                 \/ ret'[t] \in Nat /\ Carry(t, "got", ret'[t])
  <1>1. CASE TryGetCache(t)
    <2>1. ret'[t] \in Nat \cup {None} /\ call'[t] = "idle"
      BY <1>1, CacheAnswers, Zenon DEF TryGetCache
    <2> QED BY <1>1, <2>1, Zenon DEF TryGetCache, Goto
  <1>2. CASE GetFromCache(t)
    <2>1. ret'[t] \in Nat \cup {Err, None}
      BY Zenon DEF Cache!IInv, Cache!TypeOK
    <2>2. call'[t] = "idle" => ret'[t] # None
      <3>1. CASE Cache!GetFast(t)
        <4>1. call \in [Task -> {"idle", "slow", "wait"}] /\ state \in Cache!State
              /\ ret \in [Task -> Nat \cup {None, Err}]
          BY Zenon DEF StaleInv, Cache!IInv, Cache!TypeOK
        <4> QED BY <3>1, <4>1, OptionAssumption, Zenon
               DEF Cache!GetFast, Cache!Return, Cache!IsFresh, Cache!State, Cache!Entry
      <3>2. CASE Cache!GetSlow(t) \/ Cache!GetDone(t)
        <4>1. ~Cache!TryGet(t)
          BY <3>2, Zenon DEF Cache!GetSlow, Cache!GetDone, Cache!TryGet
        <4> QED BY <3>2, <4>1, CacheAnswers, OptionAssumption, Zenon
      <3> QED BY <1>2, <3>1, <3>2, Zenon DEF GetFromCache
    <2> QED BY <1>2, <2>1, <2>2, Zenon DEF GetFromCache, Goto
  <1> QED BY <1>1, <1>2, Zenon

\* A read served by the cache is no older than the invalidation before it, and
\* so than what it was promised.
LEMMA CacheStale ==
  ASSUME StaleInv, Cache!IInv', NEW t \in Task, TryGetCache(t) \/ GetFromCache(t)
  PROVE  Promised' /\ PromiseKept'
  <1>1. /\ latest \in Nat /\ floor \in Nat /\ low \in [Task -> Nat] /\ asof \in [Task -> Nat]
        /\ val \in [Task -> Nat] /\ pc \in [Task -> Locations]
        /\ call \in [Task -> {"idle", "slow", "wait"}]
    BY CacheTypes, Zenon DEF StaleInv, TypeOK
  <1>2. UNCHANGED <<mode, pinned, dataset, acked, low>>
    BY Zenon DEF TryGetCache, GetFromCache, handleVars, ghostVars
  <1>3. PICK k \in {"idle", "slow", "wait"} :
           /\ call' = [call EXCEPT ![t] = k]
           /\ asof' = [asof EXCEPT ![t] = IF call[t] = "idle" THEN floor ELSE asof[t]]
           /\ UNCHANGED <<latest, floor>>
           /\ call'[t] = "idle" /\ ret'[t] \in Nat => ret'[t] >= asof'[t]
    BY CacheAnswers, Zenon DEF TryGetCache, GetFromCache
  <1>4. mode = "Eventual" /\ asof'[t] \in Nat /\ low[t] <= asof'[t] /\ asof'[t] <= floor
    BY <1>1, <1>3, Zenon
       DEF TryGetCache, GetFromCache, StaleInv, PromiseKept, Cache!IInv, Cache!FloorBounds
  <1>5. Promised'
    BY <1>2, <1>3, Zenon DEF StaleInv, Promised
  <1>6. \/ k # "idle" /\ pc[t] = "cache_get" /\ UNCHANGED <<pc, val>>
        \/ k = "idle" /\ Carry(t, "cache_get", val[t])
        \/ k = "idle" /\ Carry(t, "idle", val[t])
        \/ k = "idle" /\ ret'[t] \in Nat /\ Carry(t, "got", ret'[t])
    <2>1. call'[t] = k
      BY <1>1, <1>3, Zenon
    <2> QED BY <2>1, CacheAnswerCarried, Zenon DEF taskVars
  <1>7. /\ mode' = "Eventual" => acked' <= floor'
        /\ \A x \in Task : x # t => /\ pc'[x] = pc[x] /\ val'[x] = val[x] /\ low'[x] = low[x]
                                    /\ call'[x] = call[x] /\ asof'[x] = asof[x]
    BY <1>1, <1>2, <1>3, <1>6, ZenonT(40) DEF Carry, StaleInv, PromiseKept
  <1>8. /\ pc'[t] \in {"refresh_store", "got"} => val'[t] >= low'[t]
        /\ pc'[t] \notin {"lazy", "get", "try_get", "invalidate"}
        /\ pc'[t] = "cache_get" => low'[t] <= IF call'[t] = "idle" THEN floor' ELSE asof'[t]
        /\ call'[t] # "idle" => pc'[t] = "cache_get"
    <2>1. call'[t] = k
      BY <1>1, <1>3, Zenon
    <2>2. CASE k # "idle" /\ pc[t] = "cache_get" /\ UNCHANGED <<pc, val>>
      BY <2>1, <2>2, <1>1, <1>2, <1>3, <1>4, Zenon
    <2>3. CASE k = "idle" /\ Carry(t, "cache_get", val[t])
      BY <2>1, <2>3, <1>1, <1>2, <1>3, <1>4, SMTT(30) DEF Carry
    <2>4. CASE k = "idle" /\ Carry(t, "idle", val[t])
      BY <2>1, <2>4, <1>1, <1>2, <1>3, <1>4, Zenon DEF Carry
    <2>5. CASE k = "idle" /\ ret'[t] \in Nat /\ Carry(t, "got", ret'[t])
      <3>1. ret'[t] >= low[t]
        BY <2>1, <2>5, <1>1, <1>3, <1>4, SMTT(30)
      <3> QED BY <2>1, <2>5, <3>1, <1>1, <1>2, ZenonT(40) DEF Carry
    <2> QED BY <1>6, <2>2, <2>3, <2>4, <2>5, Zenon
  <1>9. PromiseKept'
    BY <1>2, <1>3, <1>4, <1>7, <1>8, ZenonT(40) DEF StaleInv, PromiseKept
  <1> QED BY <1>5, <1>9, Zenon

LEMMA CarryTypes ==
  ASSUME TypeOK, NEW t \in Task, NEW l \in Locations, NEW v \in Nat, Carry(t, l, v)
  PROVE  /\ op' \in [Task -> Ops] /\ pc' \in [Task -> Locations]
         /\ val' \in [Task -> Nat] /\ found' \in [Task -> Nat]
  BY SMTT(30) DEF TypeOK, Carry, Ops

LEMMA StepTypes ==
  ASSUME StaleInv, HandleInv', Cache!IInv', Next
  PROVE  TypeOK'
  <1> USE DEF StaleInv, handleVars, ghostVars, cacheVars
  <1>1. latest' \in Nat /\ mode' \in Modes /\ dataset' \in Nat /\ pinned' \in Nat \cup {None}
    BY SMTT(30) DEF HandleInv
  <1>2. ASSUME NEW t \in Task, NEW o \in Ops, NEW l \in Locations, NEW v \in Nat,
               Begin(t, o, l, v), found' \in [Task -> Nat]
        PROVE  TypeOK'
    <2>1. Required \in Nat
      BY Zenon DEF Required, TypeOK
    <2> QED BY <1>1, <1>2, <2>1, SMTT(30) DEF Begin, TypeOK
  <1>3. ASSUME NEW t \in Task,
               \/ BeginGet(t) \/ BeginSnapshot(t) \/ BeginWrite(t)
               \/ BeginCheckoutLatest(t) \/ BeginReload(t) \/ BeginRestore(t)
               \/ \E v \in 0 .. latest, isTag \in BOOLEAN : BeginCheckout(t, v, isTag)
        PROVE  TypeOK'
    <2>1. found' \in [Task -> Nat]
      BY <1>3, Zenon DEF BeginGet, BeginSnapshot, BeginWrite, BeginCheckoutLatest, BeginReload,
                  BeginRestore, BeginCheckout, TypeOK
    <2>2. \E o \in Ops, l \in Locations, v \in Nat : Begin(t, o, l, v)
      BY <1>3, SMTT(30) DEF BeginGet, BeginSnapshot, BeginWrite, BeginCheckoutLatest, BeginReload,
                  BeginRestore, BeginCheckout, Ops, Locations, TypeOK
    <2> QED BY <1>2, <2>1, <2>2, Zenon
  <1>4. ASSUME NEW t \in Task,
               \/ Get(t) \/ GetLazy(t) \/ RefreshRead(t) \/ EndGet(t) \/ Sample(t)
               \/ AsLatest(t) \/ AsLatestRead(t) \/ Reload(t) \/ StorageError(t)
               \/ Commit(t)
        PROVE  TypeOK'
    <2> USE DEF Locations, Goto, TypeOK
    <2>1. UNCHANGED <<querySnapshot, ops, acked, low>>
      BY <1>4, Zenon DEF Get, GetLazy, RefreshRead, EndGet, Sample, AsLatest, AsLatestRead, Reload,
                  StorageError, Commit
    <2>2. \E l \in Locations, v \in Nat : Carry(t, l, v)
      <3>1. CASE Get(t)
        BY <3>1, Zenon DEF Get, Modes
      <3>2. CASE GetLazy(t) \/ RefreshRead(t) \/ EndGet(t) \/ Sample(t) \/ AsLatestRead(t)
                 \/ StorageError(t)
        BY <3>2, Zenon DEF GetLazy, RefreshRead, EndGet, Sample, AsLatestRead, StorageError
      <3>3. CASE AsLatest(t)
        BY <3>3, Zenon DEF AsLatest, AfterAsLatest
      <3>4. CASE Reload(t)
        BY <3>4, Zenon DEF Reload
      <3>5. CASE Commit(t)
        BY <3>5, SMTT(30) DEF Commit
      <3> QED BY <1>4, <3>1, <3>2, <3>3, <3>4, <3>5, Zenon
    <2>3. snap' \in [Task -> Snapshot \cup {None}]
      <3>1. CASE Sample(t)
        <4>1. [version |-> dataset, internal |-> querySnapshot \/ pinned = None] \in Snapshot
          BY Zenon DEF Snapshot
        <4> QED BY <3>1, <4>1, Zenon DEF Sample
      <3>2. CASE ~Sample(t)
        BY <1>4, <3>2, Zenon DEF Get, GetLazy, RefreshRead, EndGet, AsLatest, AsLatestRead, Reload,
                          StorageError, Commit
      <3> QED BY <3>1, <3>2, Zenon
    <2> QED BY <1>1, <2>1, <2>2, <2>3, CarryTypes, Zenon
  <1>5. ASSUME NEW t \in Task,
               RefreshStore(t) \/ Update(t) \/ AsLatestStore(t) \/ StoreCheckout(t)
        PROVE  TypeOK'
    <2>1. UNCHANGED <<snap, ops>> /\ querySnapshot' \in BOOLEAN
      <3>1. UNCHANGED <<snap, ops>>
        BY <1>5, Zenon DEF RefreshStore, Update, AsLatestStore, StoreCheckout
      <3>2. querySnapshot' = querySnapshot \/ querySnapshot' = FALSE
        BY <1>5, Zenon DEF RefreshStore, Update, AsLatestStore, StoreCheckout
      <3> QED BY <3>1, <3>2, Zenon DEF TypeOK
    <2>2. \E l \in Locations, v \in Nat : Carry(t, l, v)
      BY <1>5, Zenon DEF RefreshStore, Update, AsLatestStore, StoreCheckout, AfterAsLatest, Goto,
                  Locations, TypeOK
    <2>3. low' \in [Task -> Nat]
      <3>1. low \in [Task -> Nat] /\ latest \in Nat /\ dataset \in Nat /\ val \in [Task -> Nat]
        BY Zenon DEF TypeOK
      <3>2. CASE RefreshStore(t)
        BY <3>1, <3>2, Zenon DEF RefreshStore, Stored
      <3>3. CASE Update(t)
        BY <3>1, <3>3, Zenon DEF Update, Stored
      <3>4. CASE AsLatestStore(t)
        BY <3>1, <3>4, Zenon DEF AsLatestStore, Stored
      <3>5. CASE StoreCheckout(t)
        BY <3>1, <3>5, SMTT(30) DEF StoreCheckout, Stored
      <3> QED BY <1>5, <3>2, <3>3, <3>4, <3>5, Zenon
    <2>4. acked' \in Nat
      BY <1>5, <2>3, ZenonT(40) DEF RefreshStore, Update, AsLatestStore, StoreCheckout, Ack, TypeOK
    <2> QED BY <1>1, <2>1, <2>2, <2>3, <2>4, CarryTypes, ZenonT(40) DEF TypeOK
  <1>6. ASSUME NEW t \in Task, Invalidate(t) \/ AsLatestInvalidate(t)
        PROVE  TypeOK'
    <2>1. UNCHANGED <<snap, ops, querySnapshot, low>> /\ acked' \in Nat
      BY <1>6, Zenon DEF Invalidate, AsLatestInvalidate, Ack, TypeOK
    <2>2. \E l \in Locations, v \in Nat : Carry(t, l, v)
      BY <1>6, Zenon DEF Invalidate, AsLatestInvalidate, AfterAsLatest, Goto, Locations, TypeOK
    <2> QED BY <1>1, <2>1, <2>2, CarryTypes, Zenon DEF TypeOK
  <1>7. ASSUME NEW t \in Task, TryGetCache(t) \/ GetFromCache(t)
        PROVE  TypeOK'
    <2>1. UNCHANGED <<snap, ops, querySnapshot, acked, low>>
      BY <1>7, Zenon DEF TryGetCache, GetFromCache
    <2>2. \/ UNCHANGED <<op, pc, val, found>>
          \/ \E l \in Locations, v \in Nat : Carry(t, l, v)
      BY <1>7, CacheAnswerCarried, Zenon DEF taskVars, Locations, TypeOK
    <2> QED BY <1>1, <2>1, <2>2, CarryTypes, Zenon DEF TypeOK
  <1>8. ASSUME OtherCommit \/ CacheStep \/ \E f \in Fetch : FetchResolve(f)
        PROVE  TypeOK'
    BY <1>1, <1>8, Zenon DEF OtherCommit, CacheStep, FetchResolve, TypeOK, taskVars
  <1> QED BY <1>3, <1>4, <1>5, <1>6, <1>7, <1>8, Zenon DEF Next

LEMMA NextStaleInv ==
  ASSUME StaleInv, [Next]_vars
  PROVE  StaleInv'
  <1>1. HandleInv' /\ Cache!IInv'
    BY NextHandleInv, StepsOfCache, CacheStepInv, Zenon DEF StaleInv
  <1>2. CASE UNCHANGED vars
    BY <1>1, <1>2, ZenonT(40) DEF vars, StaleInv, TypeOK, Promised, PromiseKept
  <1>3. CASE Next
    <2>1. TypeOK'
      BY <1>1, <1>3, StepTypes, Zenon
    <2>2. Promised' /\ PromiseKept'
      BY <1>1, <1>3, QuietStale, BeginStale, CommitStale, StoreStale, InvalidateStale,
         AsLatestStale, CheckoutStale, AwayStale, CacheStale, ZenonT(40) DEF Next
    <2> QED BY <1>1, <2>1, <2>2, Zenon DEF StaleInv
  <1> QED BY <1>2, <1>3, Zenon

\* The variables of the wrapper and of the tasks that share it stay well formed.
THEOREM HandleTypeCorrect == Spec => []TypeOK
  <1>1. StaleInv => TypeOK
    BY Zenon DEF StaleInv
  <1> QED BY InitStaleInv, NextStaleInv, <1>1, PTL DEF Spec

\* No read returns a version older than what was acknowledged before it began, in
\* any consistency mode, for any number of tasks and fetches of the cache (get,
\* update, reload and the invalidation of bg_cache in DatasetConsistencyWrapper).
THEOREM ReadsNotStale == Spec => []GetNotStale
  <1>1. StaleInv => GetNotStale
    BY Zenon DEF StaleInv, PromiseKept, GetNotStale
  <1> QED BY InitStaleInv, NextStaleInv, <1>1, PTL DEF Spec

\* Version and provenance of a query snapshot come from one critical section of
\* new_query_snapshot: they agree with the handle at the step that makes it.
THEOREM SnapshotsAgree == Spec => SnapshotProvenance
  <1> DEFINE Agrees == \A t \in Task : snap'[t] \notin {snap[t], None} =>
                          IF pinned = None \/ querySnapshot
                          THEN snap'[t].internal /\ snap'[t].version = dataset
                          ELSE ~snap'[t].internal /\ snap'[t].version = pinned
  <1>1. ASSUME StaleInv, [Next]_vars PROVE [Agrees]_vars
    <2>1. snap \in [Task -> Snapshot \cup {None}] /\ pinned \in {None, dataset}
          /\ querySnapshot \in BOOLEAN
      BY <1>1, Zenon DEF StaleInv, TypeOK, HandleInv
    <2>2. \/ UNCHANGED snap
          \/ \E t \in Task : snap' = [snap EXCEPT ![t] = None]
          \/ \E t \in Task : Sample(t)
      <3>1. CASE UNCHANGED vars
        BY <3>1, Zenon DEF vars
      <3>2. CASE \E t \in Task : TryGetCache(t) \/ GetFromCache(t) \/ Invalidate(t)
                                 \/ AsLatestInvalidate(t)
        BY <3>2, Zenon DEF TryGetCache, GetFromCache, Invalidate, AsLatestInvalidate
      <3>3. CASE OtherCommit \/ CacheStep \/ \E f \in Fetch : FetchResolve(f)
        BY <3>3, Zenon DEF OtherCommit, CacheStep, FetchResolve
      <3>4. CASE \E t \in Task :
                    \/ BeginGet(t) \/ BeginSnapshot(t) \/ BeginWrite(t)
                    \/ BeginCheckoutLatest(t) \/ BeginReload(t) \/ BeginRestore(t)
                    \/ \E v \in 0 .. latest, isTag \in BOOLEAN : BeginCheckout(t, v, isTag)
        BY <3>4, Zenon DEF BeginGet, BeginSnapshot, BeginWrite, BeginCheckoutLatest, BeginReload,
                    BeginRestore, BeginCheckout, Begin
      <3>5. CASE \E t \in Task :
                    \/ Get(t) \/ GetLazy(t) \/ RefreshRead(t) \/ RefreshStore(t) \/ EndGet(t)
                    \/ Sample(t) \/ Commit(t) \/ Update(t) \/ AsLatest(t) \/ AsLatestRead(t)
                    \/ AsLatestStore(t) \/ Reload(t) \/ StoreCheckout(t) \/ StorageError(t)
        BY <3>5, Zenon DEF Get, GetLazy, RefreshRead, RefreshStore, EndGet, Commit, Update, AsLatest,
                    AsLatestRead, AsLatestStore, Reload, StoreCheckout, StorageError
      <3> QED BY <1>1, <3>1, <3>2, <3>3, <3>4, <3>5, Zenon DEF Next
    <2>3. CASE UNCHANGED snap \/ \E t \in Task : snap' = [snap EXCEPT ![t] = None]
      BY <2>1, <2>3, Zenon
    <2>4. ASSUME NEW t \in Task, Sample(t)
          PROVE  Agrees
      <3>1. snap' = [snap EXCEPT ![t] =
               [version |-> dataset, internal |-> querySnapshot \/ pinned = None]]
        BY <2>4, Zenon DEF Sample
      <3>2. \A x \in Task : x # t => snap'[x] = snap[x]
        BY <3>1, <2>1, Zenon
      <3>3. /\ snap'[t].version = dataset
            /\ snap'[t].internal = (querySnapshot \/ pinned = None)
        BY <3>1, <2>1, Zenon
      <3>4. /\ querySnapshot \/ pinned = None => snap'[t].internal
            /\ ~(querySnapshot \/ pinned = None) => ~snap'[t].internal
        BY <3>3, Zenon
      <3>5. ~(querySnapshot \/ pinned = None) => pinned = dataset
        BY <2>1, Zenon
      <3>6. ASSUME NEW x \in Task, x = t
            PROVE  IF pinned = None \/ querySnapshot
                   THEN snap'[x].internal /\ snap'[x].version = dataset
                   ELSE ~snap'[x].internal /\ snap'[x].version = pinned
        BY <3>3, <3>4, <3>5, <3>6, Zenon
      <3> QED BY <3>2, <3>6, Zenon
    <2> QED BY <2>2, <2>3, <2>4, Zenon
  <1> QED BY InitStaleInv, NextStaleInv, <1>1, PTL DEF Spec, SnapshotProvenance
=============================================================================
