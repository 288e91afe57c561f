------------------------ MODULE BackgroundCacheProofs ------------------------
(***************************************************************************)
(* Proofs that the cache of utils/background_cache.rs keeps the promise of *)
(* invalidate, for every TTL, every number of callers and fetches and      *)
(* every bound.                                                            *)
(***************************************************************************)
EXTENDS BackgroundCache, TLAPS

\* A cache is created empty or seeded with what the source holds.
LEMMA InitIInv == Init => IInv
<1> SUFFICES ASSUME Init PROVE IInv
  BY Zenon
<1> USE ValueAssumption
<1>1. TypeOK
  BY SMTT(30) DEF Init, Untouched, TypeOK, State, Entry, Empty, Current
<1>2. StateShape /\ NoStaleWrite
  BY SMTT(30) DEF Init, Untouched, StateShape, NoStaleWrite, Empty, Current
<1>3. FetchShape /\ FetchNotStale /\ WaitNotStale /\ FloorBounds /\ NoStaleReturn
  BY SMTT(30) DEF Init, Untouched, FetchShape, FetchNotStale, WaitNotStale, FloorBounds, NoStaleReturn
<1> QED
  BY <1>1, <1>2, <1>3, Zenon DEF IInv

-----------------------------------------------------------------------------

\* The state determine_action works on after a resolved future has been peeked:
\* it is a legal state, it holds no value read before the last invalidation, and
\* if it is still refreshing nothing was peeked.
LEMMA SettledFacts ==
    ASSUME IInv
    PROVE  /\ Settled \in State
           /\ Settled.entry # None => Settled.entry.value >= floor
           /\ Settled.tag = "Empty" => Settled = Empty
           /\ Settled.tag = "Current" => Settled.entry # None /\ Settled.future = None
           /\ Settled.tag = "Refreshing" => Settled = state
<1> USE ValueAssumption DEF IInv
<1>1. CASE ~(state.tag = "Refreshing" /\ Resolved(state.future))
  BY <1>1, Zenon DEF Settled, TypeOK, State, StateShape, NoStaleWrite
<1>2. CASE state.tag = "Refreshing" /\ Resolved(state.future)
  <2>1. /\ state.future \in Fetch
        /\ result[state.future] \in Nat \cup {Err}
        /\ fetchGen[state.future] = generation
    BY <1>2, Zenon DEF StateShape, FetchShape, TypeOK, Resolved
  <2>2. CASE result[state.future] = Err
    <3>1. Settled = Fallback(state.entry)
      BY <1>2, <2>2, Zenon DEF Settled
    <3>2. CASE state.entry = None
      BY <3>1, <3>2, Zenon DEF Fallback, Empty, State
    <3>3. CASE state.entry # None
      <4>1. state.entry \in Entry
        BY <3>3, Zenon DEF TypeOK, State
      <4> QED
        BY <3>1, <3>3, <4>1, Zenon DEF Fallback, Current, State, Entry, NoStaleWrite
    <3> QED
      BY <3>2, <3>3, Zenon
  <2>3. CASE result[state.future] # Err
    <3>1. result[state.future] \in Nat /\ result[state.future] >= floor
      BY <2>1, <2>3, Zenon DEF FetchNotStale
    <3>2. Settled = Current(result[state.future], now)
      BY <1>2, <2>3, Zenon DEF Settled
    <3> QED
      BY <3>1, <3>2, SMTT(30) DEF Current, State, Entry, TypeOK
  <2> QED
    BY <2>2, <2>3, Zenon
<1> QED
  BY <1>1, <1>2, Zenon

-----------------------------------------------------------------------------

\* A call that returns v to caller c, having changed neither the cache nor the
\* fetches, keeps the invariant if v is not older than what c may see.
LEMMA ReturnStep ==
    ASSUME IInv, NEW c \in Caller, NEW v \in Nat \cup {None, Err},
           Return(c, v),
           UNCHANGED <<generation, now, source, floor>>,
           asof' = asof \/ asof' = [asof EXCEPT ![c] = floor],
           v \in Nat => v >= asof'[c],
           state' \in State,
           state'.entry # None => state'.entry.value >= floor,
           StateShape', FetchShape', FetchNotStale',
           stage' \in [Fetch -> {"unused", "running", "read", "resolved", "done"}],
           fetchGen' \in [Fetch -> Nat],
           result' \in [Fetch -> Nat \cup {None, Err}],
           \A f \in Fetch : \/ stage'[f] = stage[f] /\ result'[f] = result[f]
                            \/ Free(f)
    PROVE  IInv'
<1> USE DEF IInv
<1>1. TypeOK'
  BY ValueAssumption, Zenon DEF TypeOK, Return
<1>2. NoStaleWrite'
  BY Zenon DEF NoStaleWrite
<1>3. NoStaleReturn'
  BY Zenon DEF NoStaleReturn, Return, TypeOK
<1>4. FloorBounds'
  BY SMTT(30) DEF FloorBounds, TypeOK
<1>5. WaitNotStale'
  <2> SUFFICES ASSUME NEW d \in Caller
               PROVE  /\ call'[d] # "wait" => waitFor'[d] = None
                      /\ call'[d] = "wait" =>
                           /\ waitFor'[d] \in Fetch
                           /\ stage'[waitFor'[d]] # "unused"
                           /\ result'[waitFor'[d]] \in Nat => result'[waitFor'[d]] >= asof'[d]
    BY Zenon DEF WaitNotStale
  <2>1. CASE d = c
    BY <2>1, Zenon DEF Return, TypeOK
  <2>2. CASE d # c
    <3>1. call'[d] = call[d] /\ waitFor'[d] = waitFor[d] /\ asof'[d] = asof[d]
      BY <2>2, Zenon DEF Return, TypeOK
    <3> QED
      BY <3>1, SMTT(30) DEF WaitNotStale, Free
  <2> QED
    BY <2>1, <2>2, Zenon
<1> QED
  BY <1>1, <1>2, <1>3, <1>4, <1>5, Zenon

\* The same for a call that starts to wait for the future of f, a fetch of the
\* current generation.
LEMMA WaitStep ==
    ASSUME IInv, NEW c \in Caller, NEW f \in Fetch,
           call[c] = "slow",
           Wait(c, f),
           UNCHANGED <<generation, now, source, floor, asof>>,
           state' \in State,
           state'.entry # None => state'.entry.value >= floor,
           StateShape', FetchShape', FetchNotStale',
           stage' \in [Fetch -> {"unused", "running", "read", "resolved", "done"}],
           fetchGen' \in [Fetch -> Nat],
           result' \in [Fetch -> Nat \cup {None, Err}],
           fetchGen'[f] = generation, stage'[f] # "unused",
           \A g \in Fetch : \/ stage'[g] = stage[g] /\ result'[g] = result[g]
                            \/ Free(g)
    PROVE  IInv'
<1> USE DEF IInv
<1>1. TypeOK'
  BY Zenon DEF TypeOK, Wait
<1>2. NoStaleWrite'
  BY Zenon DEF NoStaleWrite
<1>3. NoStaleReturn'
  BY Zenon DEF NoStaleReturn, Wait, TypeOK
<1>4. FloorBounds'
  BY Zenon DEF FloorBounds
<1>5. WaitNotStale'
  <2> SUFFICES ASSUME NEW d \in Caller
               PROVE  /\ call'[d] # "wait" => waitFor'[d] = None
                      /\ call'[d] = "wait" =>
                           /\ waitFor'[d] \in Fetch
                           /\ stage'[waitFor'[d]] # "unused"
                           /\ result'[waitFor'[d]] \in Nat => result'[waitFor'[d]] >= asof'[d]
    BY Zenon DEF WaitNotStale
  <2>1. CASE d = c
    <3>1. call'[d] = "wait" /\ waitFor'[d] = f
      BY <2>1, Zenon DEF Wait, TypeOK
    <3>2. result'[f] \in Nat => result'[f] >= floor
      BY Zenon DEF FetchNotStale
    <3> QED
      BY <2>1, <3>1, <3>2, SMTT(30) DEF FloorBounds, TypeOK
  <2>2. CASE d # c
    <3>1. call'[d] = call[d] /\ waitFor'[d] = waitFor[d] /\ asof'[d] = asof[d]
      BY <2>2, Zenon DEF Wait, TypeOK
    <3> QED
      BY <3>1, SMTT(30) DEF WaitNotStale, Free
  <2> QED
    BY <2>1, <2>2, Zenon
<1> QED
  BY <1>1, <1>2, <1>3, <1>4, <1>5, Zenon

\* What start_fetch does to the fetches and the state.
LEMMA StartFetchStep ==
    ASSUME IInv, NEW f \in Fetch, NEW previous \in Entry \cup {None},
           StartFetch(f, previous),
           previous # None => previous.value >= floor,
           UNCHANGED <<generation, floor>>
    PROVE  /\ state' \in State
           /\ state'.entry # None => state'.entry.value >= floor
           /\ StateShape' /\ FetchShape' /\ FetchNotStale'
           /\ stage' \in [Fetch -> {"unused", "running", "read", "resolved", "done"}]
           /\ fetchGen' \in [Fetch -> Nat]
           /\ result' \in [Fetch -> Nat \cup {None, Err}]
           /\ fetchGen'[f] = generation /\ stage'[f] # "unused"
           /\ \A g \in Fetch : \/ stage'[g] = stage[g] /\ result'[g] = result[g]
                               \/ Free(g)
<1> USE ValueAssumption DEF IInv, StartFetch, TypeOK
<1>1. /\ state' \in State
      /\ state'.entry # None => state'.entry.value >= floor
  BY Zenon DEF Refreshing, State
<1>2. StateShape'
  BY Zenon DEF Refreshing, StateShape
<1>3. FetchShape' /\ FetchNotStale'
  BY SMTT(30) DEF FetchShape, FetchNotStale
<1> QED
  BY <1>1, <1>2, <1>3, Zenon

\* When nothing but the calls changes, the facts about the state and the
\* fetches carry over.
LEMMA FetchesUnchanged ==
    ASSUME IInv, UNCHANGED <<generation, floor, fetchVars>>, state' = state
    PROVE  /\ state' \in State
           /\ state'.entry # None => state'.entry.value >= floor
           /\ StateShape' /\ FetchShape' /\ FetchNotStale'
           /\ stage' \in [Fetch -> {"unused", "running", "read", "resolved", "done"}]
           /\ fetchGen' \in [Fetch -> Nat]
           /\ result' \in [Fetch -> Nat \cup {None, Err}]
           /\ \A g \in Fetch : stage'[g] = stage[g] /\ result'[g] = result[g]
<1> USE DEF IInv, fetchVars
<1>1. StateShape'
  BY Zenon DEF StateShape
<1>2. FetchShape' /\ FetchNotStale'
  BY Zenon DEF FetchShape, FetchNotStale
<1> QED
  BY <1>1, <1>2, Zenon DEF TypeOK, NoStaleWrite

LEMMA GetSlowStep ==
    ASSUME IInv, NEW c \in Caller, GetSlow(c)
    PROVE  IInv'
<1> USE DEF IInv
<1> DEFINE s == Settled
<1>1. /\ call[c] = "slow"
      /\ UNCHANGED <<generation, now, source, floor, asof>>
      /\ asof[c] \in Nat /\ asof[c] <= floor /\ floor \in Nat
  BY Zenon DEF GetSlow, FloorBounds, TypeOK
<1>2. /\ s \in State
      /\ s.entry # None => s.entry \in Entry /\ s.entry.value >= floor
      /\ s.entry \in Entry \cup {None}
      /\ s.tag = "Empty" => s = Empty
      /\ s.tag = "Current" => s.entry # None /\ s.future = None
      /\ s.tag = "Refreshing" => s = state
  BY SettledFacts, Zenon DEF State
<1> HIDE DEF s
<1>3. ASSUME s.tag = "Empty", NEW f \in Fetch, StartFetch(f, None), Wait(c, f)
      PROVE  IInv'
  BY <1>1, <1>3, StartFetchStep, WaitStep, Zenon
<1>4. ASSUME s.tag = "Current", state' = s, Return(c, s.entry.value),
             UNCHANGED fetchVars
      PROVE  IInv'
  <2>1. s.entry.value \in Nat /\ s.entry.value >= asof'[c]
    BY <1>1, <1>2, <1>4, SMTT(30) DEF Entry
  <2>2. StateShape'
    BY <1>2, <1>4, Zenon DEF StateShape
  <2>3. FetchShape' /\ FetchNotStale'
    BY <1>1, <1>4, Zenon DEF FetchShape, FetchNotStale, fetchVars
  <2> QED
    BY <1>1, <1>2, <1>4, <2>1, <2>2, <2>3, ReturnStep, Zenon DEF fetchVars, TypeOK
<1>5. ASSUME s.tag = "Current", NEW f \in Fetch, StartFetch(f, s.entry),
             Return(c, s.entry.value)
      PROVE  IInv'
  <2>1. s.entry.value \in Nat /\ s.entry.value >= asof'[c]
    BY <1>1, <1>2, <1>5, SMTT(30) DEF Entry
  <2> QED
    BY <1>1, <1>2, <1>5, <2>1, StartFetchStep, ReturnStep, Zenon
<1>6. ASSUME s.tag = "Current", NEW f \in Fetch, StartFetch(f, s.entry), Wait(c, f)
      PROVE  IInv'
  BY <1>1, <1>2, <1>6, StartFetchStep, WaitStep, Zenon
<1>7. ASSUME s.tag = "Refreshing", state' = s, s.entry # None,
             Return(c, s.entry.value), UNCHANGED fetchVars
      PROVE  IInv'
  <2>1. s.entry.value \in Nat /\ s.entry.value >= asof'[c]
    BY <1>1, <1>2, <1>7, SMTT(30) DEF Entry
  <2>2. state' = state
    BY <1>2, <1>7, Zenon
  <2> QED
    BY <1>1, <1>7, <2>1, <2>2, FetchesUnchanged, ReturnStep, Zenon
<1>8. ASSUME s.tag = "Refreshing", state' = s, Wait(c, s.future), UNCHANGED fetchVars
      PROVE  IInv'
  <2>1. state' = state /\ s.future = state.future /\ state.tag = "Refreshing"
    BY <1>2, <1>8, Zenon
  <2>2. /\ s.future \in Fetch /\ stage'[s.future] # "unused"
        /\ fetchGen'[s.future] = generation
    BY <1>8, <2>1, Zenon DEF StateShape, fetchVars
  <2> QED
    BY <1>1, <1>8, <2>1, <2>2, FetchesUnchanged, WaitStep, Zenon
<1> QED
  BY <1>3, <1>4, <1>5, <1>6, <1>7, <1>8, Zenon DEF GetSlow, s

\* Every step keeps the invariant.
LEMMA NextIInv == IInv /\ [Next]_vars => IInv'
<1> SUFFICES ASSUME IInv, [Next]_vars PROVE IInv'
  BY Zenon
<1> USE ValueAssumption DEF IInv
<1>1. ASSUME NEW c \in Caller, TryGet(c) PROVE IInv'
  <2> DEFINE v == IF IsFresh THEN state.entry.value ELSE None
  <2>1. v \in Nat \cup {None, Err} /\ (v \in Nat => v >= floor)
    BY Zenon DEF IsFresh, TypeOK, State, Entry, NoStaleWrite
  <2>2. Return(c, v) /\ asof' = [asof EXCEPT ![c] = floor] /\ asof'[c] = floor
    BY <1>1, Zenon DEF TryGet, TypeOK
  <2>3. state' = state /\ UNCHANGED <<generation, now, source, floor, fetchVars>>
    BY <1>1, Zenon DEF TryGet
  <2> HIDE DEF v
  <2> QED
    BY <2>1, <2>2, <2>3, FetchesUnchanged, ReturnStep, Zenon
<1>2. ASSUME NEW c \in Caller, GetFast(c) PROVE IInv'
  <2>1. /\ state' = state /\ UNCHANGED <<generation, now, source, floor, fetchVars>>
        /\ asof' = [asof EXCEPT ![c] = floor] /\ asof'[c] = floor
        /\ call[c] = "idle"
    BY <1>2, Zenon DEF GetFast, TypeOK
  <2>2. CASE IsFresh
    <3>1. state.entry.value \in Nat /\ state.entry.value >= floor
      BY <2>2, Zenon DEF IsFresh, TypeOK, State, Entry, NoStaleWrite
    <3>2. Return(c, state.entry.value)
      BY <1>2, <2>2, Zenon DEF GetFast
    <3> QED
      BY <2>1, <3>1, <3>2, FetchesUnchanged, ReturnStep, Zenon
  <2>3. CASE ~IsFresh
    <3>1. /\ call' = [call EXCEPT ![c] = "slow"]
          /\ ret' = [ret EXCEPT ![c] = None]
          /\ UNCHANGED waitFor
      BY <1>2, <2>3, Zenon DEF GetFast
    <3>2. TypeOK'
      BY <2>1, <3>1, Zenon DEF TypeOK, fetchVars
    <3>3. WaitNotStale'
      BY <2>1, <3>1, Zenon DEF WaitNotStale, TypeOK, fetchVars
    <3>4. NoStaleReturn' /\ FloorBounds'
      BY <2>1, <3>1, SMTT(30) DEF NoStaleReturn, FloorBounds, TypeOK
    <3> QED
      BY <2>1, <3>2, <3>3, <3>4, FetchesUnchanged, Zenon DEF NoStaleWrite
  <2> QED
    BY <2>2, <2>3, Zenon
<1>3. ASSUME NEW c \in Caller, GetSlow(c) PROVE IInv'
  BY <1>3, GetSlowStep, Zenon
<1>4. ASSUME NEW c \in Caller, GetDone(c) PROVE IInv'
  <2> DEFINE v == result[waitFor[c]]
  <2>1. /\ v \in Nat \cup {None, Err} /\ (v \in Nat => v >= asof[c])
    BY <1>4, Zenon DEF GetDone, WaitNotStale, TypeOK
  <2>2. /\ Return(c, v) /\ asof' = asof
        /\ state' = state /\ UNCHANGED <<generation, now, source, floor, fetchVars>>
    BY <1>4, Zenon DEF GetDone
  <2> HIDE DEF v
  <2> QED
    BY <2>1, <2>2, FetchesUnchanged, ReturnStep, Zenon
<1>5. ASSUME Invalidate PROVE IInv'
  <2>1. /\ state' = Empty /\ generation' = generation + 1 /\ floor' = source
        /\ UNCHANGED <<now, source, fetchVars, callVars>>
    BY <1>5, Zenon DEF Invalidate
  <2>2. TypeOK'
    BY <2>1, SMTT(30) DEF TypeOK, fetchVars, callVars, Empty, State
  <2>3. StateShape' /\ NoStaleWrite'
    BY <2>1, Zenon DEF StateShape, NoStaleWrite, Empty
  <2>4. FetchShape' /\ FetchNotStale'
    BY <2>1, SMTT(30) DEF FetchShape, FetchNotStale, fetchVars, TypeOK
  <2>5. WaitNotStale' /\ NoStaleReturn' /\ FloorBounds'
    BY <2>1, SMTT(30) DEF WaitNotStale, NoStaleReturn, FloorBounds, fetchVars, callVars, TypeOK
  <2> QED
    BY <2>2, <2>3, <2>4, <2>5, Zenon
<1>6. ASSUME NEW f \in Fetch, FetchRead(f) PROVE IInv'
  <2>1. /\ stage[f] = "running"
        /\ stage' = [stage EXCEPT ![f] = "read"]
        /\ result' = [result EXCEPT ![f] = source]
        /\ UNCHANGED <<state, generation, now, source, fetchGen, callVars, floor>>
    BY <1>6, Zenon DEF FetchRead
  <2>2. TypeOK'
    BY <2>1, Zenon DEF TypeOK, callVars
  <2>3. StateShape' /\ FetchShape' /\ NoStaleWrite'
    BY <2>1, Zenon DEF StateShape, FetchShape, NoStaleWrite, TypeOK, State
  <2>4. FetchNotStale'
    BY <2>1, Zenon DEF FetchNotStale, FloorBounds, TypeOK
  <2>5. WaitNotStale'
    BY <2>1, SMTT(30) DEF WaitNotStale, FloorBounds, TypeOK, callVars
  <2>6. NoStaleReturn' /\ FloorBounds'
    BY <2>1, Zenon DEF NoStaleReturn, FloorBounds, callVars
  <2> QED
    BY <2>2, <2>3, <2>4, <2>5, <2>6, Zenon
<1>7. ASSUME NEW f \in Fetch, FetchResolve(f) PROVE IInv'
  <2>1. /\ stage[f] = "read"
        /\ stage' = [stage EXCEPT ![f] = "resolved"]
        /\ result' \in {result, [result EXCEPT ![f] = Err]}
        /\ UNCHANGED <<state, generation, now, source, fetchGen, callVars, floor>>
    BY <1>7, Zenon DEF FetchResolve
  <2>2. TypeOK'
    BY <2>1, Zenon DEF TypeOK, callVars
  <2>3. StateShape' /\ FetchShape' /\ NoStaleWrite'
    BY <2>1, ZenonT(40) DEF StateShape, FetchShape, NoStaleWrite, TypeOK, State
  <2>4. FetchNotStale'
    BY <2>1, Zenon DEF FetchNotStale, TypeOK
  <2>5. WaitNotStale'
    BY <2>1, Zenon DEF WaitNotStale, TypeOK, callVars
  <2>6. NoStaleReturn' /\ FloorBounds'
    BY <2>1, Zenon DEF NoStaleReturn, FloorBounds, callVars
  <2> QED
    BY <2>2, <2>3, <2>4, <2>5, <2>6, Zenon
<1>8. ASSUME NEW f \in Fetch, Publish(f) PROVE IInv'
  <2>1. /\ stage[f] = "resolved"
        /\ stage' = [stage EXCEPT ![f] = "done"]
        /\ UNCHANGED <<generation, now, source, fetchGen, result, callVars, floor>>
    BY <1>8, Zenon DEF Publish
  <2>2. /\ state' \in State
        /\ state'.entry # None => state'.entry.value >= floor
        /\ StateShape'
    <3>1. CASE generation # fetchGen[f]
      <4>1. state' = state
        BY <1>8, <3>1, Zenon DEF Publish
      <4> QED
        BY <2>1, <4>1, Zenon DEF TypeOK, State, NoStaleWrite, StateShape
    <3>2. CASE generation = fetchGen[f] /\ result[f] # Err
      <4>1. result[f] \in Nat /\ result[f] >= floor
        BY <2>1, <3>2, Zenon DEF FetchShape, FetchNotStale, TypeOK
      <4>2. state' = Current(result[f], now)
        BY <1>8, <3>2, Zenon DEF Publish
      <4> QED
        BY <4>1, <4>2, SMTT(30) DEF Current, State, Entry, StateShape, TypeOK
    <3>3. CASE generation = fetchGen[f] /\ result[f] = Err /\ state.tag = "Refreshing" /\ state.entry # None
      <4>1. state' = Current(state.entry.value, state.entry.at) /\ state.entry \in Entry
        BY <1>8, <3>3, Zenon DEF Publish, Fallback, TypeOK, State
      <4> QED
        BY <4>1, <3>3, Zenon DEF Current, State, Entry, StateShape, NoStaleWrite
    <3>4. CASE /\ generation = fetchGen[f] /\ result[f] = Err
               /\ state.tag # "Refreshing" \/ state.entry = None
      <4>1. state' = Empty
        BY <1>8, <3>4, Zenon DEF Publish, Fallback
      <4> QED
        BY <4>1, Zenon DEF Empty, State, StateShape
    <3> QED
      BY <3>1, <3>2, <3>3, <3>4, Zenon
  <2>3. TypeOK' /\ NoStaleWrite'
    BY <2>1, <2>2, Zenon DEF TypeOK, NoStaleWrite, callVars
  <2>4. FetchShape' /\ FetchNotStale'
    BY <2>1, Zenon DEF FetchShape, FetchNotStale, TypeOK
  <2>5. WaitNotStale'
    BY <2>1, Zenon DEF WaitNotStale, TypeOK, callVars
  <2>6. NoStaleReturn' /\ FloorBounds'
    BY <2>1, Zenon DEF NoStaleReturn, FloorBounds, callVars
  <2> QED
    BY <2>2, <2>3, <2>4, <2>5, <2>6, Zenon
<1>9. ASSUME Tick \/ SourceWrite PROVE IInv'
  <2>1. /\ now' \in Nat /\ source' \in Nat /\ source' >= source
        /\ UNCHANGED <<state, generation, fetchVars, callVars, floor>>
    BY <1>9, SMTT(30) DEF Tick, SourceWrite, TypeOK
  <2>2. TypeOK' /\ FloorBounds'
    BY <2>1, SMTT(30) DEF TypeOK, FloorBounds, fetchVars, callVars
  <2>3. StateShape' /\ FetchShape' /\ FetchNotStale' /\ NoStaleWrite'
    BY <2>1, Zenon DEF StateShape, FetchShape, FetchNotStale, NoStaleWrite, fetchVars
  <2>4. WaitNotStale' /\ NoStaleReturn'
    BY <2>1, Zenon DEF WaitNotStale, NoStaleReturn, fetchVars, callVars
  <2> QED
    BY <2>2, <2>3, <2>4, Zenon
<1>10. CASE UNCHANGED vars
  BY <1>10, Zenon DEF vars, TypeOK, StateShape, FetchShape, FetchNotStale, WaitNotStale,
              FloorBounds, NoStaleWrite, NoStaleReturn
<1> QED
  BY <1>1, <1>2, <1>3, <1>4, <1>5, <1>6, <1>7, <1>8, <1>9, <1>10, Zenon DEF Next

\* Type correctness of the cache, its fetches and its callers.
THEOREM TypeCorrect == Spec => []TypeOK
<1>1. IInv => TypeOK
  BY Zenon DEF IInv
<1> QED
  BY <1>1, InitIInv, NextIInv, PTL DEF Spec

\* invalidate keeps its promise for the cache: whatever was in flight, the cache
\* never holds a value read from the source before the last invalidation.
THEOREM InvalidationFencesCache == Spec => []NoStaleWrite
<1>1. IInv => NoStaleWrite
  BY Zenon DEF IInv
<1> QED
  BY <1>1, InitIInv, NextIInv, PTL DEF Spec

\* invalidate keeps its promise for callers: a get or try_get that began after
\* an invalidation never returns what the source held before it.
THEOREM InvalidationFencesCallers == Spec => []NoStaleReturn
<1>1. IInv => NoStaleReturn
  BY Zenon DEF IInv
<1> QED
  BY <1>1, InitIInv, NextIInv, PTL DEF Spec
=============================================================================
