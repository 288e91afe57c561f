----------------------- MODULE RemoteFreshnessProofs -----------------------
(***************************************************************************)
(* Proofs that the freshness protocol of a remote handle keeps reads fresh *)
(* and its constraints satisfiable, for every number of tasks, nodes,      *)
(* versions and checkouts and every consistency interval.                  *)
(***************************************************************************)
EXTENDS RemoteFreshness, TLAPS

LEMMA InitFreshInv == Init => FreshInv
  <1> SUFFICES ASSUME Init PROVE FreshInv
    BY Zenon
  <1> USE HandleAssumption DEF Init, DefaultState, NoRequest
  <1>1. TypeOK
    BY SMTT(30) DEF TypeOK, FreshnessState, Request, Ops, Locations
  <1>2. Committed
    BY SMTT(30) DEF Committed, ConstraintsSatisfiable
  <1>3. PinnedSelects
    <2>1. PICK origin \in Origins :
             /\ version = IF origin = "open" THEN None ELSE 1
             /\ fresh = DefaultState(0, origin = "snapshot_at_current_version", 0)
      BY Zenon DEF Init
    <2>2. ASSUME origin = "open" PROVE ~fresh.pinned
      BY <2>1, <2>2, Zenon DEF DefaultState
    <2>3. ASSUME origin # "open" PROVE version # None
      BY <2>1, <2>3, SMTT(30)
    <2> QED BY <2>2, <2>3, Zenon DEF PinnedSelects
  <1>4. Covered /\ ReadsFresh
    BY SMTT(30) DEF Covered, ReadsFresh, Max2
  <1> QED BY <1>1, <1>2, <1>3, <1>4, Zenon DEF FreshInv

\* What a request takes with it: no less than the state demands, unless pinned.
LEMMA SnapshotFacts ==
  ASSUME FreshInv, NEW selected \in Nat \cup {None}, NEW r \in Snapshots(selected)
  PROVE  /\ r \in Request /\ r.version = selected /\ r.generation = fresh.generation
         /\ fresh.pinned => Required(r) = 0
         /\ ~fresh.pinned => seen <= Required(r)
  <1> USE HandleAssumption
  <1>1. CASE fresh.pinned
    <2>1. r = [version |-> selected, generation |-> fresh.generation, minVersion |-> 0,
               minRead |-> 0, minTimestamp |-> 0]
      BY <1>1, Zenon DEF Snapshots, NoRequest
    <2>2. fresh.generation \in Nat
      BY Zenon DEF FreshInv, TypeOK, FreshnessState
    <2> QED BY <1>1, <2>1, <2>2, Zenon DEF Request, Required, Max2
  <1>2. CASE ~fresh.pinned
    <2>1. PICK ts \in Timestamps : r = [version |-> selected, generation |-> fresh.generation,
               minVersion |-> fresh.minVersion, minRead |-> fresh.minRead, minTimestamp |-> ts]
      BY <1>2, Zenon DEF Snapshots
    <2>2. ts \in Nat /\ ts >= fresh.baseline
      BY SMTT(30) DEF Timestamps, FreshInv, TypeOK, FreshnessState, Max2
    <2> QED BY <1>2, <2>1, <2>2, SMTT(30)
            DEF FreshInv, TypeOK, Covered, FreshnessState, Request, Required, Max2
  <1> QED BY <1>1, <1>2, Zenon

\* Beginning a read or a restore.
LEMMA SendSteps ==
  ASSUME FreshInv, NEW t \in Task, BeginRead(t) \/ BeginRestore(t)
  PROVE  FreshInv'
  <1> USE DEF serverVars, Begin, Send
  <1>1. PICK r \in Snapshots(version) : req' = [req EXCEPT ![t] = r]
    BY Zenon DEF BeginRead, BeginRestore
  <1>2. version \in Nat \cup {None}
    BY Zenon DEF FreshInv, TypeOK
  <1>3. /\ r \in Request /\ r.version = version /\ r.generation = fresh.generation
        /\ fresh.pinned => Required(r) = 0
        /\ ~fresh.pinned => seen <= Required(r)
    BY <1>1, <1>2, SnapshotFacts, Zenon
  <1>4. /\ lock = None /\ pc[t] = "idle"
        /\ pc' = [pc EXCEPT ![t] = "sent"]
        /\ due' = [due EXCEPT ![t] = seen]
        /\ UNCHANGED <<latest, node, interval, version, fresh, lock, resp, seen>>
        /\ \/ op' = [op EXCEPT ![t] = "read"]
           \/ op' = [op EXCEPT ![t] = "restore"]
    BY Zenon DEF BeginRead, BeginRestore
  <1>5. TypeOK'
    BY <1>1, <1>3, <1>4, Zenon DEF FreshInv, TypeOK, Ops, Locations
  <1>6. Committed'
    BY <1>1, <1>3, <1>4, Zenon DEF FreshInv, TypeOK, Committed, ConstraintsSatisfiable
  <1>7. PinnedSelects'
    BY <1>1, <1>3, <1>4, ZenonT(40) DEF FreshInv, TypeOK, PinnedSelects
  <1>8. Covered'
    BY <1>1, <1>3, <1>4, Zenon DEF FreshInv, TypeOK, PinnedSelects, Covered
  <1>9. ReadsFresh'
    BY <1>1, <1>3, <1>4, Zenon DEF FreshInv, TypeOK, ReadsFresh
  <1> QED BY <1>5, <1>6, <1>7, <1>8, <1>9, Zenon DEF FreshInv

\* Beginning a write, a job or a checkout.
LEMMA BeginSteps ==
  ASSUME FreshInv, NEW t \in Task,
         \/ \E o \in {"write", "job"} : BeginWrite(t, o)
         \/ \E v \in 1 .. latest : BeginCheckout(t, v)
         \/ BeginCheckoutLatest(t)
  PROVE  FreshInv'
  <1> USE HandleAssumption DEF serverVars, ghostVars, Begin
  <1>1. /\ UNCHANGED <<latest, node, interval, version, fresh, lock, resp, seen, due>>
        /\ pc[t] = "idle"
        /\ \/ /\ pc' = [pc EXCEPT ![t] = "prepare"] /\ UNCHANGED req
              /\ \/ op' = [op EXCEPT ![t] = "write"]
                 \/ op' = [op EXCEPT ![t] = "job"]
           \/ /\ pc' = [pc EXCEPT ![t] = "reset"]
              /\ op' = [op EXCEPT ![t] = "checkout_latest"] /\ UNCHANGED req
           \/ /\ pc' = [pc EXCEPT ![t] = "reset"]
              /\ op' = [op EXCEPT ![t] = "checkout"]
              /\ \E v \in 1 .. latest :
                    req' = [req EXCEPT ![t] = [version |-> v, generation |-> 0, minVersion |-> 0,
                                               minRead |-> 0, minTimestamp |-> 0]]
    BY SMTT(30) DEF BeginWrite, BeginCheckout, BeginCheckoutLatest, NoRequest
  <1>2. TypeOK'
    <2>1. req' \in [Task -> Request]
      BY <1>1, SMTT(30) DEF FreshInv, TypeOK, Request
    <2> QED BY <1>1, <2>1, SMTT(30) DEF FreshInv, TypeOK, Ops, Locations
  <1>3. Committed'
    BY <1>1, SMTT(30) DEF FreshInv, TypeOK, Committed, ConstraintsSatisfiable
  <1>4. PinnedSelects'
    BY <1>1, SMTT(30) DEF FreshInv, TypeOK, PinnedSelects
  <1>5. Covered' /\ ReadsFresh'
    BY <1>1, SMTT(30) DEF FreshInv, TypeOK, Covered, ReadsFresh
  <1> QED BY <1>2, <1>3, <1>4, <1>5, Zenon DEF FreshInv

\* The headers of a write or a job.
LEMMA PrepareStep ==
  ASSUME FreshInv, NEW t \in Task, Prepare(t)
  PROVE  FreshInv'
  <1> USE DEF serverVars, Prepare, Send, Goto
  <1>1. PICK r \in Snapshots(None) : req' = [req EXCEPT ![t] = r]
    BY Zenon
  <1>2. r \in Request /\ r.version = None
    BY <1>1, SnapshotFacts, Zenon
  <1>3. /\ pc[t] = "prepare" /\ pc' = [pc EXCEPT ![t] = "sent"]
        /\ due' = [due EXCEPT ![t] = seen]
        /\ UNCHANGED <<latest, node, interval, version, fresh, lock, resp, seen, op>>
    BY Zenon
  <1>4. TypeOK'
    BY <1>1, <1>2, <1>3, SMTT(30) DEF FreshInv, TypeOK, Locations
  <1>5. Committed'
    BY <1>1, <1>2, <1>3, SMTT(30) DEF FreshInv, TypeOK, Committed, ConstraintsSatisfiable
  <1>6. PinnedSelects'
    BY <1>1, <1>2, <1>3, ZenonT(40) DEF FreshInv, TypeOK, PinnedSelects
  <1>7. Covered' /\ ReadsFresh'
    BY <1>1, <1>2, <1>3, ZenonT(40) DEF FreshInv, TypeOK, Covered, ReadsFresh
  <1> QED BY <1>4, <1>5, <1>6, <1>7, Zenon DEF FreshInv

\* The version in the response to a request, at most the latest.
LEMMA ServeStep ==
  ASSUME FreshInv, NEW t \in Task, NEW n \in Node, Serve(t, n)
  PROVE  FreshInv'
  <1> USE HandleAssumption DEF serverVars, ghostVars, Goto
  <1>1. /\ pc[t] = "sent" /\ pc' = [pc EXCEPT ![t] = "served"]
        /\ UNCHANGED <<op, version, fresh, lock, req, seen, due>>
    BY Zenon DEF Serve
  <1>2. /\ latest' \in Nat /\ latest' >= latest
        /\ node' \in [Node -> Nat] /\ \A m \in Node : node'[m] <= latest'
        /\ interval' = interval
        /\ \E v \in 0 .. latest' :
              /\ resp' = [resp EXCEPT ![t] = v]
              /\ op[t] = "read" /\ req[t].version = None => due[t] <= v
    <2>0. /\ latest \in Nat /\ node \in [Node -> Nat] /\ \A m \in Node : node[m] <= latest
          /\ due[t] \in 0 .. latest /\ req[t] \in Request
          /\ req[t].version \in {None} \cup 0 .. latest
      BY SMTT(30) DEF FreshInv, TypeOK, Committed
    <2>1. CASE op[t] \in {"write", "restore"}
      BY <2>0, <2>1, SMTT(30) DEF Serve
    <2>2. CASE op[t] \notin {"write", "restore"} /\ req[t].version # None
      BY <2>0, <2>2, SMTT(30) DEF Serve
    <2>3. CASE op[t] \notin {"write", "restore"} /\ req[t].version = None
      <3>1. op[t] = "read" => due[t] <= Required(req[t])
        BY <1>1, <2>3, Zenon DEF FreshInv, Covered
      <3>2. Required(req[t]) \in Nat
        BY <2>0, Zenon DEF Required, Max2, Request
      <3>3. PICK v \in {node[n], latest} :
              /\ node' = [node EXCEPT ![n] = v] /\ resp' = [resp EXCEPT ![t] = v]
              /\ node[n] < Required(req[t]) => v = latest
              /\ UNCHANGED <<latest, interval>>
        BY <2>0, <2>3, Zenon DEF Serve
      <3>4. v \in 0 .. latest /\ (op[t] = "read" => due[t] <= v)
        BY <2>0, <3>1, <3>2, <3>3, SMTT(30)
      <3>5. node' \in [Node -> Nat] /\ \A m \in Node : node'[m] <= latest'
        BY <2>0, <3>3, <3>4, SMTT(30)
      <3>6. \E w \in 0 .. latest' :
              /\ resp' = [resp EXCEPT ![t] = w]
              /\ op[t] = "read" /\ req[t].version = None => due[t] <= w
        BY <3>3, <3>4, Zenon
      <3>7. latest' \in Nat /\ latest' >= latest /\ interval' = interval
        BY <2>0, <3>3, SMTT(30)
      <3> QED BY <3>5, <3>6, <3>7, Zenon
    <2> QED BY <2>1, <2>2, <2>3, Zenon
  <1>3. TypeOK'
    BY <1>1, <1>2, SMTT(30) DEF FreshInv, TypeOK, Locations
  <1>4. Committed'
    BY <1>1, <1>2, SMTT(30) DEF FreshInv, TypeOK, Committed, ConstraintsSatisfiable, FreshnessState
  <1>5. PinnedSelects'
    BY <1>1, Zenon DEF FreshInv, TypeOK, PinnedSelects
  <1>6. Covered'
    BY <1>1, <1>2, Zenon DEF FreshInv, TypeOK, Covered
  <1>7. ReadsFresh'
    BY <1>1, <1>2, Zenon DEF FreshInv, TypeOK, ReadsFresh
  <1> QED BY <1>3, <1>4, <1>5, <1>6, <1>7, Zenon DEF FreshInv

\* The state f in place of fresh, when the callers have seen s: still satisfiable
\* and still demanding s.
Learnt(f, s) ==
    /\ f \in FreshnessState /\ f.pinned = fresh.pinned
    /\ f.minVersion <= latest /\ f.minRead <= latest /\ f.baseline <= latest
    /\ s \in 0 .. latest
    /\ ~f.pinned => s <= Max2(f.minVersion, Max2(f.minRead, f.baseline))

LEMMA Unlearnt == ASSUME FreshInv PROVE Learnt(fresh, seen)
  BY SMTT(30) DEF FreshInv, TypeOK, Committed, ConstraintsSatisfiable, Covered, Learnt

\* A version observed or tracked is demanded from then on.
LEMMA LearntFacts ==
  ASSUME FreshInv, NEW t \in Task, NEW v \in 0 .. latest
  PROVE  /\ Learnt(Observed(t, v), IF IsCurrent(t) THEN Max2(seen, v) ELSE seen)
         /\ Learnt(Observed(t, v), seen)
         /\ Learnt(Tracked(t, v), IF IsCurrent(t) THEN Max2(seen, v) ELSE seen)
  <1>1. PICK g \in Nat, p \in BOOLEAN, mv \in 0 .. latest, mr \in 0 .. latest,
             b \in 0 .. latest :
           fresh = [generation |-> g, pinned |-> p, minVersion |-> mv, minRead |-> mr,
                    baseline |-> b]
    BY SMTT(30) DEF FreshInv, TypeOK, FreshnessState, Committed, ConstraintsSatisfiable
  <1>2. latest \in Nat /\ seen \in 0 .. latest /\ (~p => seen <= Max2(mv, Max2(mr, b)))
    BY <1>1, SMTT(30) DEF FreshInv, TypeOK, Committed, Covered
  <1>3. CASE ~(IsCurrent(t) /\ v # 0)
    BY <1>2, <1>3, Unlearnt, SMTT(30) DEF Observed, Tracked, Max2
  <1>4. CASE IsCurrent(t) /\ v # 0
    <2>1. Observed(t, v) = [generation |-> g, pinned |-> p, minVersion |-> mv,
                            minRead |-> Max2(mr, v), baseline |-> b]
      BY <1>1, <1>4, Zenon DEF Observed
    <2>2. Tracked(t, v) = [generation |-> g, pinned |-> p, minVersion |-> Max2(mv, v),
                           minRead |-> mr, baseline |-> b]
      BY <1>1, <1>4, Zenon DEF Tracked
    <2> QED BY <1>1, <1>2, <1>4, <2>1, <2>2, SMTT(30) DEF Learnt, FreshnessState, Max2
  <1> QED BY <1>3, <1>4, Zenon

\* The operation of t ends, having taught the state what t has seen.
LEMMA EndStep ==
  ASSUME FreshInv, NEW t \in Task, End(t), pc[t] # "set",
         UNCHANGED <<latest, node, interval, version, lock>>, Learnt(fresh', seen')
  PROVE  FreshInv'
  <1> USE HandleAssumption DEF End, Learnt
  <1>0. NoRequest \in Request
    BY Zenon DEF NoRequest, Request
  <1>1. TypeOK'
    BY <1>0, SMTT(30) DEF FreshInv, TypeOK, Ops, Locations
  <1>2. Committed'
    BY SMTT(30) DEF FreshInv, TypeOK, Committed, ConstraintsSatisfiable, NoRequest
  <1>3. PinnedSelects'
    BY Zenon DEF FreshInv, TypeOK, PinnedSelects
  <1>4. Covered' /\ ReadsFresh'
    BY Zenon DEF FreshInv, TypeOK, Covered, ReadsFresh
  <1> QED BY <1>1, <1>2, <1>3, <1>4, Zenon DEF FreshInv

\* The steps that end an operation with the response to its request.
LEMMA EndSteps ==
  ASSUME FreshInv, NEW t \in Task, Fail(t) \/ EndRead(t) \/ EndWrite(t)
  PROVE  FreshInv'
  <1> USE DEF serverVars
  <1>1. /\ End(t) /\ pc[t] # "set"
        /\ UNCHANGED <<latest, node, interval, version, lock>>
    BY Zenon DEF Fail, EndRead, EndWrite
  <1>2. resp[t] \in 0 .. latest
    BY SMTT(30) DEF FreshInv, TypeOK, Committed
  <1>3. Learnt(fresh', seen')
    BY <1>2, Unlearnt, LearntFacts, Zenon DEF Fail, EndRead, EndWrite, Learn
  <1> QED BY <1>1, <1>3, EndStep, Zenon

\* A job that reports no version leaves the time it ended as the baseline.
LEMMA EndJobStep ==
  ASSUME FreshInv, NEW t \in Task, EndJob(t)
  PROVE  FreshInv'
  <1> USE DEF serverVars, EndJob
  <1>1. /\ End(t) /\ pc[t] = "done" /\ lock = None
        /\ UNCHANGED <<latest, node, interval, version, lock>>
    BY Zenon
  <1>2. /\ resp[t] \in 0 .. latest /\ due[t] \in 0 .. latest /\ resp[t] \in {0, due[t]}
        /\ latest \in Nat /\ seen \in 0 .. latest
    BY <1>1, SMTT(30) DEF FreshInv, TypeOK, Committed
  <1>3. Learnt(fresh', seen')
    <2>1. CASE version # None
      BY <2>1, Unlearnt, Zenon DEF Completed
    <2>2. CASE version = None /\ resp[t] # 0
      <3>1. fresh' = Observed(t, resp[t])
            /\ seen' = IF IsCurrent(t) THEN Max2(seen, resp[t]) ELSE seen
        BY <1>2, <2>2, Zenon DEF Completed, Learn
      <3> QED BY <1>2, <3>1, LearntFacts, Zenon
    <2>3. CASE version = None /\ resp[t] = 0 /\ ~IsCurrent(t)
      BY <2>3, Unlearnt, Zenon DEF Completed, Learn
    <2>4. CASE version = None /\ resp[t] = 0 /\ IsCurrent(t)
      <3>1. fresh' = [fresh EXCEPT !.baseline = latest] /\ seen' = Max2(seen, due[t])
        BY <2>4, Zenon DEF Completed, Learn
      <3> QED BY <1>2, <3>1, Unlearnt, SMTT(30) DEF Learnt, FreshnessState, Max2
    <2> QED BY <2>1, <2>2, <2>3, <2>4, Zenon
  <1> QED BY <1>1, <1>3, EndStep, Zenon

\* The steps that keep the operation going, with or without an observed version.
LEMMA ObserveSteps ==
  ASSUME FreshInv, NEW t \in Task, Retry(t) \/ Observe(t) \/ SubmitJob(t)
  PROVE  FreshInv'
  <1> USE HandleAssumption DEF serverVars, ghostVars, Goto
  <1>1. /\ pc[t] = "served"
        /\ UNCHANGED <<latest, node, interval, version, lock, op, seen, due>>
        /\ resp' = [resp EXCEPT ![t] = 0] \/ UNCHANGED resp
        /\ \/ pc' = [pc EXCEPT ![t] = "sent"] /\ UNCHANGED req
           \/ pc' = [pc EXCEPT ![t] = "track"] /\ UNCHANGED req
           \/ pc' = [pc EXCEPT ![t] = "reset"] /\ UNCHANGED req /\ op[t] = "restore"
           \/ /\ pc' = [pc EXCEPT ![t] = "running"]
              /\ req' = [req EXCEPT ![t] = [version |-> None, generation |-> fresh.generation,
                            minVersion |-> 0, minRead |-> 0, minTimestamp |-> 0]]
    BY Zenon DEF Retry, Observe, SubmitJob, NoRequest
  <1>2. resp[t] \in 0 .. latest /\ fresh.generation \in Nat
    BY SMTT(30) DEF FreshInv, TypeOK, Committed, FreshnessState
  <1>3. Learnt(fresh', seen')
    BY <1>1, <1>2, Unlearnt, LearntFacts, SMTT(30) DEF Retry, Observe, SubmitJob
  <1>4. TypeOK'
    <2>1. req' \in [Task -> Request]
      BY <1>1, <1>2, SMTT(30) DEF FreshInv, TypeOK, Request
    <2> QED BY <1>1, <1>3, <2>1, SMTT(30) DEF FreshInv, TypeOK, Learnt, Locations
  <1>5. Committed'
    BY <1>1, <1>3, SMTT(30) DEF FreshInv, TypeOK, Committed, ConstraintsSatisfiable, Learnt
  <1>6. PinnedSelects'
    BY <1>1, <1>3, SMTT(30) DEF FreshInv, TypeOK, PinnedSelects, Learnt
  <1>7. Covered'
    BY <1>1, <1>3, SMTT(30) DEF FreshInv, TypeOK, Covered, Learnt
  <1>8. ReadsFresh'
    BY <1>1, SMTT(30) DEF FreshInv, TypeOK, ReadsFresh
  <1> QED BY <1>4, <1>5, <1>6, <1>7, <1>8, Zenon DEF FreshInv

\* The steps that only move the server: a job's fill, other clients, refreshes.
LEMMA ServerSteps ==
  ASSUME FreshInv, \/ \E t \in Task : RunJob(t)
                   \/ \E n \in Node : RefreshNode(n)
                   \/ OtherCommit
  PROVE  FreshInv'
  <1> USE DEF ghostVars, Goto
  <1>1. /\ latest' \in Nat /\ latest' >= latest
        /\ node' \in [Node -> Nat] /\ \A n \in Node : node'[n] <= latest'
        /\ UNCHANGED <<interval, version, fresh, lock, op, req, seen>>
        /\ \/ UNCHANGED <<pc, resp, due>>
           \/ \E t \in Task : \E v \in {0, latest'} :
                 /\ pc[t] = "running" /\ pc' = [pc EXCEPT ![t] = "done"]
                 /\ resp' = [resp EXCEPT ![t] = v] /\ due' = [due EXCEPT ![t] = latest']
    <2>1. latest \in Nat /\ node \in [Node -> Nat] /\ \A n \in Node : node[n] <= latest
      BY Zenon DEF FreshInv, TypeOK, Committed
    <2>2. CASE \E t \in Task : RunJob(t)
      <3>1. PICK t \in Task : RunJob(t)
        BY <2>2, Zenon
      <3>2. /\ latest' = latest + 1 /\ UNCHANGED <<node, interval, version, fresh, lock, op, req, seen>>
            /\ pc[t] = "running" /\ pc' = [pc EXCEPT ![t] = "done"]
            /\ due' = [due EXCEPT ![t] = latest']
            /\ \E v \in {0, latest'} : resp' = [resp EXCEPT ![t] = v]
        BY <3>1, Zenon DEF RunJob
      <3>3. /\ latest' \in Nat /\ latest' >= latest
            /\ node' \in [Node -> Nat] /\ \A n \in Node : node'[n] <= latest'
        BY <2>1, <3>2, SMTT(30)
      <3> QED BY <3>2, <3>3, Zenon
    <2>3. CASE (\E n \in Node : RefreshNode(n)) \/ OtherCommit
      BY <2>1, <2>3, SMTT(30) DEF RefreshNode, OtherCommit
    <2> QED BY <2>2, <2>3, Zenon
  <1>2. TypeOK'
    BY <1>1, SMTT(30) DEF FreshInv, TypeOK, Locations
  <1>3. Committed'
    BY <1>1, SMTT(30) DEF FreshInv, TypeOK, Committed, ConstraintsSatisfiable, FreshnessState
  <1>4. PinnedSelects'
    BY <1>1, Zenon DEF FreshInv, TypeOK, PinnedSelects
  <1>5. Covered' /\ ReadsFresh'
    BY <1>1, ZenonT(40) DEF FreshInv, TypeOK, Covered, ReadsFresh
  <1> QED BY <1>2, <1>3, <1>4, <1>5, Zenon DEF FreshInv

\* A new timeline begins with the state that demands what was committed by then.
LEMMA ResetStep ==
  ASSUME FreshInv, NEW t \in Task, Reset(t)
  PROVE  FreshInv'
  <1> USE HandleAssumption DEF serverVars, Goto
  <1>1. PICK b \in {0, latest}, p \in BOOLEAN :
          /\ fresh' = [generation |-> fresh.generation + 1, pinned |-> p, minVersion |-> 0,
                       minRead |-> 0, baseline |-> b]
          /\ seen' = b /\ (p <=> op[t] = "checkout")
    BY Zenon DEF Reset, DefaultState
  <1>2. /\ pc[t] = "reset" /\ lock = None /\ lock' = t
        /\ pc' = [pc EXCEPT ![t] = "set"]
        /\ UNCHANGED <<latest, node, interval, version, op, req, resp, due>>
    BY Zenon DEF Reset
  <1>3. fresh' \in FreshnessState
    BY <1>1, SMTT(30) DEF FreshInv, TypeOK, FreshnessState
  <1>4. TypeOK'
    BY <1>1, <1>2, <1>3, SMTT(30) DEF FreshInv, TypeOK, Locations
  <1>5. Committed'
    BY <1>1, <1>2, SMTT(30) DEF FreshInv, TypeOK, Committed, ConstraintsSatisfiable
  <1>6. PinnedSelects'
    BY <1>1, <1>2, ZenonT(40) DEF FreshInv, TypeOK, PinnedSelects
  <1>7. Covered' /\ ReadsFresh'
    BY <1>1, <1>2, SMTT(30) DEF FreshInv, TypeOK, Covered, ReadsFresh, Max2
  <1> QED BY <1>4, <1>5, <1>6, <1>7, Zenon DEF FreshInv

LEMMA SetSelectorStep ==
  ASSUME FreshInv, NEW t \in Task, SetSelector(t)
  PROVE  FreshInv'
  <1> USE HandleAssumption DEF serverVars, SetSelector, End
  <1>0. NoRequest \in Request
    BY Zenon DEF NoRequest, Request
  <1>1. TypeOK'
    BY <1>0, ZenonT(40) DEF FreshInv, TypeOK, Request, Ops, Locations
  <1>2. Committed'
    BY SMTT(30) DEF FreshInv, TypeOK, Committed, ConstraintsSatisfiable, NoRequest
  <1>3. PinnedSelects'
    BY Zenon DEF FreshInv, TypeOK, PinnedSelects
  <1>4. Covered' /\ ReadsFresh'
    BY Zenon DEF FreshInv, TypeOK, Covered, ReadsFresh
  <1> QED BY <1>1, <1>2, <1>3, <1>4, Zenon DEF FreshInv

LEMMA NextFreshInv == FreshInv /\ [Next]_vars => FreshInv'
  <1> SUFFICES ASSUME FreshInv, [Next]_vars PROVE FreshInv'
    BY Zenon
  <1>1. CASE UNCHANGED vars
    BY <1>1, Zenon DEF vars, FreshInv, TypeOK, Committed, ConstraintsSatisfiable, PinnedSelects,
                Covered, ReadsFresh
  <1>2. CASE Next
    BY <1>2, SendSteps, BeginSteps, PrepareStep, ServeStep, EndSteps, EndJobStep, ObserveSteps,
       ServerSteps, ResetStep, SetSelectorStep, Zenon DEF Next
  <1> QED BY <1>1, <1>2, Zenon

\* The state of the handle, its requests and the selector's lock have their types.
THEOREM TypeCorrect == Spec => []TypeOK
  <1>1. FreshInv => TypeOK
    BY Zenon DEF FreshInv
  <1> QED BY InitFreshInv, NextFreshInv, <1>1, PTL DEF Spec

\* Monotonic reads and read-your-writes of a remote handle, whichever node serves,
\* whatever is lost or sent again and whatever checkout intervenes.
THEOREM ReadsAreFresh == Spec => []ReadsFresh
  <1>1. FreshInv => ReadsFresh
    BY Zenon DEF FreshInv
  <1> QED BY InitFreshInv, NextFreshInv, <1>1, PTL DEF Spec

-----------------------------------------------------------------------------

LEMMA InitPinInv ==
  ASSUME "query_snapshot" \notin Origins, Init
  PROVE  PinInv
  <1>1. PICK origin \in Origins :
           /\ version = IF origin = "open" THEN None ELSE 1
           /\ fresh = DefaultState(0, origin = "snapshot_at_current_version", 0)
    BY Zenon DEF Init
  <1>2. CASE origin = "open"
    BY <1>1, <1>2, Zenon DEF Init, PinInv
  <1>3. CASE origin # "open"
    <2>1. origin = "snapshot_at_current_version"
      BY <1>3, HandleAssumption, Zenon
    <2>2. fresh.pinned
      BY <1>1, <2>1, Zenon DEF DefaultState
    <2> QED BY <2>2, Zenon DEF Init, PinInv
  <1> QED BY <1>2, <1>3, Zenon

\* A request takes the selected version and a pinned state's empty constraints.
LEMMA SendPinInv ==
  ASSUME FreshInv, PinInv, NEW t \in Task, BeginRead(t) \/ BeginRestore(t) \/ Prepare(t)
  PROVE  PinInv'
  <1> USE DEF serverVars, Begin, Goto, Send
  <1>1. PICK selected \in {version, None} : \E r \in Snapshots(selected) :
           /\ req' = [req EXCEPT ![t] = r]
           /\ selected = None \/ lock = None
    BY Zenon DEF BeginRead, BeginRestore, Prepare
  <1>2. PICK r \in Snapshots(selected) : req' = [req EXCEPT ![t] = r]
    BY <1>1, Zenon
  <1>3. r.version = selected /\ (fresh.pinned => Required(r) = 0)
    <2>1. selected \in Nat \cup {None}
      BY <1>1, Zenon DEF FreshInv, TypeOK
    <2> QED BY <1>2, <2>1, SnapshotFacts, Zenon
  <1>4. /\ UNCHANGED <<version, fresh, lock>> /\ pc' = [pc EXCEPT ![t] = "sent"]
    BY Zenon DEF BeginRead, BeginRestore, Prepare
  <1>5. r.version # None => Required(r) = 0
    BY <1>1, <1>3, Zenon DEF PinInv
  <1> QED BY <1>2, <1>4, <1>5, Zenon DEF FreshInv, TypeOK, PinInv

\* Observing or tracking a version leaves the pin alone.
LEMMA StillPinned ==
  ASSUME FreshInv, NEW t \in Task, NEW v \in Nat
  PROVE  /\ Observed(t, v).pinned = fresh.pinned
         /\ Tracked(t, v).pinned = fresh.pinned
         /\ Completed(t, v).pinned = fresh.pinned
  BY Zenon DEF FreshInv, TypeOK, FreshnessState, Observed, Tracked, Completed

\* The steps that take no new headers and leave the selector alone.
LEMMA OtherPinInv ==
  ASSUME FreshInv, PinInv,
         \/ \E t \in Task :
               \/ \E o \in {"write", "job"} : BeginWrite(t, o)
               \/ \E n \in Node : Serve(t, n)
               \/ Fail(t) \/ Retry(t) \/ EndRead(t) \/ Observe(t) \/ EndWrite(t)
               \/ SubmitJob(t) \/ RunJob(t) \/ EndJob(t)
               \/ \E v \in 1 .. latest : BeginCheckout(t, v)
               \/ BeginCheckoutLatest(t)
         \/ \E n \in Node : RefreshNode(n)
         \/ OtherCommit
  PROVE  PinInv'
  <1> USE DEF serverVars, ghostVars, Begin, Goto, End
  <1>1. UNCHANGED <<version, lock>>
    BY ZenonT(40) DEF BeginWrite, Serve, Fail, Retry, EndRead, Observe, EndWrite, SubmitJob, RunJob,
           EndJob, BeginCheckout, BeginCheckoutLatest, RefreshNode, OtherCommit
  <1>2. fresh'.pinned = fresh.pinned
    <2>1. resp \in [Task -> Nat]
      BY Zenon DEF FreshInv, TypeOK
    <2> QED BY <2>1, StillPinned, SMTT(30)
            DEF BeginWrite, Serve, Fail, Retry, EndRead, Observe, EndWrite, SubmitJob, RunJob,
                EndJob, BeginCheckout, BeginCheckoutLatest, RefreshNode, OtherCommit
  <1>3. \A t \in Task : pc'[t] \in {"sent", "served"} =>
                           pc[t] \in {"sent", "served"} /\ req'[t] = req[t]
    <2>1. pc \in [Task -> Locations] /\ req \in [Task -> Request]
      BY Zenon DEF FreshInv, TypeOK
    <2> QED BY <2>1, SMTT(30)
            DEF BeginWrite, Serve, Fail, Retry, EndRead, Observe, EndWrite, SubmitJob, RunJob,
                EndJob, BeginCheckout, BeginCheckoutLatest, RefreshNode, OtherCommit
  <1> QED BY <1>1, <1>2, <1>3, Zenon DEF PinInv

LEMMA CheckoutPinInv ==
  ASSUME FreshInv, PinInv, NEW t \in Task, Reset(t) \/ SetSelector(t)
  PROVE  PinInv'
  <1> USE HandleAssumption DEF Goto, End
  <1>1. CASE Reset(t)
    BY <1>1, Zenon DEF Reset, FreshInv, TypeOK, PinInv
  <1>2. CASE SetSelector(t)
    <2>1. version' # None => fresh'.pinned
      BY <1>2, Zenon DEF SetSelector, FreshInv, PinnedSelects
    <2> QED BY <1>2, <2>1, Zenon DEF SetSelector, FreshInv, TypeOK, PinInv
  <1> QED BY <1>1, <1>2, Zenon

LEMMA NextPinInv == FreshInv /\ PinInv /\ [Next]_vars => PinInv'
  <1> SUFFICES ASSUME FreshInv, PinInv, [Next]_vars PROVE PinInv'
    BY Zenon
  <1>1. CASE UNCHANGED vars
    BY <1>1, Zenon DEF vars, PinInv
  <1>2. CASE Next
    BY <1>2, SendPinInv, OtherPinInv, CheckoutPinInv, Zenon DEF Next
  <1> QED BY <1>1, <1>2, Zenon

\* No request demands what was not committed, and, unless the handle was made by
\* query_snapshot, none that names a version carries a constraint of the latest
\* timeline, although a checkout changes the freshness state and the selector one
\* after the other.
THEOREM ConstraintsAreMeetable ==
  ASSUME "query_snapshot" \notin Origins
  PROVE  Spec => []ConstraintsMeetable
  <1>1. Init => PinInv
    BY InitPinInv, Zenon
  <1>2. FreshInv /\ PinInv => ConstraintsMeetable
    BY Zenon DEF FreshInv, Committed, PinInv, ConstraintsMeetable, PinnedUnconstrained
  <1> QED BY InitFreshInv, NextFreshInv, <1>1, NextPinInv, <1>2, PTL DEF Spec
=============================================================================
