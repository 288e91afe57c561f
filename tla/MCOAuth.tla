-------------------------------- MODULE MCOAuth --------------------------------
(* TLC instance of OAuthTokens (two tasks in one process, one in another) and  *)
(* of OAuthFlow, whose whole run is the one step fetch_token of OAuthTokens.   *)
(* The two share no state: a behaviour is a behaviour of one, the other rests. *)
EXTENDS OAuthTokens, TLC

CONSTANTS p1, p2, t1, t2, t3, Deadline, ReadTimeout, CodeExpiry

VARIABLES flow, discovery, pc, time, conn, code

F == INSTANCE OAuthFlow

rest == <<flow, discovery, pc, time, conn, code>>

TwoProcesses == {p1, p2}
ThreeTasks   == {t1, t2, t3}
Placement    == (t1 :> p1) @@ (t2 :> p1) @@ (t3 :> p2)

\* Shared sessions, and sources that share nothing with other processes.
Configurations == {(p1 :> "cache") @@ (p2 :> "cache"),
                   (p1 :> "memory") @@ (p2 :> "machine")}

FlowRests ==
    /\ flow = "client_credentials" /\ discovery = TRUE /\ pc = "ok"
    /\ time = 0 /\ conn = F!NoConn /\ code = "none"

TokensRest == conf[p1] = "memory" /\ record = 0

MCInit == \/ Init /\ FlowRests
          \/ Init /\ TokensRest /\ F!FlowInit

InTokens == flow = "client_credentials" /\ discovery /\ pc = "ok"

MCNext == \/ InTokens /\ Next /\ UNCHANGED rest
          \/ ops = 0 /\ now = 0 /\ F!FlowNext /\ UNCHANGED vars

MCSpec == MCInit /\ [][MCNext]_<<vars, rest>> /\ Fairness /\ F!FlowFairness

\* The type invariants of both.
BothTypesOK == TypeOK /\ F!FlowTypeOK


\* Every operation on tokens ends, and so does fetch_token, although unrelated
\* connections keep arriving at its port.
AllEnd == OperationsEnd /\ F!FetchEnds
=============================================================================
