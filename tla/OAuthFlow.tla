------------------------------- MODULE OAuthFlow -------------------------------
(***************************************************************************)
(* One fetch_token call (remote/oauth.rs): the four flows that obtain a    *)
(* new session.  The authorization code flow binds a loopback port, opens  *)
(* the browser and serves connections one at a time until one of them is   *)
(* the callback of this request; other local programs may connect too, and *)
(* may send nothing.  The device code flow polls the token endpoint.       *)
(*                                                                         *)
(* tokio::time::timeout_at polls the operation before the timer, so an     *)
(* accept or read that is ready succeeds even after the deadline.          *)
(***************************************************************************)
EXTENDS Naturals

CONSTANTS
    Deadline,      \* AUTHORIZATION_CALLBACK_TIMEOUT_SECS, in ticks
    ReadTimeout,   \* 10 s for one connection, in ticks
    CodeExpiry     \* how long the provider keeps a device code, in ticks

VARIABLES
    flow,       \* the configured OAuthFlow
    discovery,  \* OidcClient.discovery is filled
    pc,
    time,       \* ticks since the wait began
    conn,       \* the connection being read: what it will send, and its deadline
    code        \* what reached the token endpoint: the request it belongs to

flowVars == <<flow, discovery, pc, time, conn, code>>

Flows == {"client_credentials", "authorization_code", "device_code", "azure_managed_identity"}

\* What a connection to the callback port carries: this request's code or error,
\* the callback of another request, something else, or nothing at all.
Callback == {"code", "provider_error", "other_state", "unrelated", "silent"}
NoConn   == [sends |-> "none", deadline |-> 0]

FlowTypeOK ==
    /\ flow \in Flows /\ discovery \in BOOLEAN
    /\ pc \in {"start", "accept", "read", "poll", "exchange", "ok", "error"}
    /\ time \in 0 .. Deadline + ReadTimeout + CodeExpiry
    /\ conn.sends \in Callback \cup {"none"} /\ conn.deadline \in 0 .. Deadline
    /\ code \in {"none", "own", "foreign"}

FlowInit ==
    /\ flow \in Flows /\ discovery \in BOOLEAN
    /\ pc = "start" /\ time = 0 /\ conn = NoConn /\ code = "none"

Fails == pc' = "error" /\ conn' = NoConn /\ UNCHANGED <<flow, discovery, time, code>>

\* get_discovery fills the cache once; later calls of the process find it.
get_discovery == discovery' = TRUE

\* build_token_source chose the flow; whatever fails before there is anything to wait
\* for (the port is taken, discovery, the first request) fails the call.
BeginFails == pc = "start" /\ Fails

\* ClientCredentialsSource: one request.
ClientCredentials ==
    /\ pc = "start" /\ flow = "client_credentials"
    /\ get_discovery /\ pc' \in {"ok", "error"}
    /\ UNCHANGED <<flow, time, conn, code>>

\* AzureImdsSource: one request to the metadata service, without discovery.
AzureImds ==
    /\ pc = "start" /\ flow = "azure_managed_identity"
    /\ pc' \in {"ok", "error"}
    /\ UNCHANGED <<flow, discovery, time, conn, code>>

\* AuthorizationCodeSource: bind the port, then build_authorization_request and the
\* browser.
build_authorization_request ==
    /\ pc = "start" /\ flow = "authorization_code"
    /\ get_discovery /\ pc' = "accept"
    /\ UNCHANGED <<flow, time, conn, code>>

\* DeviceCodeSource: the code that the user enters elsewhere.
request_device_authorization ==
    /\ pc = "start" /\ flow = "device_code"
    /\ get_discovery /\ pc' = "poll"
    /\ UNCHANGED <<flow, time, conn, code>>

Begin ==
    \/ BeginFails \/ ClientCredentials \/ AzureImds
    \/ build_authorization_request \/ request_device_authorization

-----------------------------------------------------------------------------
(* The authorization code flow                                             *)

\* wait_for_callback: the next connection, if there is one.
Accept ==
    /\ pc = "accept"
    /\ \E c \in Callback :
         conn' = [sends |-> c,
                  deadline |-> IF time + ReadTimeout < Deadline THEN time + ReadTimeout ELSE Deadline]
    /\ pc' = "read"
    /\ UNCHANGED <<flow, discovery, time, code>>

AcceptTimeout == pc = "accept" /\ time >= Deadline /\ Fails

\* Faulty variant: the loop relies on the timeouts of accept and read alone.
NotForUsUnchecked ==
    /\ pc' = "accept" /\ conn' = NoConn
    /\ UNCHANGED <<flow, discovery, time, code>>

\* A connection that is not our callback is answered and ignored, until the deadline.
NotForUs ==
    /\ pc' = IF time >= Deadline THEN "error" ELSE "accept"
    /\ conn' = NoConn
    /\ UNCHANGED <<flow, discovery, time, code>>

\* parse_authorization_callback: path and state are compared before the error and
\* the code are looked at.
parse_authorization_callback ==
    \/ /\ conn.sends = "code"
       /\ pc' = "exchange" /\ code' = "own" /\ conn' = NoConn
       /\ UNCHANGED <<flow, discovery, time>>
    \/ conn.sends = "provider_error" /\ Fails
    \/ conn.sends \in {"other_state", "unrelated"} /\ NotForUs

\* read_authorization_callback: the whole request arrived.
Read ==
    /\ pc = "read" /\ conn.sends # "silent"
    /\ parse_authorization_callback

\* A connection that stays silent is given up at its own deadline.
ReadTimesOut ==
    /\ pc = "read" /\ conn.sends = "silent" /\ time >= conn.deadline
    /\ NotForUs

exchange_code ==
    /\ pc = "exchange"
    /\ pc' \in {"ok", "error"}
    /\ UNCHANGED <<flow, discovery, time, conn, code>>

-----------------------------------------------------------------------------
(* The device code flow                                                    *)

\* poll_for_token: pending, slow_down and transient answers poll again; any other
\* ends the flow.  The oauth2 crate (external) stops when the device code expires.
Poll ==
    /\ pc = "poll"
    /\ \/ pc' \in {"ok", "error"}
       \/ time >= CodeExpiry /\ pc' = "error"
    /\ UNCHANGED <<flow, discovery, time, conn, code>>

\* Time passes while the flow waits: for a connection, a request or the next poll.
Tick ==
    \/ pc = "accept" /\ time < Deadline
    \/ pc = "read" /\ time < conn.deadline
    \/ pc = "poll" /\ time < CodeExpiry

FlowTick ==
    /\ Tick
    /\ time' = time + 1
    /\ UNCHANGED <<flow, discovery, pc, conn, code>>

FlowStep ==
    \/ Begin \/ Accept \/ AcceptTimeout \/ Read \/ ReadTimesOut
    \/ exchange_code \/ Poll

FlowNext == FlowStep \/ FlowTick

\* Time passes, a request that is complete is handled, a deadline that has passed
\* and a connection whose deadline has passed are noticed.  Nothing says that a user
\* completes the flow or that another program connects.
FlowFairness ==
    /\ WF_flowVars(FlowTick)
    /\ WF_flowVars(Begin \/ AcceptTimeout \/ Read \/ ReadTimesOut \/ exchange_code)
    /\ WF_flowVars(Poll /\ time >= CodeExpiry)

-----------------------------------------------------------------------------
(* Properties                                                              *)

\* The code that is exchanged is the answer to this request, although the callbacks
\* of other requests and other programs reach the same port.
OwnCodeExchanged == code # "foreign"

\* fetch_token ends although unrelated connections keep arriving, silent ones
\* included, and although a ready accept wins against an expired timer.
FetchEnds == pc # "start" ~> pc \in {"ok", "error"}
=============================================================================
