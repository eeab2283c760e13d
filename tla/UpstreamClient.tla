--------------------------- MODULE UpstreamClient ---------------------------
(***************************************************************************)
(* Requests of control-plane to Keycloak (common/http/upstream-client.ts)  *)
(* under the one admin token that KeycloakClient gets, shares and forgets. *)
(*                                                                         *)
(* An admin token is the epoch of Keycloak it was issued in: a revocation  *)
(* begins a new one.  A request is made for a call of the API, see         *)
(* ApiGuard; every fault takes one from a budget that all faults share.    *)
(***************************************************************************)
EXTENDS Naturals

CONSTANTS
  Calls,      \* the calls of the API
  MethodOf,   \* what a call asks Keycloak: "GET", "POST" or nothing
  MaxFaults   \* how often something goes wrong, or changes

None == "none"

ASSUME UpstreamAssumption ==
  /\ MethodOf \in [Calls -> {"GET", "POST", None}]
  /\ MaxFaults \in Nat

VARIABLES
  up,            \* the request of each call
  adminToken,    \* token, the cached one; 0: none
  tokenRequest,  \* the request for a token that all wait for
  epoch,         \* Keycloak's
  done,          \* how often Keycloak did what a call asks
  faults         \* that are left

upstream == <<up, adminToken, tokenRequest, epoch, done, faults>>

Epochs == 1..(MaxFaults + 1)
MaxRetries == 2  \* the length of RETRY_DELAYS_MS

NoRequest == [at |-> None, attempt |-> 0, refreshed |-> FALSE, token |-> 0]
NoTokenRequest == [open |-> FALSE, token |-> 0]

Fault == faults > 0 /\ faults' = faults - 1
Waiting(place) == {c \in Calls : up[c].at = place}

-----------------------------------------------------------------------------
\* Mutant: what may have been done is retried.
CanRetryAll(c) == up[c].attempt < MaxRetries

CanRetry(c) == MethodOf[c] = "GET" /\ up[c].attempt < MaxRetries

Again(request) == [request EXCEPT !.at = "send", !.attempt = @ + 1, !.token = 0]

\* send threw, or the status was 502 to 504.
Unavailable(c) == [up[c] EXCEPT !.at = IF CanRetry(c) THEN "sleep" ELSE "failed", !.token = 0]

Wake(c) ==
  /\ up[c].at = "sleep"
  /\ up' = [up EXCEPT ![c] = Again(@)]
  /\ UNCHANGED <<adminToken, tokenRequest, epoch, done, faults>>

\* send: the cached token, or the one that is asked for already.
Send(c) ==
  /\ up[c].at = "send"
  /\ IF adminToken # 0
       THEN /\ up' = [up EXCEPT ![c].at = "sent", ![c].token = adminToken]
            /\ UNCHANGED tokenRequest
       ELSE /\ up' = [up EXCEPT ![c].at = "token"]
            /\ tokenRequest' = [tokenRequest EXCEPT !.open = TRUE]
  /\ UNCHANGED <<adminToken, epoch, done, faults>>

\* Keycloak issues a token, whose way back takes a while.
IssueToken ==
  /\ tokenRequest.open /\ tokenRequest.token = 0
  /\ tokenRequest' = [tokenRequest EXCEPT !.token = epoch]
  /\ UNCHANGED <<up, adminToken, epoch, done, faults>>

\* fetchToken: the token is cached, whatever happened to others meanwhile.
TokenArrives ==
  /\ tokenRequest.token # 0
  /\ adminToken' = tokenRequest.token
  /\ tokenRequest' = NoTokenRequest
  /\ up' = [c \in Calls |-> IF c \in Waiting("token")
                              THEN [up[c] EXCEPT !.at = "sent", !.token = tokenRequest.token]
                              ELSE up[c]]
  /\ UNCHANGED <<epoch, done, faults>>

TokenFails ==
  /\ tokenRequest.open /\ Fault
  /\ tokenRequest' = NoTokenRequest
  /\ up' = [c \in Calls |-> IF c \in Waiting("token") THEN Unavailable(c) ELSE up[c]]
  /\ UNCHANGED <<adminToken, epoch, done>>

Effect(c) == IF MethodOf[c] = "POST" THEN 1 ELSE 0

\* One 401 is followed by another try.
Refreshed(request) == [Again(request) EXCEPT !.refreshed = TRUE]

\* Mutants: the refused token stays; the request for another one goes with it.
KeepToken == UNCHANGED <<adminToken, tokenRequest>>
DropBoth == adminToken' = 0 /\ tokenRequest' = NoTokenRequest

\* onUnauthorized: others may be waiting for a token already.
OnUnauthorized == adminToken' = 0 /\ UNCHANGED tokenRequest

Answer(c) ==
  /\ up[c].at = "sent"
  /\ IF up[c].token = epoch
       THEN /\ up' = [up EXCEPT ![c] = [NoRequest EXCEPT !.at = "ok"]]
            /\ done' = [done EXCEPT ![c] = @ + Effect(c)]
            /\ UNCHANGED <<adminToken, tokenRequest>>
       ELSE /\ UNCHANGED done
            /\ IF up[c].refreshed
                 THEN /\ up' = [up EXCEPT ![c] = [NoRequest EXCEPT !.at = "failed"]]
                      /\ UNCHANGED <<adminToken, tokenRequest>>
                 ELSE /\ up' = [up EXCEPT ![c] = Refreshed(@)]
                      /\ OnUnauthorized
  /\ UNCHANGED <<epoch, faults>>

\* No answer, or 502 to 504: Keycloak may have done it all the same.
Lost(c) ==
  /\ up[c].at = "sent" /\ Fault
  /\ up' = [up EXCEPT ![c] = Unavailable(c)]
  /\ \E effect \in IF up[c].token = epoch THEN {0, Effect(c)} ELSE {0} :
       done' = [done EXCEPT ![c] = @ + effect]
  /\ UNCHANGED <<adminToken, tokenRequest, epoch>>

\* Keycloak is restarted, its keys or the client's secret are changed.
Revoke ==
  /\ Fault
  /\ epoch' = epoch + 1
  /\ UNCHANGED <<up, adminToken, tokenRequest, done>>

\* expiresAt has come.
TokenEnds ==
  /\ adminToken # 0 /\ Fault
  /\ adminToken' = 0
  /\ UNCHANGED <<up, tokenRequest, epoch, done>>

-----------------------------------------------------------------------------
\* A call begins its request, and takes the result.
Begin(c) == up' = [up EXCEPT ![c] = [NoRequest EXCEPT !.at = "send"]]
Finish(c) == up[c].at \in {"ok", "failed"} /\ up' = [up EXCEPT ![c] = NoRequest]

UpstreamInit ==
  /\ up = [c \in Calls |-> NoRequest]
  /\ adminToken = 0 /\ tokenRequest = NoTokenRequest
  /\ epoch = 1
  /\ done = [c \in Calls |-> 0]
  /\ faults = MaxFaults

Upstream(c) == Send(c) \/ Wake(c) \/ Answer(c)
TokenComes == IssueToken \/ TokenArrives
UpstreamFault == TokenFails \/ Revoke \/ TokenEnds \/ \E c \in Calls : Lost(c)

UpstreamTypeOK ==
  /\ up \in [Calls -> [at : {None, "send", "token", "sent", "sleep", "ok", "failed"},
                       attempt : 0..(MaxRetries + 1), refreshed : BOOLEAN,
                       token : {0} \cup Epochs]]
  /\ Waiting("token") # {} => tokenRequest.open
  /\ adminToken \in {0} \cup Epochs
  /\ tokenRequest \in [open : BOOLEAN, token : {0} \cup Epochs]
  /\ epoch \in Epochs
  /\ done \in [Calls -> Nat]
  /\ faults \in 0..MaxFaults
=============================================================================
