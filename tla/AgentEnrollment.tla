--------------------------- MODULE AgentEnrollment ---------------------------
(***************************************************************************)
(* One enrollment token, the agent it creates and the agent's client in    *)
(* Keycloak: the scripts on the host (client/install.sh, bootstrap.sh),    *)
(* the exchange (modules/enrollments, modules/agents), the mirror          *)
(* (keycloak-agent.mirror.ts) and the garbage collector of clients.        *)
(*                                                                         *)
(* Each request to Keycloak and each transaction is a step; the two        *)
(* lookups of a client are one.  The outbox is what Outbox promises, as in *)
(* KeycloakMirror.  The token's tenant stays active here: its end is in    *)
(* TenantLifecycle.  Left out: markers, which a client of ours always has, *)
(* and what the limits of the exchange count; they may refuse any request. *)
(***************************************************************************)
EXTENDS Naturals, FiniteSets

CONSTANTS
  Attempts,      \* bound: runs of the script with this token
  Replicas,      \* replicas of the control plane
  LegacyMappers, \* how many mappers a client of v0.6-v0.8 has
  MaxClients,    \* bound: clients Keycloak creates
  MaxScopes,     \* bound: how often the bootstrap Job creates the scope
  MaxChanges,    \* bound: requests of admins about the agent
  MaxFails       \* bound: requests that fail, answers lost, replicas that die

None == 0

ASSUME EnrollmentAssumption ==
  /\ "handler" \notin Attempts
  /\ None \notin Replicas
  /\ LegacyMappers \in Nat \ {0} /\ MaxClients \in Nat \ {0}
  /\ MaxScopes \in Nat \ {0} /\ MaxChanges \in Nat /\ MaxFails \in Nat

VARIABLES
  token,    \* the enrollment row: open, used or revoked
  expired,  \* whether expires_at has passed
  status,   \* the committed status of the agent row
  pointer,  \* its keycloak_client_uuid, or None
  client,   \* Keycloak: the client named after the agent, or NoClient
  made,     \* Keycloak: the last uuid it gave out
  scope,    \* Keycloak: the id of the client scope mtco-agent, or None
  cached,   \* the scope id each replica remembers
  queued,   \* whether the agent has a pending outbox entry
  task,     \* the exchange of each attempt, and the handler of the agent
  gc,       \* the garbage collector of each replica
  host,     \* what each run of the script has come to
  secretOf, \* history: the client whose secret a committed exchange has read
  changes,
  fails

rows == <<token, expired, status, pointer>>
keycloak == <<client, made, scope>>
bounds == <<changes, fails>>
vars == <<rows, keycloak, cached, queued, task, gc, host, secretOf, bounds>>

Uuids == 1..MaxClients
Scopes == 1..MaxScopes
NoClient == [id |-> None, enabled |-> FALSE, attributes |-> FALSE, scope |-> None, legacy |-> 0]

\* The outbox runs one handler of the agent at a time.
Handler == "handler"
Processes == Attempts \cup {Handler}

Statuses == {"absent", "active", "disabled", "revoked"}
Live == status \in {"active", "disabled"}
Open == token = "open" /\ ~expired

Steps ==
  {"idle", "lock", "resolve", "create", "enable", "attributes", "scopes", "findScope",
   "addScope", "legacy", "secret", "delete", "clear", "store", "commit", "answer"}

Task == [at : Steps, on : Replicas \cup {None}, row : Statuses, ptr : Uuids \cup {None},
         id : Uuids \cup {None}]
Idle == [at |-> "idle", on |-> None, row |-> "absent", ptr |-> None, id |-> None]

Collector ==
  [at : {"idle", "list", "live", "open", "remove"}, listed : Uuids \cup {None},
   keep : BOOLEAN, seen : Uuids \cup {None}, during : SUBSET Attempts]
NotCollecting == [at |-> "idle", listed |-> None, keep |-> FALSE, seen |-> None, during |-> {}]

At(p, step) == task[p].at = step
Go(p, step) == task' = [task EXCEPT ![p].at = step]
Exchanging(p) == p \in Attempts

\* Attempts that are inside the transaction of an exchange.
InTransaction == {p \in Attempts : task[p].at \notin {"idle", "lock", "answer"}}

\* What a token of this client carries: agent_id, tenant_id, vm_account_id.
Claims(c) ==
  c.legacy = LegacyMappers \/ (c.attributes /\ c.scope # None /\ c.scope = scope)

-----------------------------------------------------------------------------
(* How a process ends                                                      *)

\* A handler that throws stays queued; an exchange rolls back and answers 502
\* or 503, which the script calls a temporary problem.
Throw(p) ==
  /\ task' = [task EXCEPT ![p] = Idle]
  /\ IF Exchanging(p)
       THEN host' = [host EXCEPT ![p] = "again"] /\ UNCHANGED queued
       ELSE queued' = TRUE /\ UNCHANGED host

Return(p) == task' = [task EXCEPT ![p] = Idle] /\ UNCHANGED <<queued, host>>
Proceed(p, step) == Go(p, step) /\ UNCHANGED <<queued, host>>

\* The client a process works on is no longer there: 404.
Gone(p) == client.id # task[p].id

-----------------------------------------------------------------------------
(* The scripts on the host                                                 *)

\* install.sh runs bootstrap.sh, which sends the token it is given.
Bootstrap(p) ==
  /\ host[p] = "new"
  /\ host' = [host EXCEPT ![p] = "waiting"]
  /\ \E r \in Replicas : task' = [task EXCEPT ![p].at = "lock", ![p].on = r]
  /\ UNCHANGED <<rows, keycloak, cached, queued, gc, secretOf, bounds>>

\* 429 of the limiter, before the service is called.
Limited(p) ==
  /\ At(p, "lock")
  /\ task' = [task EXCEPT ![p] = Idle]
  /\ host' = [host EXCEPT ![p] = "again"]
  /\ UNCHANGED <<rows, keycloak, cached, queued, gc, secretOf, bounds>>

\* 201: the credentials are written to agent.env and the service is started.
Install(p) ==
  /\ At(p, "answer")
  /\ task' = [task EXCEPT ![p] = Idle]
  /\ host' = [host EXCEPT ![p] = "running"]
  /\ UNCHANGED <<rows, keycloak, cached, queued, gc, secretOf, bounds>>

\* The answer is lost on its way, or the script stops before agent.env is there.
AnswerLost(p) ==
  /\ fails < MaxFails
  /\ At(p, "answer")
  /\ task' = [task EXCEPT ![p] = Idle]
  /\ \E told \in {"unreachable", "again"} : host' = [host EXCEPT ![p] = told]
  /\ fails' = fails + 1
  /\ UNCHANGED <<rows, keycloak, cached, queued, gc, secretOf, changes>>

-----------------------------------------------------------------------------
(* The exchange                                                            *)

\* Mutant: the row is read without FOR UPDATE.
NobodyWaitsForIt(p) == TRUE

\* FOR UPDATE OF e: a second exchange of the token waits for the first.
RowIsFree(p) == InTransaction \subseteq {p}

\* lockByTokenHash and the checks of exchangeIn; a refusal is 410.
Lock(p) ==
  /\ At(p, "lock")
  /\ RowIsFree(p)
  /\ IF Open
       THEN Proceed(p, "resolve")
       ELSE /\ task' = [task EXCEPT ![p] = Idle]
            /\ host' = [host EXCEPT ![p] = "refused"]
            /\ UNCHANGED queued
  /\ UNCHANGED <<rows, keycloak, cached, gc, secretOf, bounds>>

\* createClient: 409 when somebody was faster.
Create(p) ==
  /\ At(p, "create")
  /\ IF client # NoClient
       THEN Throw(p) /\ UNCHANGED keycloak
       ELSE /\ made < MaxClients
            /\ client' = [NoClient EXCEPT !.id = made + 1, !.enabled = TRUE]
            /\ made' = made + 1
            /\ task' = [task EXCEPT ![p].at = "attributes", ![p].id = made + 1]
            /\ UNCHANGED <<scope, queued, host>>
  /\ UNCHANGED <<rows, cached, gc, secretOf, bounds>>

GetSecret(p) ==
  /\ At(p, "secret")
  /\ IF Gone(p) THEN Throw(p) ELSE Proceed(p, "commit")
  /\ UNCHANGED <<rows, keycloak, cached, gc, secretOf, bounds>>

\* COMMIT of the agent row, its client's id, its outbox row and used_at.
Commit(p) ==
  /\ At(p, "commit")
  /\ token' = "used" /\ status' = "active" /\ pointer' = task[p].id
  /\ queued' = TRUE
  /\ secretOf' = task[p].id
  /\ Go(p, "answer")
  /\ UNCHANGED <<expired, keycloak, cached, gc, host, bounds>>

-----------------------------------------------------------------------------
(* The mirror.  Exchange and handler share the steps from resolve on.      *)

Sync ==
  /\ queued /\ At(Handler, "idle")
  /\ queued' = FALSE
  /\ \E r \in Replicas :
       task' = [task EXCEPT ![Handler] =
         [Idle EXCEPT !.at = "resolve", !.on = r, !.row = status, !.ptr = pointer]]
  /\ UNCHANGED <<rows, keycloak, cached, gc, host, secretOf, bounds>>

\* Where apply or issueCredentials go once the client is looked up: the stored
\* id, then the name, find the one client there is.
AfterResolve(p) ==
  IF Exchanging(p) THEN IF client = NoClient THEN "create" ELSE "attributes"
  ELSE IF task[p].row = "revoked"
    THEN IF client # NoClient THEN "delete" ELSE IF task[p].ptr # None THEN "clear" ELSE "idle"
  ELSE IF client = NoClient THEN "idle"
  ELSE IF client.enabled # (task[p].row = "active") THEN "enable" ELSE "attributes"

Resolve(p) ==
  /\ At(p, "resolve")
  /\ IF AfterResolve(p) = "idle"
       THEN Return(p)
       ELSE /\ task' = [task EXCEPT ![p].at = AfterResolve(p), ![p].id = client.id]
            /\ UNCHANGED <<queued, host>>
  /\ UNCHANGED <<rows, keycloak, cached, gc, secretOf, bounds>>

\* updateClient: disabled agents get no tokens.
Enable(p) ==
  /\ At(p, "enable")
  /\ IF Gone(p)
       THEN Throw(p) /\ UNCHANGED client
       ELSE Proceed(p, "attributes") /\ client' = [client EXCEPT !.enabled = task[p].row = "active"]
  /\ UNCHANGED <<rows, made, scope, cached, gc, secretOf, bounds>>

\* getServiceAccountUser, and updateUser when an attribute is missing.
SetAttributes(p) ==
  /\ At(p, "attributes")
  /\ IF Gone(p)
       THEN Throw(p) /\ UNCHANGED client
       ELSE Proceed(p, "scopes") /\ client' = [client EXCEPT !.attributes = TRUE]
  /\ UNCHANGED <<rows, made, scope, cached, gc, secretOf, bounds>>

\* Mutant: the mappers go before the scope is there.
AfterScopesLegacyFirst(p) ==
  IF client.legacy > 0 \/ client.scope # None THEN "legacy"
  ELSE IF cached[task[p].on] = None THEN "findScope" ELSE "addScope"

AfterScopes(p) ==
  IF client.scope # None THEN "legacy"
  ELSE IF cached[task[p].on] = None THEN "findScope" ELSE "addScope"

GetScopes(p) ==
  /\ At(p, "scopes")
  /\ IF Gone(p) THEN Throw(p) ELSE Proceed(p, AfterScopes(p))
  /\ UNCHANGED <<rows, keycloak, cached, gc, secretOf, bounds>>

FindScope(p) ==
  /\ At(p, "findScope")
  /\ cached' = [cached EXCEPT ![task[p].on] = scope]
  /\ IF scope = None THEN Throw(p) ELSE Proceed(p, "addScope")
  /\ UNCHANGED <<rows, keycloak, gc, secretOf, bounds>>

\* Mutant: the remembered id is kept after an error.
KeepScopeId(r) == cached' = cached

DropScopeId(r) == cached' = [cached EXCEPT ![r] = None]

\* addClientDefaultScope with the remembered id; 404 when it is an old one.
AddScope(p) ==
  LET r == task[p].on
  IN /\ At(p, "addScope")
     /\ IF Gone(p) \/ cached[r] # scope
          THEN Throw(p) /\ DropScopeId(r) /\ UNCHANGED client
          ELSE /\ Proceed(p, "legacy")
               /\ client' = [client EXCEPT !.scope = scope]
               /\ UNCHANGED cached
     /\ UNCHANGED <<rows, made, scope, gc, secretOf, bounds>>

\* Mutant: the last mapper is deleted once more.
HasLegacyAlways(c) == c.legacy >= 0

HasLegacy(c) == c.legacy > 0

\* deleteProtocolMapper, one after the other; then the id is stored if it is new.
RemoveLegacy(p) ==
  /\ At(p, "legacy")
  /\ IF Gone(p)
       THEN Throw(p) /\ UNCHANGED client
       ELSE IF HasLegacy(client)
         THEN client' = [client EXCEPT !.legacy = @ - 1] /\ UNCHANGED <<task, queued, host>>
         ELSE /\ UNCHANGED client
              /\ IF Exchanging(p) THEN Proceed(p, "secret")
                 ELSE IF task[p].ptr # task[p].id THEN Proceed(p, "store") ELSE Return(p)
  /\ UNCHANGED <<rows, made, scope, cached, gc, secretOf, bounds>>

\* setClientUuid of the handler.
Store(p) ==
  /\ At(p, "store")
  /\ pointer' = task[p].id
  /\ Return(p)
  /\ UNCHANGED <<token, expired, status, keycloak, cached, gc, secretOf, bounds>>

\* deleteClient of the revoked; 404 is a success.
Delete(p) ==
  /\ At(p, "delete")
  /\ client' = IF Gone(p) THEN client ELSE NoClient
  /\ IF task[p].ptr # None THEN Proceed(p, "clear") ELSE Return(p)
  /\ UNCHANGED <<rows, made, scope, cached, gc, secretOf, bounds>>

Clear(p) ==
  /\ At(p, "clear")
  /\ pointer' = None
  /\ Return(p)
  /\ UNCHANGED <<token, expired, status, keycloak, cached, gc, secretOf, bounds>>

-----------------------------------------------------------------------------
(* Admins, the clock and Keycloak                                          *)

\* setStatus and markRevoked, each with the outbox row.
ChangeAgent ==
  /\ changes < MaxChanges /\ changes' = changes + 1
  /\ Live
  /\ \E s \in {"active", "disabled", "revoked"} \ {status} : status' = s
  /\ queued' = TRUE
  /\ UNCHANGED <<token, expired, pointer, keycloak, cached, task, gc, host, secretOf, fails>>

\* revoke waits for an exchange that holds the row and leaves a used one alone.
RevokeToken ==
  /\ changes < MaxChanges /\ changes' = changes + 1
  /\ InTransaction = {}
  /\ token = "open"
  /\ token' = "revoked"
  /\ UNCHANGED <<expired, status, pointer, keycloak, cached, queued, task, gc, host, secretOf, fails>>

Expire ==
  /\ token = "open" /\ ~expired
  /\ expired' = TRUE
  /\ UNCHANGED <<token, status, pointer, keycloak, cached, queued, task, gc, host, secretOf, bounds>>

\* The keycloak-bootstrap Job creates the scope, or again after somebody has
\* deleted it, which takes it from all clients.
CreateScope ==
  /\ scope < MaxScopes
  /\ scope' = scope + 1
  /\ client' = [client EXCEPT !.scope = None]
  /\ UNCHANGED <<rows, made, cached, queued, task, gc, host, secretOf, bounds>>

-----------------------------------------------------------------------------
(* The resync and the collector of clients.  An exchange is shorter than   *)
(* GC_CONFIRM_MS: one that was open when a run decided is over when the    *)
(* next run of that replica starts.                                        *)

Resync(r) ==
  /\ gc[r].at = "idle"
  /\ gc[r].during \cap InTransaction = {}
  /\ queued' = (queued \/ Live \/ pointer # None)
  /\ gc' = [gc EXCEPT ![r].at = "list", ![r].during = {}]
  /\ UNCHANGED <<rows, keycloak, cached, task, host, secretOf, bounds>>

ListClients(r) ==
  /\ gc[r].at = "list"
  /\ gc' = [gc EXCEPT ![r].at = "live", ![r].listed = client.id]
  /\ UNCHANGED <<rows, keycloak, cached, queued, task, host, secretOf, bounds>>

LiveIds(r) ==
  /\ gc[r].at = "live"
  /\ gc' = [gc EXCEPT ![r].at = "open", ![r].keep = Live]
  /\ UNCHANGED <<rows, keycloak, cached, queued, task, host, secretOf, bounds>>

\* Mutant: a client is deleted when it is seen as an orphan for the first time.
AtOnce(r, orphan) == orphan # None

\* Only a client an earlier run has seen as an orphan is deleted.
Confirmed(r, orphan) == orphan # None /\ gc[r].seen = orphan

\* openAgentIds, a second statement; then the run decides.
OpenIds(r) ==
  LET orphan == IF gc[r].keep \/ Open THEN None ELSE gc[r].listed
  IN /\ gc[r].at = "open"
     /\ gc' = [gc EXCEPT ![r].at = IF Confirmed(r, orphan) THEN "remove" ELSE "idle",
                         ![r].listed = orphan, ![r].seen = orphan, ![r].keep = FALSE,
                         ![r].during = InTransaction]
     /\ UNCHANGED <<rows, keycloak, cached, queued, task, host, secretOf, bounds>>

Remove(r) ==
  /\ gc[r].at = "remove"
  /\ client' = IF client.id = gc[r].listed THEN NoClient ELSE client
  /\ gc' = [gc EXCEPT ![r].at = "idle", ![r].listed = None, ![r].seen = None]
  /\ UNCHANGED <<rows, made, scope, cached, queued, task, host, secretOf, bounds>>

-----------------------------------------------------------------------------
(* Failures                                                                *)

\* A request of p fails, before or after it took effect.
Fail(p) ==
  /\ fails < MaxFails /\ fails' = fails + 1
  /\ task[p].at \notin {"idle", "answer"}
  /\ Throw(p)
  /\ IF At(p, "addScope") \/ At(p, "findScope") THEN DropScopeId(task[p].on) ELSE UNCHANGED cached
  /\ UNCHANGED <<rows, keycloak, gc, secretOf, changes>>

\* Replica r dies: transactions are rolled back, answers lost, memory gone.
Crash(r) ==
  /\ fails < MaxFails /\ fails' = fails + 1
  /\ LET hit == {p \in Processes : task[p].on = r}
     IN /\ task' = [p \in Processes |-> IF p \in hit THEN Idle ELSE task[p]]
        /\ host' = [p \in Attempts |-> IF p \in hit THEN "unreachable" ELSE host[p]]
        /\ queued' = (queued \/ Handler \in hit)
  /\ cached' = [cached EXCEPT ![r] = None]
  /\ gc' = [gc EXCEPT ![r] = NotCollecting]
  /\ UNCHANGED <<rows, keycloak, secretOf, changes>>

-----------------------------------------------------------------------------
\* A new token, or an agent of v0.8 whose client still has its own mappers.  If
\* MaxClients is above 1, Keycloak was restored since (resync.service.ts:26) and
\* the client has another uuid than its row.
Init ==
  /\ \/ token = "open" /\ status = "absent" /\ pointer = None /\ client = NoClient /\ made = 0
     \/ /\ token = "used" /\ status = "active" /\ pointer = 1 /\ made = MaxClients
        /\ client = [NoClient EXCEPT !.id = made, !.enabled = TRUE, !.legacy = LegacyMappers]
  /\ secretOf = made
  /\ expired = FALSE
  /\ scope = None
  /\ cached = [r \in Replicas |-> None]
  /\ queued = FALSE
  /\ task = [p \in Processes |-> Idle]
  /\ gc = [r \in Replicas |-> NotCollecting]
  /\ host = [p \in Attempts |-> "new"]
  /\ changes = 0 /\ fails = 0

Mirror(p) ==
  \/ Resolve(p) \/ Enable(p) \/ SetAttributes(p) \/ GetScopes(p) \/ FindScope(p)
  \/ AddScope(p) \/ RemoveLegacy(p) \/ Store(p) \/ Delete(p) \/ Clear(p)
Exchange(p) == Lock(p) \/ Create(p) \/ GetSecret(p) \/ Commit(p) \/ Install(p) \/ Mirror(p)
Collect(r) == Resync(r) \/ ListClients(r) \/ LiveIds(r) \/ OpenIds(r) \/ Remove(r)

Next ==
  \/ \E p \in Attempts : Bootstrap(p) \/ Limited(p) \/ AnswerLost(p) \/ Exchange(p)
  \/ Sync \/ Mirror(Handler)
  \/ ChangeAgent \/ RevokeToken \/ Expire \/ CreateScope
  \/ \E r \in Replicas : Collect(r) \/ Crash(r)
  \/ \E p \in Processes : Fail(p)

Spec == Init /\ [][Next]_vars

\* Requests are answered or time out, the outbox and the resync go on, time
\* passes, and the Job creates the scope when there is none.
FairSpec ==
  /\ Spec
  /\ \A p \in Attempts : WF_vars(Exchange(p))
  /\ WF_vars(Sync \/ Mirror(Handler))
  /\ \A r \in Replicas : WF_vars(Collect(r))
  /\ WF_vars(Expire)
  /\ WF_vars(scope = None /\ CreateScope)

-----------------------------------------------------------------------------
(* Properties                                                              *)

\* Every variable has its type.
TypeOK ==
  /\ token \in {"open", "used", "revoked"} /\ expired \in BOOLEAN
  /\ status \in Statuses /\ pointer \in Uuids \cup {None}
  /\ client.id \in Uuids \cup {None} /\ client.scope \in Scopes \cup {None}
  /\ client.legacy \in 0..LegacyMappers /\ client.enabled \in BOOLEAN
  /\ made \in 0..MaxClients /\ scope \in 0..MaxScopes
  /\ cached \in [Replicas -> Scopes \cup {None}]
  /\ queued \in BOOLEAN
  /\ task \in [Processes -> Task]
  /\ gc \in [Replicas -> Collector]
  /\ host \in [Attempts -> {"new", "waiting", "running", "again", "refused", "unreachable"}]
  /\ secretOf \in Uuids \cup {None}

\* An agent that is not revoked has the very client whose secret its host was
\* sent: no retry, no collector and no handler replaces or removes it
\* (keycloak-agent.mirror.ts:103 "Re-creating it would give a secret the host
\* does not have"; keycloak-gc.ts:48 "an inline create still inside its DB
\* transaction is invisible for a moment").
AgentKeepsItsClient == Live => client.id = secretOf

\* However many hosts try the token, however often, its credentials are sent at
\* most once, and the token is used exactly when they have been.
CredentialsOnce ==
  /\ Cardinality({p \in Attempts : At(p, "answer") \/ host[p] = "running"}) <= 1
  /\ (\E p \in Attempts : At(p, "answer") \/ host[p] = "running") => token = "used"
  /\ token = "open" => status = "absent"

\* A client that puts the claims into its tokens never stops to, as long as the
\* scope is the first (keycloak-agent.mirror.ts:161 "scope FIRST, so no token is
\* ever minted without the claims").  A scope that is made anew while a handler
\* is about to remove the mappers is beyond this promise.
ClaimsAreNeverTaken ==
  [][client.id # None /\ client'.id = client.id /\ Claims(client) /\ scope' <= 1
       => Claims(client)']_vars

Settled ==
  /\ Live => /\ pointer = client.id /\ client.enabled = (status = "active")
             /\ client.attributes /\ client.scope # None /\ client.legacy = 0
  /\ ~Live => client = NoClient /\ pointer = None

\* Whatever fails, the client ends up as the agent is: enabled or disabled with
\* the claims of the shared scope, also after the scope was made anew and the
\* replicas remember an old id; and gone when the agent is revoked or when no
\* exchange of the token got to its commit (keycloak-gc.ts:41-46).
Settles == <>[]Settled
=============================================================================
