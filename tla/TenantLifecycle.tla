-------------------------- MODULE TenantLifecycle --------------------------
(***************************************************************************)
(* One tenant of the control plane with its users, enrollment tokens and   *)
(* agents, and the API requests that change them: modules/tenants, users,  *)
(* agents and enrollments, under the transactions of                       *)
(* common/db/database.service.ts (Postgres, READ COMMITTED).               *)
(*                                                                         *)
(* A transaction keeps what it wrote or locked in its `draft`.  Other      *)
(* requests read the committed rows and wait for a row some draft holds.   *)
(* An UPDATE over many rows fixes the rows it matches when it starts, then *)
(* locks one after the other and looks at each again: a row committed      *)
(* after the start is not among them.                                      *)
(***************************************************************************)
EXTENDS Naturals, Sequences, FiniteSets

CONSTANTS
  Requests,   \* bound: API requests; each is served once
  Users,      \* ids of users
  Tokens,     \* ids of enrollments; each fixes the id of its agent
  Operations, \* what a request may ask for, a subset of AllOperations
  CanAbort    \* transactions may fail: Keycloak down, connection lost, crash

AllOperations ==
  {"createTenant", "deleteTenant", "createUser", "updateUser", "deleteUser",
   "enableAgent", "disableAgent", "deleteAgent", "createEnrollment",
   "revokeEnrollment", "exchange"}

ASSUME LifecycleAssumption ==
  /\ Operations \subseteq AllOperations
  /\ CanAbort \in BOOLEAN

VARIABLES
  row,        \* the committed status of every row
  expired,    \* the tokens whose expires_at has passed
  draft,      \* what each open transaction wrote or locked
  pc,         \* where each request is
  operation,  \* what it asks for
  target,     \* the row it is about
  matched,    \* rows its current UPDATE still has to lock
  announced,  \* rows its transaction enqueues to the outbox
  found,      \* history: what was live when a delete of the active tenant last began
  lastCommit  \* history: the rows the last commit changed and enqueued

request == <<pc, operation, target, matched, announced>>
history == <<found, lastCommit>>
vars == <<row, expired, draft, request, history>>

Tenant == <<"tenant", 0>>
User(u) == <<"user", u>>
Token(e) == <<"enrollment", e>>
Agent(e) == <<"agent", e>>

UserRows == {User(u) : u \in Users}
TokenRows == {Token(e) : e \in Tokens}
AgentRows == {Agent(e) : e \in Tokens}
Rows == {Tenant} \cup UserRows \cup TokenRows \cup AgentRows

\* The rows the outbox mirrors.
Mirrored == Rows \ TokenRows
AgentOf(t) == <<"agent", t[2]>>

\* open, used and revoked are a token's used_at and revoked_at, which a CHECK
\* keeps from being set together.
Statuses ==
  {"absent", "active", "deleted", "provisioning", "disabled", "revoked", "open", "used"}

Untouched == "untouched"

StatusesOf(r) ==
  CASE r[1] \in {"tenant", "user"} -> {"absent", "active", "deleted"}
    [] r[1] = "agent" -> {"absent", "active", "disabled", "revoked"}
    [] OTHER -> {"absent", "open", "used", "revoked"}

Live(status) == status \in {"active", "provisioning", "disabled", "open"}

Places ==
  {"new", "loading", "writing", "locking", "readTenant", "issue", "keycloak",
   "markDeleted", "users", "agents", "tokens", "commit", "end"}

\* A request in one of these has an open transaction.
InTransaction ==
  {"readTenant", "issue", "keycloak", "users", "agents", "tokens", "commit"}

\* What request p reads of row r inside its transaction.
Reads(p, r) == IF draft[p][r] = Untouched THEN row[r] ELSE draft[p][r]

\* No other transaction holds row r.
Free(p, r) == \A q \in Requests \ {p} : draft[q][r] = Untouched

-----------------------------------------------------------------------------
(* The statements of the repositories, as the new status of one row.       *)

\* tenants.markDeleted and users.markDeleted: no condition on the status.
MarkDeleted(status) == "deleted"

\* Mutant: the condition on `revoked` is dropped.
SetStatusAlways(old, new) == new

\* agents.setStatus
SetStatus(old, new) == IF old = "revoked" THEN old ELSE new

\* agents.markRevoked
MarkRevoked(status) == "revoked"

\* enrollments.revoke and revokeOpenForTenant
RevokeOpen(status) == IF status = "open" THEN "revoked" ELSE status

\* enrollments.markUsed
MarkUsed(status) == IF status = "open" THEN "used" ELSE status

\* Mutant: the cascade revokes active agents only.
CascadeHitsActive(status) == status \in {"active", "open"}

\* The WHERE of the three cascading updates of a tenant delete.
CascadeHits(status) == status \in {"active", "provisioning", "disabled", "open"}

CascadeSets(r) == IF r[1] = "user" THEN "deleted" ELSE "revoked"

-----------------------------------------------------------------------------
(* Ends of transactions                                                    *)

\* Mutant: the connection goes back to the pool without a ROLLBACK.
ForgetDraft(p) == draft' = draft

DropDraft(p) == draft' = [draft EXCEPT ![p] = [r \in Rows |-> Untouched]]

\* COMMIT: the draft becomes visible, with the outbox entries of `keys`.
CommitWith(p, writes, keys) ==
  /\ row' = [r \in Rows |-> writes[r]]
  /\ lastCommit' = [changed |-> {r \in Rows : writes[r] # row[r]}, enqueued |-> keys]
  /\ DropDraft(p)

Finish(p) ==
  /\ pc' = [pc EXCEPT ![p] = "end"]
  /\ UNCHANGED <<operation, target, matched, announced>>

\* A transaction throws, or its replica dies: everything is rolled back.
Abort(p) ==
  /\ CanAbort
  /\ pc[p] \in InTransaction
  /\ Finish(p)
  /\ DropDraft(p)
  /\ UNCHANGED <<row, expired, history>>

-----------------------------------------------------------------------------
(* Arrival of a request.  TenantScopeGuard loads the tenant of the path    *)
(* and wants it active; nothing looks at it again later.  The exchange and *)
(* the creation of a tenant have no tenant in their path.                  *)

Targets(o) ==
  CASE o \in {"createTenant", "deleteTenant"} -> {Tenant}
    [] o \in {"createUser", "updateUser", "deleteUser"} -> UserRows
    [] o \in {"enableAgent", "disableAgent", "deleteAgent"} -> AgentRows
    [] OTHER -> TokenRows

\* A row that is about to be created gets an id nobody has.
Fresh(r) == row[r] = "absent" /\ \A q \in Requests : pc[q] = "new" \/ target[q] # r

FirstPlace(o) ==
  CASE o \in {"createTenant", "createUser", "createEnrollment"} -> "writing"
    [] o = "deleteTenant" -> "markDeleted"
    [] o = "exchange" -> "locking"
    [] OTHER -> "loading"

TenantScope(o) == o \in {"createTenant", "exchange"} \/ row[Tenant] = "active"

Receive(p, o, r) ==
  /\ pc[p] = "new"
  /\ TenantScope(o)
  /\ o \in {"createUser", "createEnrollment"} => Fresh(r)
  /\ pc' = [pc EXCEPT ![p] = FirstPlace(o)]
  /\ operation' = [operation EXCEPT ![p] = o]
  /\ target' = [target EXCEPT ![p] = r]
  /\ UNCHANGED <<row, expired, draft, matched, announced, history>>

-----------------------------------------------------------------------------
(* Requests about one existing row: a read outside any transaction, then   *)
(* an update and its outbox entry in one.                                  *)

\* requireUser, requireAgent and the tests of update and revoke.
Acceptable(o, status) ==
  CASE o \in {"updateUser", "deleteUser"} -> status = "active"
    [] o = "enableAgent" -> status = "disabled"
    [] o = "disableAgent" -> status = "active"
    [] o = "deleteAgent" -> status \in {"active", "disabled"}
    [] OTHER -> status \in {"open", "revoked"}

Load(p) ==
  /\ pc[p] = "loading"
  /\ pc' = [pc EXCEPT ![p] =
       IF Acceptable(operation[p], row[target[p]]) THEN "writing" ELSE "end"]
  /\ UNCHANGED <<row, expired, draft, operation, target, matched, announced, history>>

\* users.setEnabled leaves the status alone.
Updated(o, status) ==
  CASE o = "updateUser" -> status
    [] o = "deleteUser" -> MarkDeleted(status)
    [] o = "enableAgent" -> SetStatus(status, "active")
    [] o = "disableAgent" -> SetStatus(status, "disabled")
    [] o = "deleteAgent" -> MarkRevoked(status)
    [] o = "revokeEnrollment" -> RevokeOpen(status)

UpdateOne(p) ==
  /\ pc[p] = "writing"
  /\ operation[p] \notin {"createTenant", "createUser", "createEnrollment"}
  /\ Free(p, target[p])
  /\ CommitWith(p, [row EXCEPT ![target[p]] = Updated(operation[p], @)],
                {target[p]} \cap Mirrored)
  /\ Finish(p)
  /\ UNCHANGED <<expired, found>>

-----------------------------------------------------------------------------
(* Creation.  The insert waits for another insert of the same unique key;  *)
(* the Keycloak object is made inside the transaction.                     *)

InsertEnrollment(p) ==
  /\ pc[p] = "writing"
  /\ operation[p] = "createEnrollment"
  /\ CommitWith(p, [row EXCEPT ![target[p]] = "open"], {})
  /\ Finish(p)
  /\ UNCHANGED <<expired, found>>

\* tenants.create and users.createWithIdentity.
InsertRow(p) ==
  /\ pc[p] = "writing"
  /\ operation[p] \in {"createTenant", "createUser"}
  /\ Free(p, target[p])
  /\ \/ /\ row[target[p]] = "absent"
        /\ draft' = [draft EXCEPT ![p][target[p]] = "active"]
        /\ announced' = [announced EXCEPT ![p] = {target[p]}]
        /\ pc' = [pc EXCEPT ![p] = "keycloak"]
        /\ UNCHANGED <<operation, target, matched>>
     \/ /\ row[target[p]] # "absent"
        /\ Finish(p)
        /\ UNCHANGED draft
  /\ UNCHANGED <<row, expired, history>>

\* What issue and exchangeIn still write once the agent has its client.
Activated(p) ==
  [draft[p] EXCEPT ![AgentOf(target[p])] = SetStatus(@, "active"),
                   ![target[p]] = MarkUsed(@)]

\* The inline call succeeded; a failure is an Abort.
KeycloakAnswers(p) ==
  /\ pc[p] = "keycloak"
  /\ pc' = [pc EXCEPT ![p] = "commit"]
  /\ draft' = [draft EXCEPT ![p] = IF operation[p] = "exchange" THEN Activated(p) ELSE @]
  /\ UNCHANGED <<row, expired, operation, target, matched, announced, history>>

Commit(p) ==
  /\ pc[p] = "commit"
  /\ CommitWith(p, [r \in Rows |-> Reads(p, r)], announced[p])
  /\ Finish(p)
  /\ UNCHANGED <<expired, found>>

-----------------------------------------------------------------------------
(* Exchange of an enrollment token for an agent's credentials              *)

\* The checks of exchangeIn on the row it locked.
Exchangeable(t) == row[t] = "open" /\ t \notin expired

LockToken(p) ==
  /\ pc[p] = "locking"
  /\ Free(p, target[p])
  /\ IF Exchangeable(target[p])
       THEN /\ draft' = [draft EXCEPT ![p][target[p]] = row[target[p]]]
            /\ pc' = [pc EXCEPT ![p] = "readTenant"]
            /\ UNCHANGED <<operation, target, matched, announced>>
       ELSE Finish(p) /\ UNCHANGED draft
  /\ UNCHANGED <<row, expired, history>>

ReadTenant(p) ==
  /\ pc[p] = "readTenant"
  /\ IF row[Tenant] = "active"
       THEN /\ pc' = [pc EXCEPT ![p] = "issue"]
            /\ UNCHANGED <<draft, operation, target, matched, announced>>
       ELSE Finish(p) /\ DropDraft(p)
  /\ UNCHANGED <<row, expired, history>>

\* Mutant: the agent is inserted on a connection of its own.
IssueOutsideTransaction(p) ==
  /\ pc[p] = "issue"
  /\ row' = [row EXCEPT ![AgentOf(target[p])] = "active"]
  /\ announced' = [announced EXCEPT ![p] = {AgentOf(target[p])}]
  /\ pc' = [pc EXCEPT ![p] = "keycloak"]
  /\ UNCHANGED <<draft, expired, operation, target, matched, history>>

\* agents.issue up to the Keycloak call.
Issue(p) ==
  /\ pc[p] = "issue"
  /\ draft' = [draft EXCEPT ![p][AgentOf(target[p])] = "provisioning"]
  /\ announced' = [announced EXCEPT ![p] = {AgentOf(target[p])}]
  /\ pc' = [pc EXCEPT ![p] = "keycloak"]
  /\ UNCHANGED <<row, expired, operation, target, matched, history>>

-----------------------------------------------------------------------------
(* Deletion of the tenant: one transaction, four updates                   *)

\* The rows of an UPDATE ... WHERE tenant_id AND ..., at its start.
Matches(p, set) == {r \in set : CascadeHits(Reads(p, r))}

DeleteTenant(p) ==
  /\ pc[p] = "markDeleted"
  /\ Free(p, Tenant)
  /\ draft' = [draft EXCEPT ![p][Tenant] = MarkDeleted(@)]
  /\ matched' = [matched EXCEPT ![p] = Matches(p, UserRows)]
  /\ announced' = [announced EXCEPT ![p] = {Tenant}]
  /\ found' = IF row[Tenant] = "active" THEN {r \in Rows : Live(row[r])} ELSE found
  /\ pc' = [pc EXCEPT ![p] = "users"]
  /\ UNCHANGED <<row, expired, operation, target, lastCommit>>

\* Mutant: the ids to enqueue are the active ones only.
ReturningActive(r, status) == IF status = "active" THEN {r} \cap Mirrored ELSE {}

\* Mutant: the ids of tokens are enqueued too.
ReturningAll(r, status) == {r}

\* RETURNING id; the ids of tokens are not used.
Returning(r, status) == {r} \cap Mirrored

\* The update gets to a row: it waits for the row and tests it again.
CascadeRow(p, r) ==
  /\ pc[p] \in {"users", "agents", "tokens"}
  /\ r \in matched[p]
  /\ Free(p, r)
  /\ matched' = [matched EXCEPT ![p] = @ \ {r}]
  /\ IF CascadeHits(row[r])
       THEN /\ draft' = [draft EXCEPT ![p][r] = CascadeSets(r)]
            /\ announced' = [announced EXCEPT ![p] = @ \cup Returning(r, row[r])]
       ELSE /\ draft' = [draft EXCEPT ![p][r] = row[r]]
            /\ UNCHANGED announced
  /\ UNCHANGED <<row, expired, pc, operation, target, history>>

\* An update is through and the next one starts.
NextUpdate(p) ==
  /\ pc[p] \in {"users", "agents", "tokens"}
  /\ matched[p] = {}
  /\ \/ /\ pc[p] = "users"
        /\ pc' = [pc EXCEPT ![p] = "agents"]
        /\ matched' = [matched EXCEPT ![p] = Matches(p, AgentRows)]
     \/ /\ pc[p] = "agents"
        /\ pc' = [pc EXCEPT ![p] = "tokens"]
        /\ matched' = [matched EXCEPT ![p] = Matches(p, TokenRows)]
     \/ /\ pc[p] = "tokens"
        /\ pc' = [pc EXCEPT ![p] = "commit"]
        /\ UNCHANGED matched
  /\ UNCHANGED <<row, expired, draft, operation, target, announced, history>>

-----------------------------------------------------------------------------

\* now() passes expires_at.
Expire(t) ==
  /\ row[t] = "open"
  /\ expired' = expired \cup {t}
  /\ UNCHANGED <<row, draft, request, history>>

\* States an undisturbed history leads to: an agent comes with its used
\* token, and a deleted tenant has nothing live.
Settled(r) ==
  /\ \A e \in Tokens : (r[Token(e)] = "used") <=> (r[Agent(e)] # "absent")
  /\ r[Tenant] = "absent" => \A x \in Rows : r[x] = "absent"
  /\ r[Tenant] = "deleted" => \A x \in Rows : ~Live(r[x])

Init ==
  /\ row \in {r \in [Rows -> Statuses] :
                (\A x \in Rows : r[x] \in StatusesOf(x)) /\ Settled(r)}
  /\ expired = {}
  /\ draft = [p \in Requests |-> [r \in Rows |-> Untouched]]
  /\ pc = [p \in Requests |-> "new"]
  /\ operation = [p \in Requests |-> "deleteTenant"]
  /\ target = [p \in Requests |-> Tenant]
  /\ matched = [p \in Requests |-> {}]
  /\ announced = [p \in Requests |-> {}]
  /\ found = {}
  /\ lastCommit = [changed |-> {}, enqueued |-> {}]

\* A step of a request that is being served.
Serve(p) ==
  \/ Load(p)
  \/ UpdateOne(p)
  \/ InsertEnrollment(p)
  \/ InsertRow(p)
  \/ KeycloakAnswers(p)
  \/ Commit(p)
  \/ LockToken(p)
  \/ ReadTenant(p)
  \/ Issue(p)
  \/ DeleteTenant(p)
  \/ \E r \in Rows : CascadeRow(p, r)
  \/ NextUpdate(p)

Next ==
  \/ \E p \in Requests :
       \/ \E o \in Operations : \E r \in Targets(o) : Receive(p, o, r)
       \/ Serve(p)
       \/ Abort(p)
  \/ \E t \in TokenRows : Expire(t)

Spec == Init /\ [][Next]_vars

-----------------------------------------------------------------------------
(* Properties                                                              *)

\* Every variable has its type.
TypeOK ==
  /\ row \in [Rows -> Statuses]
  /\ expired \subseteq TokenRows
  /\ draft \in [Requests -> [Rows -> Statuses \cup {Untouched}]]
  /\ pc \in [Requests -> Places]
  /\ operation \in [Requests -> AllOperations]
  /\ target \in [Requests -> Rows]
  /\ matched \in [Requests -> SUBSET Rows]
  /\ announced \in [Requests -> SUBSET Mirrored]
  /\ found \subseteq Rows
  /\ lastCommit \in [changed : SUBSET Rows, enqueued : SUBSET Mirrored]

\* Once committed, an agent and the use of its token go together, whatever
\* transaction fails: the exchange is one transaction
\* (enrollments.service.ts, exchangeIn).
AgentIffUsed ==
  \A e \in Tokens : (row[Token(e)] = "used") <=> (row[Agent(e)] # "absent")

\* A deleted tenant or user and a revoked agent or token stay so, also when
\* a request that read the row earlier writes it afterwards
\* (agents.setStatus, users.setEnabled, enrollments.markUsed).
EndIsFinal ==
  [][\A r \in Rows : row[r] \in {"deleted", "revoked"} => row'[r] = row[r]]_vars

\* A commit that changes a tenant, a user or an agent enqueues its sync in
\* the same transaction (the rule of outbox.repository.ts).
ChangesAreEnqueued == lastCommit.changed \cap Mirrored \subseteq lastCommit.enqueued

\* A delete ends every user, agent and token that was live when it began, in
\* whatever order other requests enable, disable, revoke or use them
\* (tenants.service.ts, delete).
DeleteEndsAllItFound ==
  row[Tenant] = "deleted" => \A r \in found : row[r] = "used" \/ ~Live(row[r])

\* A deleted tenant has no live agent (tenants.service.ts:77-83 and 103).
AgentsEndWithTenant ==
  row[Tenant] = "deleted" => \A r \in AgentRows : ~Live(row[r])

\* The rows the next statement of p may have to lock, in any order.
Needs(p) ==
  CASE pc[p] = "markDeleted" -> {Tenant}
    [] pc[p] = "locking" -> {target[p]}
    [] pc[p] = "writing" /\ operation[p] # "createEnrollment" -> {target[p]}
    [] pc[p] \in {"users", "agents", "tokens"} -> matched[p]
    [] OTHER -> {}

WaitsFor(p, q) == q # p /\ \E r \in Needs(p) : draft[q][r] # Untouched
Served(p) == pc[p] \notin {"new", "end"}
GoesOn(p) == Served(p) /\ \A q \in Requests : ~WaitsFor(p, q)

\* Transactions never wait for each other's rows in a circle, nor for one that
\* is over, in whatever order an exchange, a delete and the updates of single
\* rows lock them: who is waited for goes on, or is a request that itself waits
\* only for such as go on.
WaitsEnd ==
  \A p, q \in Requests : WaitsFor(p, q) =>
    Served(q) /\ \A s \in Requests : WaitsFor(q, s) => GoesOn(s)
=============================================================================
