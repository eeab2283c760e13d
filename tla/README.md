# Verification of the control plane

TLA+ models, TLC runs and TLAPS proofs for the multi-tenant observability
control plane and the services around it. Paths below are relative to `src/`;
`CP` is `services/control-plane/src`, `QG` is `services/query-gateway/src`.

## 1. The system

| Component | State it keeps | Operations | Talks to |
|---|---|---|---|
| Transactional outbox (`CP/sync/outbox.repository.ts`, migrations 003 and 005) | table `outbox`: at most one pending row per (target, aggregate) with `requested_seq`, `claimed_seq`, lease, backoff | enqueue, claim, markDone, markFailed, purge, status | written by every domain transaction, read by the workers |
| Outbox worker (`CP/sync/outbox.worker.ts`), one per replica (two replicas) | flags `draining`, `rerun`, `stopped`; the claimed batch; the LISTEN connection | kick, drain, process, listen, poll, stop | outbox, mirror handlers |
| Resync (`CP/sync/resync.service.ts`) | flag `running` | run at start and every hour: enqueue everything, then collect garbage | outbox, Keycloak GC |
| Domain services: tenants, users, agents, enrollments, support access (`CP/modules`) | rows of Postgres | create, update, delete, issue, exchange, grant, revoke, sweep | database transactions, inline Keycloak calls, outbox |
| Keycloak mirrors (`CP/mirrors/keycloak`) | pointers in the rows (group id, user id, client id); groups, users and clients in Keycloak | apply, sync, remove | Keycloak admin API |
| Keycloak garbage collector (`CP/mirrors/keycloak/keycloak-gc.ts`) | first-seen times of orphans | run | Keycloak, database |
| Grafana mirrors (`CP/mirrors/grafana`) | pointers (org id, user id); orgs, users and memberships in Grafana | sync, provision, remove | Grafana API |
| Platform bootstrap (`CP/modules/platform`) | advisory lock | create the default tenant and the first admin, retry | domain services |
| Upstream clients (`CP/common/http/upstream-client.ts`, `CP/integrations`) | access token and role caches | request with retry and one re-authentication | Keycloak, Grafana |
| Auth, rate limits (`CP/common`) | JWKS cache, token buckets | verify, allow, prune | Keycloak |
| Query gateway (`QG`) | the requests on their way, sockets to the backends | authenticate, resolve the tenant, rewrite and check queries, forward, abort | OpenSearch, VictoriaMetrics |
| Web console (`kubernetes/base/control/control-plane-ui/site`) | tokens and the begun sign-in in sessionStorage, the shared refresh, dialogs | sign in and out, refresh, call the API, run deeds | Keycloak, control plane |
| Scripts on the hosts (`client`) | `agent.env` | trade a token for credentials, start the agent | control plane |

Every business change and its outbox entries are one Postgres transaction
(READ COMMITTED). Workers of both replicas drain the outbox; a handler reads
the current row and makes its target match, so events carry no content.
What is hard: the interleaving of transactions, workers, leases and
handlers; crashes between a remote call and the pointer that records it;
lost answers; lease, backoff and poll timers; notifications that come at the
wrong moment; caches of keys, tokens and ids that others have changed.

What makes each component correct:

- outbox: no update is lost, one pending row per key, leases exclude;
- worker: every wake-up leads to a claim that sees what it announced; work
  left behind by faults is taken up again;
- domain services: deleting a tenant leaves nothing active under it, an
  enrollment token yields at most one agent, each support grant ends with
  one sync of its user;
- mirrors and garbage collector: nothing owned by a deleted row survives in
  the target, nothing a live row points at is deleted;
- enrollment: the credentials of an agent go to one host, and the client they
  belong to is neither replaced nor removed while the agent lives;
- bootstrap: one initial admin, never a deleted one again;
- query gateway: what is asked of a backend tells nothing about another tenant
  and leaves out nothing of one's own; a client who leaves frees the backend;
- console, verifier, upstream client: nothing is done twice, what the user is
  told is true, and stale tokens, keys and sign-ins heal.

## 2. Modules

| Module | Models | Stands for |
|---|---|---|
| `Outbox` | the table, the workers of all replicas, resync, what mirrors show | `CP/sync` |
| `OutboxContract` | what the outbox promises, without table and leases | header of `outbox.repository.ts` |
| `OutboxProofs` | no update is lost, the contract is kept, and what holds while leases do | |
| `TenantLifecycle` | one tenant, its users, tokens and agents, and every request that changes them | `CP/modules/{tenants,users,agents,enrollments}`, `database.service.ts` |
| `TenantLifecycleProofs` | tokens, ends, deletes and outbox entries under any concurrent requests | |
| `SupportAccess` | grants of support access, their sweeps, and the memberships they lead to | `CP/modules/support-access`, migration 004 |
| `SupportAccessProofs` | no membership is forgotten, each grant ends once, for any number of sweepers | |
| `GrafanaMirror` | orgs, accounts and memberships in Grafana and the handlers that write them | `CP/mirrors/grafana`, `grafana.client.ts` |
| `GrafanaMirrorProofs` | members of orgs are entitled, handlers delete their own accounts | |
| `KeycloakMirror` | groups and accounts in Keycloak, their handlers, inline creation and garbage collection | `CP/mirrors/keycloak`, `keycloak.client.ts` |
| `KeycloakMirrorProofs` | no handler and no collector takes the object of a live row | |
| `AgentEnrollment` | one token, the hosts that try it, the agent's client in Keycloak, its handler and the collector | `client`, `CP/modules/{enrollments,agents}`, `keycloak-agent.mirror.ts`, `keycloak-gc.ts` |
| `AgentEnrollmentProofs` | credentials go out once, live agents keep their client and its claims, for any number of hosts and replicas | |
| `QueryGateway` | requests, how they are decided and rewritten, and their way to a backend | `QG/{auth,proxy}` |
| `QueryGatewayProofs` | what is asked of OpenSearch stays in the tenant and leaves out nothing of it, for any bodies | |
| `UpstreamClient` | requests to Keycloak with retries and the shared admin token | `upstream-client.ts`, `keycloak.client.ts` |
| `ApiGuard` (extends `UpstreamClient`) | the verifier and its keys, the guard, the handler's request | `CP/common/auth` |
| `Console` (extends `ApiGuard`) | one tab: sign-in, tokens, calls, dialogs | the console's `site` |
| `ConsoleProofs` | nothing is done twice and answers are true, for any calls and faults | |
| `MC...` | instances for TLC | |

`Outbox` implements `OutboxContract`. The other modules do not instantiate
`Outbox`; where they need it they use what it is shown to promise while leases
outlive the work under them: a request for a row stays `queued` until a handler
takes it, handlers of one row exclude each other, and one that throws runs
again from its start. Each of them is therefore silent about what an expired
lease does; that is the subject of `outbox_lease_overrun`. `Console` is the
composition of three layers, each a module that extends the one below.

### Outbox

A business row is its version `db[a]`; `mirror[k]` is the version the target
of key `k` shows; a key is a (target, aggregate) pair. `outbox` is the table
by id: `seq` is `requested_seq`, `leased` is `locked_until >= now()`, `due` is
`next_attempt_at <= now()`. A worker's place in `drain()` and `process()` is
`pc[w]`; each `await` separates two places, and what the worker still knows
after it is in `batch`, `current` and `ver`. `rerun`, `stopped` and
`listening` are the fields of the class. `Change` and `Resync` are the
committed enqueues; `Claim`, `MarkDone`, `Requeue` and `MarkFailed` are one SQL
statement each; `markDone` is two, with a state between them.

`Faults` says what may go wrong: `crash`, `stop`, `throw`, `database` (a
statement of the worker fails, before or after it took effect), `listener`
(the LISTEN connection is lost), `skip` (`SKIP LOCKED` passes over a row some
open transaction holds) and `lease` (a lease ends under a live worker).

`OutboxContract` keeps only `db`, `synced` and `dirty`: a change makes all keys
of its row dirty, and only a key whose current version was read by a completed
sync becomes clean. `Outbox` implements it with `dirty` defined as "has a
pending row".

### TenantLifecycle

`row` is the committed status of each row; `draft[p]` is what the open
transaction of request `p` has written or locked. A request is received by the
guard, which checks the tenant once (`Receive`), loads its row where the code
does (`Load`), and then goes through the statements of its transaction. An
`UPDATE` over many rows fixes the rows it matches when it starts (`Matches`),
then locks one after the other and tests each again (`CascadeRow`), as READ
COMMITTED does. `UpdateOne` is an update that locks and commits at once.
`Abort` is a transaction that fails, for which Keycloak failing inside an
inline call is one reason. Expiry of a token is an action.

### SupportAccess

`clock[p]` is the set of grants that had expired at `BEGIN`, for which
`now()` stays fixed in the transaction. Grants carry `revoked` and `synced`
(`revoked_at`, `expiry_synced_at`). A transaction holds the rows in `locked`
and, once it has enqueued a user, that user's outbox row (`enqueued`) until
its end; a circle of waits is broken by `DeadlockVictim`, the one definition
here that stands for Postgres. `SyncReads` and `SyncWrites` are the Grafana
handler, reading the grants in one step and writing memberships in another.

### GrafanaMirror

`tenant`, `user`, `orgOf` and `accountOf` are columns; `org`, `account`,
`member` and `content` are Grafana's. Each handler is a sequence of requests;
`task[r].at` is the one it makes next, and everything it remembers from earlier
ones is in `task[r]`. Between two requests domain services and other handlers
run. Orgs are found by name, accounts by login; a name may be used by one user
after the other. `ProvisionOrg` writes the org's datasources and dashboards,
item by item (`Items`, `Provided`); `EmptyOrg` takes members and dashboards
from an org that is retired (`Dropped`). `Fail` ends a handler anywhere: a
request failed or the replica died.

### KeycloakMirror

The handlers of tenants and users share their shape (`resolveForWrite`,
`storedAccount`/`storedGroup`, `ownedAccount`/`ownedGroup`), and so do the
steps that look objects up: `Stored`, `ByName` and `Owner`, with `StillMine`,
`NamedForWrite` and `NamedForDelete` for what they accept. What is written is
per kind: `CreateGroup`, `CreateUser`, `UpdateGroup`, `UpdateUser`,
`RemoveGroup`, `RemoveUser`, `SetKeycloakGroupId`, `SetKeycloakUserId`. Users
also need their tenant's group (`DesiredGroup`), check the marker they wrote
(`AssertMarker`), get the one realm role of their row (`SyncRoles`) and move
between groups (`GetGroups`, `Leave`, `Join`). `task[r].inline` marks a handler
that runs in the transaction that inserts the row: until `Commit` the row is
`absent` to everyone else, and a failure leaves it `gone` while what was made in
Keycloak stays. The collector enqueues (`Resync`), lists the marked objects
(`List`), looks up their rows (`Judge`) and removes one after the other those it
has seen orphaned before (`Remove`); what it has seen lives in the process and
is lost with it (`CollectionFails`).

### AgentEnrollment

`host[p]` is what a run of the script on a host has come to, `task[p]` where its
exchange is at the server. The row of the token is locked from `Lock` to
`Commit` or `Throw` (`RowIsFree`). The steps from `Resolve` to `RemoveLegacy`
are `issueCredentials` and `apply` of the mirror alike; the exchange ends with
`GetSecret` and `Commit`, the handler with `Store`, `Delete` or `Clear`. `Claims`
says what a token of the client carries: the attributes through the shared scope,
or all mappers of v0.6-v0.8. `cached[r]` is the scope id a replica remembers,
which `CreateScope` makes stale. An agent of v0.8 may start with a client that has a
new uuid, as after a Keycloak that was restored; its handler stores it. The collector lists clients, reads live agents
and open tokens in two statements (`LiveIds`, `OpenIds`) and deletes what two
runs have seen as an orphan.

### QueryGateway

The rules of the gateway are operators over a request: a query stands for the
documents it matches, an aggregation for a node with the keys above it, a path
for its segments. `OpenSearch(in)` and `VictoriaMetrics(in)` are the
controllers with `enforce`, `Told` is what OpenSearch's answer can tell, which is
external. Around them a request is authenticated, decided and forwarded in one
step (there is no `await` in between), waits for a socket, streams, and can lose
its client in every place.

### Console, ApiGuard, UpstreamClient

A token of the console is the key it was signed with; an admin token is the
epoch of Keycloak it was issued in. `call[c]` is a call in the tab, `serve[c]` the
same call at the server, `up[c]` its request to Keycloak; the tab may give up on
a call that the server goes on with (`Discard`). Leaving the page is two steps,
`location.assign` (`nav`) and the unload (`Leave`), and scripts run between them.
All faults of the three layers share the budget `MaxFaults`: lost answers on
either way, failed and lost refreshes, revoked and expired tokens, rotated keys,
a session that ends, reloads, sign-outs, cancelled dialogs.

## 3. Runs

Every run bounds what it counts (rows inserted, versions, changes, failures)
in the guards; the names of these bounds are `Max...` in the modules. Symmetry
is used only in runs without liveness.

| Run | Instance | What it shows |
|---|---|---|
| `outbox_all_faults` | 2 replicas, 1 key, 2 changes, 2 rows, batches of 2; throw, stop, database, skip, lease | no lost update and one pending row under every such fault; the contract is kept |
| `outbox_converges` | 2 replicas, 1 key, batches of 1; crash, throw, database, skip | while leases hold, syncs of a key exclude each other, mirrors are fresh and never regress; everything converges by poll alone |
| `outbox_notify` | 2 keys of one row, one without a handler; listener lost; no polls, no timers | a notification that arrives is never wasted, whatever the worker is doing at that moment |
| `outbox_lease_overrun` (violation) | as above, only `lease` | a stale handler overwrites a newer state after its key has settled |
| `lifecycle_safety` | 3 concurrent requests of all 11 kinds, 1 user, 1 token and agent, from every settled state, with aborts | token and agent go together, ends are final, every change is enqueued, a delete ends all it found, no circle of waits |
| `lifecycle_agent_outlives` (violation) | a delete and an exchange | a live agent remains under a deleted tenant |
| `support` | a grant or a revoke, a delete and up to 2 sweepers (`Crews`), 4 grants that cross two admins and two tenants, a failed transaction of `MayFail` | every membership without a grant is about to be removed; only a revoke that began before the expiry ends a grant again; transactions that wait for each other all end and memberships settle |
| `grafana_mirror` | 2 tenants, 2 users of one name, 2 handlers at a time, 3 changes, 1 failure | members of orgs are entitled to be there or work is pending; no handler deletes another user's account; orgs, their content, accounts and memberships settle |
| `keycloak_mirror` | 1 tenant, 2 users of one name, all created inline, 1 collector, 1 handler at a time, 4 changes, 1 failure | a live row keeps its object while its name is its own, and Keycloak settles on what the rows say, roles included |
| `agent_enrollment` | 2 runs of the script, 1 replica, 2 mappers, 2 scopes, 2 changes, 1 failure or crash | credentials go out once, live agents keep their client and its claims, and Keycloak settles |
| `query_gateway` | one of some 350 requests beside an ordinary one, 1 socket per backend | what is forwarded stays in the tenant and loses nothing of it; a path keeps its account; a client who leaves ends the request |
| `console` | 4 calls (`/me`, a list, a POST that asks Keycloak, a resync), 2 faults of any kind | nothing is done twice, answers are true, the user gets through |

Distinct states: `outbox_all_faults` 827,538, `outbox_converges` 24,563,
`outbox_notify` 67,567, `lifecycle_safety` 124,006, `support` 120,290,
`grafana_mirror` 528,166, `keycloak_mirror` 754,602, `agent_enrollment`
1,129,497, `query_gateway` 78,120, `console` 182,473; with two workers each
takes between a second and four minutes. The two violations are found after
7,733 and 1,034 states.

Why the bounds are enough to be interesting. The hazards of the outbox need
two replicas at one key and one change between a read and a finish; two
changes and two rows let a row be finished, inserted again and met by an event
of the earlier row. Three requests are the longest chain in `TenantLifecycle`
that matters: one holding rows, one waiting for them, one committing in between.
Four grants are the fewest with which two transactions enqueue two
users in opposite orders. In the mirrors a name has to pass from one user to
the next with a failure in between, which takes a create, a delete and a create;
four changes add the creation of the tenant. `Ids` is large enough that
Keycloak never runs out of them (a handler that could not create would violate
`Settles`). An exchange that is repeated needs two runs of the script; the cache
of the scope id needs a scope that is made twice. In the console a stale sign-in
needs two calls without a token, a stale admin token two calls that ask
Keycloak; two faults are one to make something stale and one to strike while it
heals. `Console` also passes with three (1.7 million states, under three
minutes). `MCQueryGateway` builds its requests from every kind of path, body and
user the code tells apart, one deviation at a time. `AlwaysAllowed` is the 5 of the code; `SaneShare`, the mutant
without it, shows that the share alone would keep orphans forever in small
installations.

What the violation runs show are disagreements of the code with a sentence of
its own comments; each is quoted in PROJECT.json under "findings". They were
met while modelling. None of them needs a fault other than the one named.

Deadlock is checked in the outbox and support runs, except `outbox_notify`,
where without timers everything may come to rest. The other models stop when
their bounded requests are served. That no transaction waits for ever is
`TransactionsEnd` and `WaitsEnd`.

### Fairness

- `Outbox`: a worker that can go on does (`Progress`: node schedules what is
  ready, Kubernetes restarts what has ended); timers fire (`Timers`); and what
  can fail succeeds if it is tried again and again (`Persistence`, strong
  fairness on claim, sync, finish). The last is an assumption on the database
  and the targets, without which nothing can converge. `CalmSpec` has only
  `Progress`.
- `SupportAccess`: strong fairness of each transaction's next step, because it
  waits for rows others hold and release; sweeps and syncs recur by their timers.
- `GrafanaMirror`, `KeycloakMirror`: strong fairness per row, because
  handlers share `Replicas` places: due rows are claimed by id and a row that
  fails backs off, so nothing that is queued is passed over forever. The collector is weakly fair:
  the resync runs every hour. Domain services are never fair; they stop because
  of the bound.
- `AgentEnrollment`: every exchange is answered or times out, the handler and the
  resync go on, tokens expire, and the bootstrap Job makes the scope when there
  is none. A host need not run the script again.
- `QueryGateway`: strong fairness of the gateway's own steps (a socket that is
  free again and again is got) and of its timeouts. A backend may stay silent
  and a stream may never end.
- `Console`: requests are answered, redirects go on, `MIN_REFRESH_MS` pass, and
  the user goes on where the page offers something: signs in, tries again, submits
  again. Nothing is assumed of faults; they stop because of the bound.

## 4. Proofs

Every safety invariant and action property of the passing runs is a theorem: it
holds for every set of replicas, hosts, rows, keys, users and calls, every
bound, every number of faults. The runs check the same formulas on a small
instance. Four theorems say more than a run states, about a mirror at rest:
whenever nothing is queued or running for a row, what the target shows is what
the row says. They are the safety half of the liveness properties `Settles` and
`AccessSettles`: these say that the work for a row comes to an end, the theorems
that it cannot end with something wrong.

| Module | Theorem | States | Needs |
|---|---|---|---|
| `OutboxProofs` | `TypeCorrect` | `[]TypeOK` | |
| | `NoUpdateIsLost` | `[]NoLostUpdate` | `Inv` |
| | `PendingRowIsUnique` | `[]OnePendingRow` | `Inv` |
| | `OutboxImplementsContract` | `Contract!Spec` | `Inv` |
| | `SyncIsExclusive` | `[]ExclusiveSync` | `LeasesHold`, `LInv` |
| | `SettledMirrorIsFresh` | `[]MirrorFresh` | `LeasesHold`, `LInv` |
| | `MirrorsGoForward` | `MirrorNeverRegresses` | `LeasesHold`, `LInv` |
| `TenantLifecycleProofs` | `TypeCorrect` | `[]TypeOK` | `Inv` |
| | `AgentComesWithItsToken` | `[]AgentIffUsed` | `Inv` |
| | `ChangesAreAnnounced` | `[]ChangesAreEnqueued` | `Inv` |
| | `DeleteIsThorough` | `[]DeleteEndsAllItFound` | `Inv` |
| | `EndStaysFinal` | `EndIsFinal` | `Inv` |
| | `WaitsAlwaysEnd` | `[]WaitsEnd` | `Inv` |
| `SupportAccessProofs` | `TypeCorrect` | `[]TypeOK` | `Inv` |
| | `NoForgottenAccess` | `[]AccessIsAccountedFor` | `Inv` |
| | `GrantsEndOnce` | `EndedAgainByRevokeOnly` | `Inv` |
| | `RestingAccessIsExact` | members are those with a grant, at rest | `Inv`, `Promised` |
| `GrafanaMirrorProofs` | `TypeCorrect` | `[]TypeOK` | `Inv` |
| | `MembersOfOrgsAreEntitled` | `[]MembersAreEntitled` | `Inv` |
| | `HandlersDeleteTheirOwn` | `DeletesOwn` | `Inv` |
| | `WhatRestsIsSettled` | `TenantSettled`, `UserSettled`, at rest | `Inv`, `Rest` |
| `KeycloakMirrorProofs` | `TypeCorrect` | `[]TypeOK` | `Inv` |
| | `LiveRowsKeepTheirObjects` | `KeepsLive` | `Inv` |
| | `NothingStaysOpenAtRest` | `AsItsRow`, at rest; a live row has its id | `Inv`, `Left`, `Pointed` |
| `AgentEnrollmentProofs` | `TypeCorrect` | `[]TypeOK` | |
| | `CredentialsGoOutOnce` | `[]CredentialsOnce` | `Once` |
| | `LiveAgentsKeepTheirClient` | `[]AgentKeepsItsClient` | `Kept` |
| | `ClientsKeepTheirClaims` | `ClaimsAreNeverTaken` | `Ordered` |
| | `RestingAgentsAreAsTheirRow` | `AsItsRow`, at rest | `Once`, `Kept`, `Left` |
| `QueryGatewayProofs` | `TypeCorrect` | `[]TypeOK` | |
| | `GatewayKeepsTenantsApart` | `[]AnswersStayInTenant` | `SentIsHandled` |
| | `GatewayKeepsOwnDocuments` | `[]OwnDocumentsStay` | `SentIsHandled` |
| | `PathsKeepTheirAccount` | `[]PathKeepsItsAccount` | `SentIsHandled` |
| `ConsoleProofs` | `TypeCorrect` | `[]TypeOK` | `Inv` |
| | `CallsAreDoneOnce` | `DoneOnceAndTold` always | `Inv` |

"Needs" is the inductive invariant, each defined at the head of its part of the
module. A proof that a step keeps it has a lemma per action or per kind of
action that disturbs the same conjuncts, and a lemma that collects them over
`Next`; what most actions leave alone is stated once.

### Outbox

Assumed is `OutboxAssumption`: the set of keys is finite and not empty,
`AggregateOf` maps keys to aggregates, the bounds are naturals.

`NoLostUpdate` is not inductive: whether finishing a row is safe depends on
what the worker that finishes it once read. `Inv` adds that

- ids above `lastId` are unused (`UnusedRows`), so an insert never hits a row
  somebody remembers;
- an event in a worker's memory is about the row it was claimed from, with a
  `claimed_seq` not above its `requested_seq` (`EventsMatchRows`);
- if nothing was enqueued since the claim, the version the handler read is
  still current (`SyncReadsCurrent`) and, after the sync, is what has been
  synced (`DoneMeansSynced`); otherwise the sequence number has moved and
  `markDone` matches nothing;
- no sync has read a version that is not there yet (`NoFuture`).

Leases do not appear in it: the argument is by sequence numbers alone, which
is why the theorem, and with it the refinement of `OutboxContract`, holds with
leases that end under a live worker. For the refinement each kind of step is
a `Change`, `Request`, `Sync` or `Settle` of the contract or leaves
`db`, `synced` and `dirty` alone.

The other three theorems need leases and say so: `LeasesHold` is
`"lease" \notin Faults`, that no lease ends while its worker lives; all other
faults may be there. `outbox_lease_overrun` is the counterexample without it.
`LInv` adds to `Inv` that a held event's row is pending and leased
(`HeldIsLeased`), that no two memories hold events of one row (`HeldOnce`), and
about the mirrors that none is ahead of its row, that a handler about to write
has read a version not older than what the mirror shows (`SyncGoesForward`), and
that what a worker is about to mark done has been shown (`DoneMeansShown`). Two
events of one key would be two pending rows, which `OnePendingRow` excludes: so
`ExclusiveSync` follows from leases about rows.

### TenantLifecycle

`LifecycleAssumption` says which operations and aborts there are, nothing more.
`ProcInv(p)` says of each request what its transaction has written
(`Inserted`, `Exchanged`, `Deleted`, `Written`) and that nothing it does not
hold is in its draft (`Unlocked`); `DraftsApart` is the row locks. Two points
carry the theorems. An exchange holds the token from before it looks to its
commit, and what it inserts no one else inserts (`NewTokensApart`); hence
`AgentIffUsed`. For `DeleteEndsAllItFound` the delete `Covers` what it found:
each row is dead, or ended in its draft, or still matched, or of a kind its
next `UPDATE` will match. `ChangesAreEnqueued` needs that every draft is also
announced, including rows a cascade finds changed when it gets to them.
`EndIsFinal` follows from `Evolves`: what a commit or an `UpdateOne` writes is
written under the row's lock after its status was tested again. `WaitsEnd` is
the lock order in one sentence: whoever holds a row and still needs another is a
delete, and holds the tenant (`HoldersAreServed`). Two transactions cannot both
hold it, so whoever such a delete waits for needs nothing more.

### SupportAccess

Besides its typing, `SupportAccessAssumption` keeps requests and sweepers, and
grants and tenants, apart and makes the grants finitely many. A transaction
writes only rows it holds that have not ended meanwhile (`WritesOpenRows`), its
`clock` is a past that stays true, and the users of what it writes are enqueued
or in its list (`EnqueuesUsers`). With `LocksApart` no two transactions end a
grant together, and `EndsAreFinal` ties `synced` to the enqueued end. A revoke
alone tests `revoked` and not `synced`: it is the exception that
`EndedAgainByRevokeOnly` states and the proof confirms to be the only one.

`NoForgottenAccess` is about access that goes, `Promised` about access that
comes: what a grant in effect promises is in what the running sync has read or,
with none running, in the org, or else a sync is requested. Only a commit makes
more grants effective, and it enqueues their users in the same step
(`PromisedIsKept`). Together they give `RestingAccessIsExact`.

### GrafanaMirror

Assumed: tenants and users are different rows, ids are positive, at most one
tenant is there from the start and if so id 1 is. `UserInv(u)` follows a handler
from what it read: it still knows the id of its row (`KnowsPointer`), the account
it works on has its login or is not there (`OwnAccount`), the org it wants is one
its user may be in or the row is queued again (`WantsItsOrg`). `Entitled` is the
property seen from the row; that two rows never share an id and two accounts
never a login is `Apart`. `DeletesOwn` needs the same: a stored id that is not
the user's own any more leads to an account that is not there, because ids are
not given out twice.

`WhatRestsIsSettled` needs `Rest`: there is one org of a tenant's name
(`OneOrg`), and each handler knows what it has done so far (`KnowsOrg`,
`KnowsUser`) unless its row is queued again. The last step of a handler then
leaves the row settled, and others can unsettle it only by queueing it: an id
that stops being right belongs to a row that changed.

### KeycloakMirror

Assumed: users and tenants are different rows and only tenants have names of
tenants; the rows that are there from the start have their tenants there, names of
their own, and ids. A handler works on an object of the name of its row
(`WorksOn`, `Of`), and one row at a time has a name, rows being inserted included
(`NamesApart`, the unique index). The hard part is the collector. What it has
seen belongs to a row that was known then or to one being inserted then
(`Collects`); it removes what it saw in an earlier run and sees again without a
live row, and by then an inline insert has ended, in a row or in a rollback. So the row
it belonged to is over, which is final, and what is there of it is `Forfeited`.
That an inline creation is shorter than `GC_CONFIRM_MS` is in the model (`open`),
as the comment at `keycloak-gc.ts:48-51` has it.

`NothingStaysOpenAtRest` needs of a handler that it works for the row as it is
or that the row is queued again, that it has found no object of the row when it
is about to make one and no other than its own when it is about to delete or
update, and that what it has written agrees with the row (`Knows`); Keycloak
refuses a second object of a name (`OneOfAName`). `Pointed` says that a live row
always has its id. It does not say that the object is there: the collector may
remove an account that a new user has taken over since it was listed
(`keycloak-gc.ts:101`), and nothing is queued then. Hence existence, groups and
roles of live users are left to `Settles`, where the next resync repairs them.

### AgentEnrollment

Assumed: the handler is not one of the attempts, the bounds are naturals and, but
for changes and failures, not zero. `CredentialsOnce` looks at answers; what makes
it inductive is `Once`, which looks into the transactions as well: the row lock
lets one exchange in (`OneInside`), and while it is in the token is open
(`InsideIsOpen`), so nobody has been answered before it commits.

`AgentKeepsItsClient` needs `Once` and `Kept`: an exchange works on the client
that is there; the handler deletes only for a row it read as revoked; and a
collector that has seen an orphan knows that the token was closed to new
exchanges then, so that only those under way could still make an agent of it
(`CollectorKnows`). Its next run sees them over, and what it removes is
`Doomed`. `ClaimsAreNeverTaken` is by the order of the writes (`InOrder`):
attributes before the scope, the scope before a mapper goes, for as long as
`mtco-agent` has not been made a second time.

`RestingAgentsAreAsTheirRow` needs that the handler works for the row as it is
unless it is queued again (`Current`) and that ids are real (`Real`): every
change of the row queues it in the same commit, so a handler that overtook the
change is followed by one that has seen it.

### QueryGateway

`GatewayAssumption` says that requests are well-formed, which is what the parsers of
the gateway hand on. Neither property speaks of how a request was decided, so the
invariant is `SentIsHandled`: what was forwarded for a request is what `Handled`
makes of its input, which never changes. The rest are lemmas about `Handled`:
`AllVisited` (the recursion comes to every aggregation), `FilteredStays` and
`FilteredKeeps` (a search that passes tells of its tenant only, and of all of
it), `HandledOfOneTenant` (whoever is no admin gets nothing forwarded but
metadata or filtered searches) and `HandledStatus` (how a refusal is answered). For `PathKeepsItsAccount` they
are about what the client makes of `.` and `..` (`Normalized`, a recursive
function over the segments): a path without them is itself. That is shown for
all lengths through the shortest prefix for which it would fail (`UpTo`).

### Console

Assumed, beside the bounds: `/me` is a call, the button and the sign-out are none, deeds are
calls. `TypeOK` is not inductive, as keys and epochs are numbered:
`Budget` says that each has cost a fault. The theorem about what is done is the
sum over three layers: whoever waits for a shared request has one under way
(`Waits`), a request to Keycloak exists only while the handler asks (`Stage`),
nothing but a GET is repeated without a 401 (`Tries`), and an answer says what was
done (`Answered`).

### What proving changed in the models

- `TenantLifecycle` names what an exchange writes when its agent has its client
  (`Activated`).
- `TypeOK` of `SupportAccess` says what transactions write and syncs read are
  functions; it had only bounded their values.
- `AgentEnrollment` and `QueryGateway` had `CASE`s with arms that overlap, which
  TLC takes in order and TLA+ does not; they are `IF` chains now, in the order of
  the code's early returns.
- `Marked` of `KeycloakMirror` is a set of pairs without a pattern.
- Assumptions the instances met in silence are stated: which constants are
  disjoint, that what is present has its tenant, its name and its id, that `None`
  and the names of steps are no rows, replicas or calls.
- `Normalized` of `QueryGateway` is a recursive function rather than a fold, and
  which of a user's groups or accounts are not blank (`Named`) is a set of
  positions: the same results, in a form that can be reasoned about by cases.
- `WaitsEnd` of `TenantLifecycle` took the place of a property that said by
  `ENABLED` that some open transaction can go on. It says which one, and is
  stronger: nobody waits behind more than one other.

No state count of a run changed by this.

### Model-checked only

- Liveness: `Converges`, `NotificationSuffices`, `AccessSettles`,
  `TransactionsEnd`, `Settles`, `LeavingEndsIt`, `GetsThrough`. The prover has no
  rules for fairness.
- The two violations, which are counterexamples.

## 5. Limits and plan

### What the models leave out

- Outbox: the number of attempts and the length of the backoff (time is reduced
  to the comparisons the SQL makes); `status()`, which only reports.
- TenantLifecycle: the refusal to delete the platform tenant, role policies,
  validation; `enabled` of a user is not told apart from `active` there (it is
  in the mirrors).
- SupportAccess: roles, reasons, limits on the length of a grant.
- GrafanaMirror: roles, the default org; finding and creating an org are one
  step, as nobody else creates orgs of that name. Datasources and dashboards are
  there or not; what is in them is configuration. An id that Grafana gave out is
  stored in a later statement (`grafana-user.mirror.ts:194` and `:206`,
  `grafana-tenant.mirror.ts:84` and `:99`). When the handler ends in between and
  the row is deleted or disabled before it runs again, nothing leads to the
  account or org any more and it stays; `Settles` excepts it, `MembersAreEntitled`
  does not. Grafana keeps its data here: after a rebuild that gives out ids anew,
  stored ids name other objects until the resync, and two tenants that got each
  other's ids cannot store them because `grafana_org_id` is unique.
- KeycloakMirror: passwords, sessions, personal names; objects without a
  marker. Users and groups are collected in one pass rather than one after the
  other, and runs of the collector less than `GC_CONFIRM_MS` apart are left out.
  An inline creation is assumed to be shorter than that, which is what the
  comment at `keycloak-gc.ts:48-51` relies on; `KeepsLive` would not hold
  otherwise. `Settles` says nothing about live users of a deleted tenant, whose
  account can never get a group again (see the finding on `AgentsEndWithTenant`
  for how such a row comes about).
- AgentEnrollment: the two lookups of `resolve` are one step; the token's tenant
  stays active (its end is in `TenantLifecycle`); the installation of packages.
- QueryGateway: headers, sizes of bodies, what OpenSearch and VictoriaMetrics do
  beyond `Told` and the account in the path.
- Console: rendering, tables, theme, polling intervals; a second submit of a deed
  that was cancelled waits for the first. Roles and the tenant's scope are
  decisions about one row; the guard is its order and its answers.
- Everywhere in the mirrors: a request takes effect or fails before it does
  (the crash after it covers a lost answer); a request the handler has given
  up on (timeout) does not take effect later.

### Not modelled

The platform bootstrap is planned. Rate limits are arithmetic of time over one
map; that they may refuse an exchange is in `AgentEnrollment`. HTTP routing and
views, role policies, configuration, metrics, logging, manifests and tests keep
no state that a property could be about; PROJECT.json lists them with the reason.

### Plan

1. Bootstrap: two replicas, the advisory lock, the retry timer.
2. The age and attempts of outbox rows: backoff against the lease.
3. Proofs: the garbage collector's share of a run (`AlwaysAllowed`) as a lemma;
   the mirrors and the domain services as users of `OutboxContract` rather than
   of a set `queued`.
