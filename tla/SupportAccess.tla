--------------------------- MODULE SupportAccess ---------------------------
(***************************************************************************)
(* Time-boxed access of platform admins to the Grafana orgs of tenants:    *)
(* modules/support-access, the part of a tenant delete that ends grants,   *)
(* and the membership the Grafana user mirror derives from them.           *)
(*                                                                         *)
(* now() of Postgres is the time of BEGIN: a transaction judges expiry by  *)
(* the `clock` it took then, however long it waits for rows afterwards.    *)
(* A transaction holds the outbox rows of the users it has enqueued until  *)
(* its end, so transactions over several users can wait for each other in  *)
(* a circle; Postgres then aborts one of them.                             *)
(***************************************************************************)
EXTENDS Naturals, Sequences, FiniteSets

CONSTANTS
  Requests,   \* bound: API requests; each is served once
  Sweepers,   \* replicas, each sweeping on a timer
  Grants, Admins, Tenants,
  AdminOf, TenantOf,   \* the user and the tenant of a grant
  Beginnings, \* the sets of grants there may be at the start
  Lapsing,    \* bound: the grants short enough to expire in the behaviour
  Asks,       \* bound: what a request may ask for, as <<request, operation, target>>
  Crews,      \* bound: the processes of a behaviour, one of these sets
  SweepLimit, \* the LIMIT of claimExpired
  MayFail     \* bound: the processes whose transactions may fail, deadlocks aside

\* Of a sync that has read no set of tenants.
NotRunning == {"not running"}

AllOperations == {"grant", "revoke", "deleteTenant"}

ASSUME SupportAccessAssumption ==
  /\ AdminOf \in [Grants -> Admins]
  /\ TenantOf \in [Grants -> Tenants]
  /\ Beginnings \subseteq SUBSET Grants
  /\ Lapsing \subseteq Grants
  /\ Asks \subseteq Requests \X AllOperations \X (Grants \cup Tenants)
  /\ Crews \subseteq SUBSET (Requests \cup Sweepers)
  /\ SweepLimit \in Nat \ {0}
  /\ MayFail \subseteq Requests \cup Sweepers
  /\ Requests \cap Sweepers = {} /\ Grants \cap Tenants = {}
  /\ IsFiniteSet(Grants)
  /\ NotRunning \notin SUBSET Tenants

VARIABLES
  grants,     \* the committed rows of support_access
  deleted,    \* the tenants whose delete is committed
  expired,    \* grants whose expires_at has passed
  pc, operation,
  target,     \* the grant or tenant of a request
  clock,      \* the grants that had expired at BEGIN
  locked,     \* the rows a transaction holds
  written,    \* those of them it changes at commit
  matched,    \* rows its UPDATE still has to lock
  queue,      \* users it has yet to enqueue
  enqueued,   \* users whose outbox row it holds
  queued,     \* a sync of the user is requested
  orgQueued,  \* a sync of the tenant is requested
  reading,    \* what a running sync of the user has read
  member,     \* the tenant orgs the user is a member of in Grafana
  endSyncs    \* history: syncs enqueued for the end of a grant

Processes == Requests \cup Sweepers

transaction == <<pc, operation, target, clock, locked, written, matched, queue, enqueued>>
mirror == <<reading, member>>
outbox == <<queued, orgQueued>>
vars == <<grants, deleted, expired, transaction, outbox, mirror, endSyncs>>

Row == [made : BOOLEAN, revoked : BOOLEAN, synced : BOOLEAN]
NoRow == [made |-> FALSE, revoked |-> FALSE, synced |-> FALSE]

Places == {"idle", "begun", "scanned", "enqueue", "commit", "end"}

IsOpen(g) == grants[g].made /\ ~grants[g].synced

\* In effect now; every sync of the user looks at this.
InEffect(g) ==
  /\ grants[g].made /\ ~grants[g].revoked
  /\ g \notin expired
  /\ TenantOf[g] \notin deleted

\* Mutant: the query returns the wrong column.
DesiredWrongColumn(u) == {AdminOf[g] : g \in {h \in Grants : AdminOf[h] = u /\ InEffect(h)}}

\* findActiveGrantsForUser
Desired(u) == {TenantOf[g] : g \in {h \in Grants : AdminOf[h] = u /\ InEffect(h)}}

Holders(r) == {q \in Processes : r \in locked[q]}
FreeFor(p, r) == Holders(r) \subseteq {p}

Orders(S) ==
  {s \in [1..Cardinality(S) -> S] : \A i, j \in DOMAIN s : s[i] = s[j] => i = j}

-----------------------------------------------------------------------------
(* The WHERE clauses of the repository, at the clock of process p          *)

\* revoke
Revocable(p, g) == grants[g].made /\ ~grants[g].revoked /\ g \notin clock[p]

\* revokeOpenForTenant
EndedByDelete(p, g) == IsOpen(g) /\ TenantOf[g] = target[p]

\* Mutant: rows that were synced before are claimed again.
ClaimableAgain(p, g) == grants[g].made /\ ~grants[g].revoked /\ g \in clock[p]

\* claimExpired
Claimable(p, g) == IsOpen(g) /\ g \in clock[p]

\* What a transaction makes of a row it ends: revoked_at is set unless the
\* grant had expired already; expiry_synced_at always.
EndedRow(p, g) ==
  [grants[g] EXCEPT !.revoked = @ \/ g \notin clock[p], !.synced = TRUE]

-----------------------------------------------------------------------------
(* Parts of transactions                                                   *)

Become(p, place) == pc' = [pc EXCEPT ![p] = place]

\* A sweeper starts over, a request is answered.
AfterTransaction(p) == IF p \in Sweepers THEN "idle" ELSE "end"

\* Mutant: the connection goes back to the pool with its locks.
ClearKeepingRows(p) ==
  /\ Become(p, AfterTransaction(p))
  /\ clock' = [clock EXCEPT ![p] = {}]
  /\ written' = [written EXCEPT ![p] = {}]
  /\ matched' = [matched EXCEPT ![p] = {}]
  /\ queue' = [queue EXCEPT ![p] = << >>]
  /\ UNCHANGED <<operation, target, locked, enqueued>>

Clear(p) ==
  /\ Become(p, AfterTransaction(p))
  /\ clock' = [clock EXCEPT ![p] = {}]
  /\ locked' = [locked EXCEPT ![p] = {}]
  /\ written' = [written EXCEPT ![p] = {}]
  /\ matched' = [matched EXCEPT ![p] = {}]
  /\ queue' = [queue EXCEPT ![p] = << >>]
  /\ enqueued' = [enqueued EXCEPT ![p] = {}]
  /\ UNCHANGED <<operation, target>>

\* Goes on to the enqueues of the users of the rows in G, in the order in
\* which RETURNING happened to name them.
EnqueueUsersOf(p, G) ==
  /\ \E order \in Orders({AdminOf[g] : g \in G}) : queue' = [queue EXCEPT ![p] = order]
  /\ Become(p, IF G = {} THEN "commit" ELSE "enqueue")

\* The outbox row of the next user, waiting for whoever holds it.
EnqueueNext(p) ==
  /\ pc[p] = "enqueue"
  /\ \A q \in Processes \ {p} : Head(queue[p]) \notin enqueued[q]
  /\ enqueued' = [enqueued EXCEPT ![p] = @ \cup {Head(queue[p])}]
  /\ queue' = [queue EXCEPT ![p] = Tail(@)]
  /\ Become(p, IF Len(queue[p]) = 1 THEN "commit" ELSE "enqueue")
  /\ UNCHANGED <<grants, deleted, expired, operation, target, clock, locked,
                 written, matched, outbox, mirror, endSyncs>>

Commit(p) ==
  /\ pc[p] = "commit"
  /\ grants' = [g \in Grants |->
       IF g \notin written[p] THEN grants[g]
       ELSE IF operation[p] = "grant" THEN [NoRow EXCEPT !.made = TRUE]
       ELSE EndedRow(p, g)]
  /\ deleted' = IF operation[p] = "deleteTenant" THEN deleted \cup {target[p]} ELSE deleted
  /\ queued' = [u \in Admins |-> queued[u] \/ u \in enqueued[p]]
  /\ orgQueued' = deleted' \ (deleted \ orgQueued)
  /\ endSyncs' = [g \in Grants |->
       IF g \in written[p] /\ operation[p] # "grant" THEN endSyncs[g] + 1 ELSE endSyncs[g]]
  /\ Clear(p)
  /\ UNCHANGED <<expired, mirror>>

Rollback(p) ==
  /\ Clear(p)
  /\ UNCHANGED <<grants, deleted, expired, outbox, mirror, endSyncs>>

InTransaction(p) == pc[p] \in {"begun", "scanned", "enqueue", "commit"}

\* A statement fails or the replica dies.
Abort(p) == p \in MayFail /\ InTransaction(p) /\ Rollback(p)

\* The rows a transaction wants now, of support_access or tenants.
Wants(p) ==
  CASE pc[p] = "begun" /\ operation[p] \in {"revoke", "deleteTenant"} -> {target[p]}
    [] pc[p] = "scanned" -> matched[p]
    [] OTHER -> {}

\* p cannot go on before q ends.
WaitsFor(p, q) ==
  /\ p # q
  /\ \/ pc[p] = "enqueue" /\ Head(queue[p]) \in enqueued[q]
     \/ Wants(p) # {} /\ \A r \in Wants(p) : q \in Holders(r)

\* p is part of a circle of waits.
Deadlocked(p) ==
  \E S \in SUBSET Processes :
    /\ p \in S
    /\ \A x \in S : (\E y \in S : WaitsFor(x, y)) /\ (\E y \in S : WaitsFor(y, x))

\* Postgres aborts one transaction of a circle.
DeadlockVictim(p) == Deadlocked(p) /\ Rollback(p)

-----------------------------------------------------------------------------
(* Requests                                                                *)

\* TenantScopeGuard saw the tenant active.
Begin(p, o, x) ==
  /\ p \in Requests /\ pc[p] = "idle"
  /\ Become(p, "begun")
  /\ operation' = [operation EXCEPT ![p] = o]
  /\ target' = [target EXCEPT ![p] = x]
  /\ clock' = [clock EXCEPT ![p] = expired]
  /\ UNCHANGED <<grants, deleted, expired, locked, written, matched, queue,
                 enqueued, outbox, mirror, endSyncs>>

\* grant, for a grant nobody else is making; how long it lasts is Lapsing.
RequestGrant(p) ==
  \E g \in Grants :
    /\ <<p, "grant", g>> \in Asks
    /\ TenantOf[g] \notin deleted
    /\ ~grants[g].made /\ \A q \in Requests : pc[q] = "idle" \/ target[q] # g
    /\ Begin(p, "grant", g)

\* revoke, of a grant findById knows.
RequestRevoke(p) ==
  \E g \in Grants :
    /\ <<p, "revoke", g>> \in Asks
    /\ grants[g].made /\ TenantOf[g] \notin deleted
    /\ Begin(p, "revoke", g)

\* delete, of any tenant but the platform's.
RequestDelete(p) ==
  \E t \in Tenants :
    /\ <<p, "deleteTenant", t>> \in Asks
    /\ t \notin deleted
    /\ Begin(p, "deleteTenant", t)

InsertGrant(p) ==
  /\ pc[p] = "begun" /\ operation[p] = "grant"
  /\ locked' = [locked EXCEPT ![p] = {target[p]}]
  /\ written' = [written EXCEPT ![p] = {target[p]}]
  /\ EnqueueUsersOf(p, {target[p]})
  /\ UNCHANGED <<grants, deleted, expired, operation, target, clock, matched,
                 enqueued, outbox, mirror, endSyncs>>

\* The UPDATE of revoke waits for the row and tests it again.
UpdateRevoked(p) ==
  /\ pc[p] = "begun" /\ operation[p] = "revoke"
  /\ FreeFor(p, target[p])
  /\ LET G == {g \in {target[p]} : Revocable(p, g)}
     IN /\ locked' = [locked EXCEPT ![p] = {target[p]}]
        /\ written' = [written EXCEPT ![p] = G]
        /\ EnqueueUsersOf(p, G)
  /\ UNCHANGED <<grants, deleted, expired, operation, target, clock, matched,
                 enqueued, outbox, mirror, endSyncs>>

\* markDeleted, then revokeOpenForTenant starts.
MarkTenantDeleted(p) ==
  /\ pc[p] = "begun" /\ operation[p] = "deleteTenant"
  /\ FreeFor(p, target[p])
  /\ locked' = [locked EXCEPT ![p] = {target[p]}]
  /\ matched' = [matched EXCEPT ![p] = {g \in Grants : EndedByDelete(p, g)}]
  /\ Become(p, "scanned")
  /\ UNCHANGED <<grants, deleted, expired, operation, target, clock, written, queue,
                 enqueued, outbox, mirror, endSyncs>>

EndGrant(p, g) ==
  /\ pc[p] = "scanned"
  /\ g \in matched[p] /\ FreeFor(p, g)
  /\ matched' = [matched EXCEPT ![p] = @ \ {g}]
  /\ locked' = [locked EXCEPT ![p] = @ \cup {g}]
  /\ written' = [written EXCEPT ![p] = IF EndedByDelete(p, g) THEN @ \cup {g} ELSE @]
  /\ UNCHANGED <<grants, deleted, expired, pc, operation, target, clock, queue,
                 enqueued, outbox, mirror, endSyncs>>

GrantsEnded(p) ==
  /\ pc[p] = "scanned" /\ matched[p] = {}
  /\ EnqueueUsersOf(p, written[p])
  /\ UNCHANGED <<grants, deleted, expired, operation, target, clock, locked, written,
                 matched, enqueued, outbox, mirror, endSyncs>>

-----------------------------------------------------------------------------
(* The sweeper                                                             *)

\* The timer fires; the flag `sweeping` keeps a replica to one sweep.
Sweep(p) ==
  /\ p \in Sweepers /\ pc[p] = "idle"
  /\ Become(p, "begun")
  /\ clock' = [clock EXCEPT ![p] = expired]
  /\ UNCHANGED <<grants, deleted, expired, operation, target, locked, written, matched,
                 queue, enqueued, outbox, mirror, endSyncs>>

\* FOR UPDATE SKIP LOCKED ... LIMIT: as many free rows as the limit allows.
ClaimExpired(p) ==
  /\ p \in Sweepers /\ pc[p] = "begun"
  /\ LET free == {g \in Grants : Claimable(p, g) /\ FreeFor(p, g)}
         number == IF Cardinality(free) < SweepLimit THEN Cardinality(free) ELSE SweepLimit
     IN \E G \in SUBSET free :
          /\ Cardinality(G) = number
          /\ locked' = [locked EXCEPT ![p] = G]
          /\ written' = [written EXCEPT ![p] = G]
          /\ EnqueueUsersOf(p, G)
  /\ UNCHANGED <<grants, deleted, expired, operation, target, clock, matched,
                 enqueued, outbox, mirror, endSyncs>>

-----------------------------------------------------------------------------
(* Time, and the Grafana sync of a user as Outbox runs it: one at a time,  *)
(* again if a sync was requested after the read.                           *)

Expire(g) ==
  /\ g \in Lapsing \ expired /\ grants[g].made
  /\ expired' = expired \cup {g}
  /\ UNCHANGED <<grants, deleted, transaction, outbox, mirror, endSyncs>>

\* desiredMemberships
SyncReads(u) ==
  /\ queued[u] /\ reading[u] = NotRunning
  /\ reading' = [reading EXCEPT ![u] = Desired(u)]
  /\ queued' = [queued EXCEPT ![u] = FALSE]
  /\ UNCHANGED <<grants, deleted, expired, transaction, orgQueued, member, endSyncs>>

\* Mutant: the tenant's own sync does not fan out.
SyncTenantAlone(t) ==
  /\ t \in orgQueued
  /\ orgQueued' = orgQueued \ {t}
  /\ UNCHANGED <<grants, deleted, expired, transaction, queued, mirror, endSyncs>>

\* The sync of a deleted tenant requests one for everybody whose grant on it
\* is open: a grant may have been committed while the delete was running.
SyncTenant(t) ==
  /\ t \in orgQueued
  /\ orgQueued' = orgQueued \ {t}
  /\ queued' = [u \in Admins |->
       queued[u] \/ \E g \in Grants : AdminOf[g] = u /\ TenantOf[g] = t /\ IsOpen(g)]
  /\ UNCHANGED <<grants, deleted, expired, transaction, mirror, endSyncs>>

\* Mutant: a sync requested after the read counts as done.
SyncWritesAndForgets(u) ==
  /\ reading[u] # NotRunning
  /\ member' = [member EXCEPT ![u] = reading[u]]
  /\ reading' = [reading EXCEPT ![u] = NotRunning]
  /\ queued' = [queued EXCEPT ![u] = FALSE]
  /\ UNCHANGED <<grants, deleted, expired, transaction, orgQueued, endSyncs>>

SyncWrites(u) ==
  /\ reading[u] # NotRunning
  /\ member' = [member EXCEPT ![u] = reading[u]]
  /\ reading' = [reading EXCEPT ![u] = NotRunning]
  /\ UNCHANGED <<grants, deleted, expired, transaction, outbox, endSyncs>>

-----------------------------------------------------------------------------

\* Some grants exist, their memberships in place.
Init ==
  /\ \E G \in Beginnings : grants = [g \in Grants |-> [NoRow EXCEPT !.made = g \in G]]
  /\ deleted = {}
  /\ expired = {}
  /\ \E C \in Crews : pc = [p \in Processes |-> IF p \in C THEN "idle" ELSE "end"]
  /\ operation = [p \in Processes |-> "sweep"]
  /\ target = [p \in Processes |-> "none"]
  /\ clock = [p \in Processes |-> {}]
  /\ locked = [p \in Processes |-> {}]
  /\ written = [p \in Processes |-> {}]
  /\ matched = [p \in Processes |-> {}]
  /\ queue = [p \in Processes |-> << >>]
  /\ enqueued = [p \in Processes |-> {}]
  /\ queued = [u \in Admins |-> FALSE]
  /\ orgQueued = {}
  /\ reading = [u \in Admins |-> NotRunning]
  /\ member = [u \in Admins |-> Desired(u)]
  /\ endSyncs = [g \in Grants |-> 0]

\* A step of an open transaction.
Go(p) ==
  \/ InsertGrant(p)
  \/ UpdateRevoked(p)
  \/ MarkTenantDeleted(p)
  \/ \E g \in Grants : EndGrant(p, g)
  \/ GrantsEnded(p)
  \/ ClaimExpired(p)
  \/ EnqueueNext(p)
  \/ Commit(p)
  \/ DeadlockVictim(p)

Next ==
  \/ \E p \in Requests : RequestGrant(p) \/ RequestRevoke(p) \/ RequestDelete(p)
  \/ \E p \in Sweepers : Sweep(p)
  \/ \E p \in Processes : Go(p) \/ Abort(p)
  \/ \E g \in Grants : Expire(g)
  \/ \E u \in Admins : SyncReads(u) \/ SyncWrites(u)
  \/ \E t \in Tenants : SyncTenant(t)

Spec == Init /\ [][Next]_vars

\* The timers fire, Postgres serves the waits of a row in order, the outbox
\* runs what is requested, and time passes.
FairSpec ==
  /\ Spec
  /\ \A p \in Processes : SF_vars(Go(p))
  /\ \A p \in Sweepers : WF_vars(Sweep(p))
  /\ \A g \in Lapsing : WF_vars(Expire(g))
  /\ \A u \in Admins : WF_vars(SyncReads(u) \/ SyncWrites(u))
  /\ \A t \in Tenants : WF_vars(SyncTenant(t))

-----------------------------------------------------------------------------
(* Properties                                                              *)

\* Every variable has its type.
TypeOK ==
  /\ grants \in [Grants -> Row]
  /\ deleted \subseteq Tenants
  /\ expired \subseteq Grants
  /\ pc \in [Processes -> Places]
  /\ operation \in [Processes -> AllOperations \cup {"sweep"}]
  /\ target \in [Processes -> Grants \cup Tenants \cup {"none"}]
  /\ clock \in [Processes -> SUBSET expired]
  /\ locked \in [Processes -> SUBSET (Grants \cup Tenants)]
  /\ written \in [Processes -> SUBSET Grants]
  /\ \A p \in Processes : written[p] \subseteq locked[p]
  /\ matched \in [Processes -> SUBSET Grants]
  /\ queue \in [Processes -> Seq(Admins)]
  /\ enqueued \in [Processes -> SUBSET Admins]
  /\ queued \in [Admins -> BOOLEAN]
  /\ orgQueued \subseteq deleted
  /\ reading \in [Admins -> (SUBSET Tenants) \cup {NotRunning}]
  /\ member \in [Admins -> SUBSET Tenants]
  /\ endSyncs \in [Grants -> Nat]

\* What a user sees, or is about to be given by a running sync.
Access(u) == member[u] \cup (IF reading[u] = NotRunning THEN {} ELSE reading[u])

\* Access that no grant in effect covers is going to be taken away: a sync of
\* the user is requested or running on newer data, the sweep has yet to find
\* an expired grant, or the sync of the deleted tenant has yet to fan out
\* (support-access.service.ts, level-triggered sync).
AccessIsAccountedFor ==
  \A u \in Admins : \A t \in Access(u) :
    \/ t \in Desired(u)
    \/ queued[u]
    \/ t \in member[u] /\ reading[u] # NotRunning /\ t \notin reading[u]
    \/ \E g \in Grants :
         AdminOf[g] = u /\ IsOpen(g) /\ (g \in expired \/ TenantOf[g] \in orgQueued)

\* Sweeps of several replicas and tenant deletes share a grant's end between
\* them: only a revoke can end a grant that has been ended, once, and then it
\* had expired (claimExpired's SKIP LOCKED, revokeOpenForTenant).
EndedAgainByRevokeOnly ==
  [][\A g \in Grants : endSyncs[g] > 0 /\ endSyncs'[g] # endSyncs[g] =>
       g \in expired /\ ~grants[g].revoked /\ grants'[g].revoked]_vars

\* Mirrors end up showing exactly the grants in effect, although sweeps and
\* deletes abort each other: time-boxed access ends.
AccessSettles == <>[](\A u \in Admins : member[u] = Desired(u))

\* No transaction stays open forever.
TransactionsEnd == \A p \in Requests : InTransaction(p) ~> pc[p] = "end"
=============================================================================
