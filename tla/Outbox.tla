------------------------------- MODULE Outbox -------------------------------
(***************************************************************************)
(* The transactional outbox of the control plane: the table `outbox`       *)
(* (sync/outbox.repository.ts, migrations 003 and 005), the workers of the *)
(* replicas that drain it (sync/outbox.worker.ts), the periodic resync     *)
(* (sync/resync.service.ts) and the mirrors the workers write              *)
(* (sync/mirror.ts).                                                       *)
(*                                                                         *)
(* Every SQL statement outside a transaction, and every commit, is one     *)
(* atomic step; every await of the worker is a place where the other       *)
(* replica and the domain services may run.  The content of a business row *)
(* is its version; a mirror handler reads the current version and, some    *)
(* time later, makes the target show what it read.  Time is abstracted to  *)
(* the tests the code makes on it: next_attempt_at <= now() (`due`) and    *)
(* locked_until < now() (not `leased`).                                    *)
(***************************************************************************)
EXTENDS Naturals, FiniteSets

CONSTANTS
  Workers,      \* the replicas of the control plane, one OutboxWorker each
  Aggregates,   \* business rows: tenants, users and agents
  Keys,         \* (target, aggregate) pairs, the key of the unique index
  AggregateOf,  \* the aggregate a key is about
  Handled,      \* the keys that have a MirrorHandler
  BatchSize,    \* BATCH_SIZE of the worker
  Faults,       \* what may go wrong, a subset of FaultKinds
  Kicks,        \* what wakes a worker, a subset of {"poll", "notify"}
  MaxVersion,   \* bound: business changes per aggregate
  MaxRows,      \* bound: rows ever inserted into the outbox
  MaxSeq        \* bound: requested_seq a resync may still bump

\* crash: a replica dies;  stop: it is shut down;  throw: a handler throws;  database: a statement
\* of the worker fails, before or after it took effect;  listener: the LISTEN
\* connection is lost;  skip: SKIP LOCKED passes over a row some open
\* transaction has locked;  lease: a lease ends under a worker that is alive.
FaultKinds ==
  {"crash", "stop", "throw", "database", "listener", "skip", "lease"}

ASSUME OutboxAssumption ==
  /\ IsFiniteSet(Keys) /\ Keys # {}
  /\ AggregateOf \in [Keys -> Aggregates]
  /\ Handled \subseteq Keys
  /\ BatchSize \in Nat \ {0}
  /\ Faults \subseteq FaultKinds
  /\ Kicks \subseteq {"poll", "notify"}
  /\ MaxVersion \in Nat
  /\ MaxRows \in Nat \ {0}
  /\ MaxSeq \in Nat

VARIABLES
  db,         \* the committed version of each business row
  mirror,     \* the version each mirror shows
  outbox,     \* the table
  lastId,     \* the largest id inserted so far
  pc,         \* where each worker is
  batch,      \* claimed events the worker has not started on
  current,    \* the event it is processing
  ver,        \* the version its handler read
  rerun,      \* the flag `rerun` of the worker
  stopped,    \* the flag `stopped` of the worker
  listening,  \* the worker holds a LISTEN connection
  notified,   \* a notification is on its way to the worker
  synced      \* history: the newest version a completed sync had read

table == <<outbox, lastId>>
work == <<batch, current, ver>>
flags == <<rerun, stopped, listening, notified>>
vars == <<db, mirror, table, pc, work, flags, synced>>

Ids == 1..MaxRows

\* pending is processed_at IS NULL; absent is not inserted yet, or purged.
Status == {"absent", "pending", "processed"}

AnyKey == CHOOSE k \in Keys : TRUE

Row == [key : Keys, status : Status, seq : Nat, leased : BOOLEAN, due : BOOLEAN]

\* What claim() returns of a row; seq is claimed_seq.
Event == [id : Ids, key : Keys, seq : Nat]

\* down: no process;  idle: not draining;  claim: about to claim;  loop: at
\* the condition of the outer loop;  batch: events left to process;  sync:
\* inside handler.sync;  done, requeue: in the first and the second statement
\* of markDone;  failed: in markFailed.
Processing == {"sync", "done", "requeue", "failed"}
Draining == {"claim", "loop", "batch"} \cup Processing
Places == {"down", "idle"} \cup Draining

BlankRow ==
  [key |-> AnyKey, status |-> "absent", seq |-> 0, leased |-> FALSE, due |-> FALSE]
NoEvent == [id |-> 1, key |-> AnyKey, seq |-> 0]

KeysOf(a) == {k \in Keys : AggregateOf[k] = a}
Current(k) == db[AggregateOf[k]]

IsPending(r) == outbox[r].status = "pending"
Pending(k) == \E r \in Ids : IsPending(r) /\ outbox[r].key = k

\* The events a worker still has in memory, started or not.
Held(w) == batch[w] \cup (IF pc[w] \in Processing THEN {current[w]} ELSE {})
Holds(w, r) == \E e \in Held(w) : e.id = r

Larger(m, n) == IF m >= n THEN m ELSE n

-----------------------------------------------------------------------------
(* The statements of outbox.repository.ts, as values of the table.         *)

NewRow(k) ==
  [key |-> k, status |-> "pending", seq |-> 1, leased |-> FALSE, due |-> TRUE]

\* Mutant: the bump also takes the lease away.
BumpedUnlocked(row) == [row EXCEPT !.seq = @ + 1, !.due = TRUE, !.leased = FALSE]

Bumped(row) == [row EXCEPT !.seq = @ + 1, !.due = TRUE]

\* Inserts the keys of `fresh`, bumps the pending rows of the rest of K; the
\* statement trigger's NOTIFY reaches the connected listeners at the commit.
Upsert(K, fresh) ==
  LET top == lastId + Cardinality(fresh)
      new == (lastId + 1)..top
  IN /\ top <= MaxRows
     /\ \E keyOf \in [new -> fresh] :
          /\ \A k \in fresh : \E r \in new : keyOf[r] = k
          /\ \A r, q \in new : keyOf[r] = keyOf[q] => r = q
          /\ outbox' = [r \in Ids |->
               IF r \in new THEN NewRow(keyOf[r])
               ELSE IF IsPending(r) /\ outbox[r].key \in K \ fresh
                 THEN Bumped(outbox[r])
               ELSE outbox[r]]
     /\ lastId' = top
     /\ notified' = [w \in Workers |-> notified[w] \/ listening[w]]

\* Mutant: no ON CONFLICT, every enqueue inserts.
EnqueueAlwaysInserts(K) == Upsert(K, K)

\* INSERT ... ON CONFLICT DO UPDATE for each key of K.
Enqueue(K) == Upsert(K, {k \in K : ~Pending(k)})

\* Mutant: claim() does not look at locked_until.
ClaimableIgnoringLease == {r \in Ids : IsPending(r) /\ outbox[r].due}

Claimable == {r \in Ids : IsPending(r) /\ outbox[r].due /\ ~outbox[r].leased}

\* ORDER BY id LIMIT n
Lowest(S, n) == {r \in S : Cardinality({q \in S : q < r}) < n}

\* The rows one claim takes: the lowest of those it does not skip.
ClaimChoices ==
  {Lowest(Claimable \ skipped, BatchSize) :
     skipped \in IF "skip" \in Faults THEN SUBSET Claimable ELSE {{}}}

\* Mutant: claim() does not take the lease.
AfterClaimUnleased(S) == outbox

AfterClaim(S) == [r \in Ids |->
  IF r \in S THEN [outbox[r] EXCEPT !.leased = TRUE] ELSE outbox[r]]

\* Mutant: the event names the row before the one that was claimed.
EventOfRowBefore(r) == [id |-> r - 1, key |-> outbox[r].key, seq |-> outbox[r].seq]

EventOf(r) == [id |-> r, key |-> outbox[r].key, seq |-> outbox[r].seq]

\* Mutant: markDone without the lost-update guard.
DoneMatchesAnySeq(e) == outbox[e.id].status # "absent"

\* The first statement of markDone finds the row (purged rows match nothing).
DoneMatches(e) ==
  outbox[e.id].status # "absent" /\ outbox[e.id].seq = e.seq

AfterDone(e) == [outbox EXCEPT
  ![e.id] = [@ EXCEPT !.status = "processed", !.leased = FALSE]]

AfterRequeue(e) ==
  IF IsPending(e.id)
    THEN [outbox EXCEPT ![e.id] = [@ EXCEPT !.leased = FALSE, !.due = TRUE]]
    ELSE outbox

\* Mutant: a failed event is given up.
AfterFailureGivesUp(e) == AfterDone(e)

AfterFailure(e) ==
  IF outbox[e.id].status # "absent"
    THEN [outbox EXCEPT ![e.id] = [@ EXCEPT !.leased = FALSE, !.due = FALSE]]
    ELSE outbox

-----------------------------------------------------------------------------
Init ==
  /\ db = [a \in Aggregates |-> 0]
  /\ mirror = [k \in Keys |-> 0]
  /\ outbox = [r \in Ids |-> BlankRow]
  /\ lastId = 0
  /\ pc = [w \in Workers |-> "down"]
  /\ batch = [w \in Workers |-> {}]
  /\ current = [w \in Workers |-> NoEvent]
  /\ ver = [w \in Workers |-> 0]
  /\ rerun = [w \in Workers |-> FALSE]
  /\ stopped = [w \in Workers |-> FALSE]
  /\ listening = [w \in Workers |-> FALSE]
  /\ notified = [w \in Workers |-> FALSE]
  /\ synced = [k \in Keys |-> 0]

-----------------------------------------------------------------------------
(* The rest of the control plane.                                          *)

\* A domain service commits a change of an aggregate; the same transaction
\* enqueued the aggregate for every mirror that shows it.
Change(a) ==
  /\ db[a] < MaxVersion
  /\ db' = [db EXCEPT ![a] = @ + 1]
  /\ Enqueue(KeysOf(a))
  /\ UNCHANGED <<mirror, pc, work, rerun, stopped, listening, synced>>

\* ResyncService.run enqueues outside any transaction, one statement per key.
Resync(k) ==
  /\ \A r \in Ids : IsPending(r) /\ outbox[r].key = k => outbox[r].seq < MaxSeq
  /\ Enqueue({k})
  /\ UNCHANGED <<db, mirror, pc, work, rerun, stopped, listening, synced>>

\* now() passes next_attempt_at.
BackoffElapses(r) ==
  /\ IsPending(r)
  /\ ~outbox[r].due
  /\ outbox' = [outbox EXCEPT ![r].due = TRUE]
  /\ UNCHANGED <<db, mirror, lastId, pc, work, flags, synced>>

\* now() passes locked_until.  LEASE_SECONDS is long against one sync, not
\* against a batch of BATCH_SIZE of them: see "lease" in Faults.
LeaseExpires(r) ==
  /\ outbox[r].leased
  /\ "lease" \in Faults \/ ~\E w \in Workers : Holds(w, r)
  /\ outbox' = [outbox EXCEPT ![r].leased = FALSE]
  /\ UNCHANGED <<db, mirror, lastId, pc, work, flags, synced>>

PurgeProcessed(r) ==
  /\ outbox[r].status = "processed"
  /\ outbox' = [outbox EXCEPT ![r] = BlankRow]
  /\ UNCHANGED <<db, mirror, lastId, pc, work, flags, synced>>

-----------------------------------------------------------------------------
(* The worker.                                                             *)

\* Updates shared by the handlers below.
Goto(w, place) == pc' = [pc EXCEPT ![w] = place]

\* The for loop takes the next event; after the last the while loop claims.
Continue(w) ==
  /\ Goto(w, IF batch[w] = {} THEN "claim" ELSE "batch")
  /\ current' = [current EXCEPT ![w] = NoEvent]
  /\ ver' = [ver EXCEPT ![w] = 0]
  /\ UNCHANGED batch

\* Whatever the worker had in memory is gone.
Forget(w) ==
  /\ batch' = [batch EXCEPT ![w] = {}]
  /\ current' = [current EXCEPT ![w] = NoEvent]
  /\ ver' = [ver EXCEPT ![w] = 0]

\* Mutant: a kick that comes while the worker drains is dropped.
KickOnlyIdle(w) ==
  /\ ~stopped[w]
  /\ \/ /\ pc[w] = "idle"
        /\ Goto(w, "claim")
        /\ rerun' = [rerun EXCEPT ![w] = FALSE]
     \/ /\ pc[w] \in Draining
        /\ UNCHANGED <<pc, rerun>>

\* kick(): start a drain, or ask the one that is running for another round.
Kick(w) ==
  /\ ~stopped[w]
  /\ \/ /\ pc[w] = "idle"
        /\ Goto(w, "claim")
        /\ rerun' = [rerun EXCEPT ![w] = FALSE]
     \/ /\ pc[w] \in Draining
        /\ rerun' = [rerun EXCEPT ![w] = TRUE]
        /\ UNCHANGED pc

\* onApplicationBootstrap: listen() is under way, the first kick() drains.
Start(w) ==
  /\ pc[w] = "down"
  /\ Goto(w, "claim")
  /\ rerun' = [rerun EXCEPT ![w] = FALSE]
  /\ stopped' = [stopped EXCEPT ![w] = FALSE]
  /\ UNCHANGED <<db, mirror, table, work, listening, notified, synced>>

\* listen() succeeded, at first or five seconds after the connection broke.
\* It does not kick: what happened meanwhile waits for the poll.
Listen(w) ==
  /\ "notify" \in Kicks
  /\ pc[w] # "down" /\ ~stopped[w] /\ ~listening[w]
  /\ listening' = [listening EXCEPT ![w] = TRUE]
  /\ UNCHANGED <<db, mirror, table, pc, work, rerun, stopped, notified, synced>>

ListenerLost(w) ==
  /\ "listener" \in Faults
  /\ listening[w]
  /\ listening' = [listening EXCEPT ![w] = FALSE]
  /\ notified' = [notified EXCEPT ![w] = FALSE]
  /\ UNCHANGED <<db, mirror, table, pc, work, rerun, stopped, synced>>

\* client.on('notification').  Notifications that wait together count once:
\* the second of them could only set `rerun` again.
OnNotification(w) ==
  /\ notified[w]
  /\ Kick(w)
  /\ notified' = [notified EXCEPT ![w] = FALSE]
  /\ UNCHANGED <<db, mirror, table, work, stopped, listening, synced>>

Poll(w) ==
  /\ "poll" \in Kicks
  /\ Kick(w)
  /\ UNCHANGED <<db, mirror, table, work, stopped, listening, notified, synced>>

\* The while condition of drain(): claim unless stopped.  The answer is read
\* one step later, at "loop" or "batch".
Claim(w) ==
  /\ pc[w] = "claim"
  /\ ~stopped[w]
  /\ \E S \in ClaimChoices :
       /\ outbox' = AfterClaim(S)
       /\ batch' = [batch EXCEPT ![w] = {EventOf(r) : r \in S}]
       /\ Goto(w, IF S = {} THEN "loop" ELSE "batch")
  /\ UNCHANGED <<db, mirror, lastId, current, ver, flags, synced>>

ClaimStopped(w) ==
  /\ pc[w] = "claim"
  /\ stopped[w]
  /\ Goto(w, "loop")
  /\ UNCHANGED <<db, mirror, table, work, flags, synced>>

\* Mutant: no `finally`, `draining` stays set and no kick starts a drain.
StuckDraining(w) == Goto(w, "batch")

\* finally { this.draining = false }
EndDrain(w) == Goto(w, "idle")

\* do ... while (this.rerun && !this.stopped); then draining = false.
LoopEnd(w) ==
  /\ pc[w] = "loop"
  /\ \/ /\ rerun[w] /\ ~stopped[w]
        /\ rerun' = [rerun EXCEPT ![w] = FALSE]
        /\ Goto(w, "claim")
     \/ /\ ~rerun[w] \/ stopped[w]
        /\ EndDrain(w)
        /\ UNCHANGED rerun
  /\ UNCHANGED <<db, mirror, table, work, stopped, listening, notified, synced>>

\* process(): the handler reads the current row; without a handler the event
\* goes straight to markDone.  RETURNING promises no order of the batch.
Process(w) ==
  /\ pc[w] = "batch"
  /\ \E e \in batch[w] :
       /\ batch' = [batch EXCEPT ![w] = @ \ {e}]
       /\ current' = [current EXCEPT ![w] = e]
       /\ \/ /\ e.key \in Handled
             /\ ver' = [ver EXCEPT ![w] = Current(e.key)]
             /\ Goto(w, "sync")
          \/ /\ e.key \notin Handled
             /\ Goto(w, "done")
             /\ UNCHANGED ver
  /\ UNCHANGED <<db, mirror, table, flags, synced>>

Show(w) == mirror' = [mirror EXCEPT ![current[w].key] = ver[w]]

\* handler.sync returns: the mirror shows what the handler read.
SyncReturns(w) ==
  /\ pc[w] = "sync"
  /\ Show(w)
  /\ synced' = [synced EXCEPT ![current[w].key] = Larger(@, ver[w])]
  /\ Goto(w, "done")
  /\ UNCHANGED <<db, table, work, flags>>

\* handler.sync throws, before or after its requests took effect.
SyncThrows(w) ==
  /\ "throw" \in Faults
  /\ pc[w] = "sync"
  /\ Show(w) \/ UNCHANGED mirror
  /\ Goto(w, "failed")
  /\ UNCHANGED <<db, table, work, flags, synced>>

MarkDone(w) ==
  /\ pc[w] = "done"
  /\ \/ /\ DoneMatches(current[w])
        /\ outbox' = AfterDone(current[w])
        /\ Continue(w)
     \/ /\ ~DoneMatches(current[w])
        /\ Goto(w, "requeue")
        /\ UNCHANGED <<outbox, work>>
  /\ UNCHANGED <<db, mirror, lastId, flags, synced>>

\* The second statement of markDone, and process() asking for another round.
Requeue(w) ==
  /\ pc[w] = "requeue"
  /\ outbox' = AfterRequeue(current[w])
  /\ rerun' = [rerun EXCEPT ![w] = @ \/ current[w].key \in Handled]
  /\ Continue(w)
  /\ UNCHANGED <<db, mirror, lastId, stopped, listening, notified, synced>>

\* An error of markFailed itself is swallowed: the row keeps its lease.
MarkFailed(w) ==
  /\ pc[w] = "failed"
  /\ \/ outbox' = AfterFailure(current[w])
     \/ "database" \in Faults /\ UNCHANGED outbox
  /\ Continue(w)
  /\ UNCHANGED <<db, mirror, lastId, flags, synced>>

\* claim() or markDone() throws: drain() logs it and ends, the rest of the
\* batch keeps its lease and `rerun` its value.  The statement may have taken
\* effect.
DrainFails(w) ==
  /\ "database" \in Faults
  /\ \/ /\ pc[w] \in {"claim", "done", "requeue"}
        /\ UNCHANGED outbox
     \/ /\ pc[w] = "claim" /\ ~stopped[w]
        /\ \E S \in ClaimChoices : outbox' = AfterClaim(S)
     \/ /\ pc[w] = "done" /\ DoneMatches(current[w])
        /\ outbox' = AfterDone(current[w])
     \/ /\ pc[w] = "requeue"
        /\ outbox' = AfterRequeue(current[w])
  /\ pc[w] = "claim" => ~stopped[w]
  /\ Forget(w)
  /\ EndDrain(w)
  /\ UNCHANGED <<db, mirror, lastId, flags, synced>>

\* onModuleDestroy: no further claim, the batch at hand is finished.
Stop(w) ==
  /\ "stop" \in Faults
  /\ pc[w] # "down" /\ ~stopped[w]
  /\ stopped' = [stopped EXCEPT ![w] = TRUE]
  /\ listening' = [listening EXCEPT ![w] = FALSE]
  /\ notified' = [notified EXCEPT ![w] = FALSE]
  /\ UNCHANGED <<db, mirror, table, pc, work, rerun, synced>>

\* The process ends, after Stop or without it.
Exit(w) ==
  /\ "crash" \in Faults \/ stopped[w]
  /\ pc[w] # "down"
  /\ Goto(w, "down")
  /\ Forget(w)
  /\ rerun' = [rerun EXCEPT ![w] = FALSE]
  /\ stopped' = [stopped EXCEPT ![w] = FALSE]
  /\ listening' = [listening EXCEPT ![w] = FALSE]
  /\ notified' = [notified EXCEPT ![w] = FALSE]
  /\ UNCHANGED <<db, mirror, table, synced>>

-----------------------------------------------------------------------------
Environment ==
  \/ \E a \in Aggregates : Change(a)
  \/ \E k \in Keys : Resync(k)
  \/ \E r \in Ids : BackoffElapses(r) \/ LeaseExpires(r) \/ PurgeProcessed(r)

Lifecycle(w) ==
  Start(w) \/ Stop(w) \/ Exit(w) \/ Listen(w) \/ ListenerLost(w)

Drain(w) ==
  \/ Claim(w) \/ ClaimStopped(w) \/ LoopEnd(w)
  \/ Process(w) \/ SyncReturns(w) \/ SyncThrows(w)
  \/ MarkDone(w) \/ Requeue(w) \/ MarkFailed(w) \/ DrainFails(w)

Worker(w) == Lifecycle(w) \/ OnNotification(w) \/ Poll(w) \/ Drain(w)

Next == Environment \/ \E w \in Workers : Worker(w)

Spec == Init /\ [][Next]_vars

\* A replica is started again when it ended, one that was told to stop ends,
\* and a running worker keeps going: node schedules what is ready.
Progress(w) ==
  /\ WF_vars(Start(w)) /\ WF_vars(stopped[w] /\ Exit(w))
  /\ WF_vars(Listen(w)) /\ WF_vars(OnNotification(w)) /\ WF_vars(Drain(w))

\* Timers fire.
Timers ==
  /\ \A r \in Ids : WF_vars(BackoffElapses(r)) /\ WF_vars(LeaseExpires(r))
  /\ \A w \in Workers : WF_vars(pc[w] = "idle" /\ Poll(w))

\* What a fault may spoil succeeds if it is tried again and again: a claim
\* that finds rows, a sync, the statement that settles a row.
Persistence(w) ==
  /\ SF_vars(Claim(w) /\ batch'[w] # {})
  /\ SF_vars(Process(w)) /\ SF_vars(SyncReturns(w))
  /\ SF_vars(MarkDone(w)) /\ SF_vars(Requeue(w))

FairSpec == Spec /\ Timers /\ \A w \in Workers : Progress(w) /\ Persistence(w)

\* Without faults and without timers.
CalmSpec == Spec /\ \A w \in Workers : Progress(w)

-----------------------------------------------------------------------------
(* Properties.                                                             *)

TypeOK ==
  /\ db \in [Aggregates -> Nat]
  /\ mirror \in [Keys -> Nat]
  /\ outbox \in [Ids -> Row]
  /\ lastId \in 0..MaxRows
  /\ pc \in [Workers -> Places]
  /\ batch \in [Workers -> SUBSET Event]
  /\ current \in [Workers -> Event]
  /\ ver \in [Workers -> Nat]
  /\ rerun \in [Workers -> BOOLEAN]
  /\ stopped \in [Workers -> BOOLEAN]
  /\ listening \in [Workers -> BOOLEAN]
  /\ notified \in [Workers -> BOOLEAN]
  /\ synced \in [Keys -> Nat]

\* No lost update (I-30 in the header of outbox.repository.ts): when nothing
\* is pending for a key, a sync that had read the aggregate's current version
\* has completed.  It holds whatever leases, crashes and errors do.
NoLostUpdate ==
  \A k \in Handled : ~Pending(k) => synced[k] = Current(k)

\* At most one pending row per (target, aggregate), the promise of the header
\* of outbox.repository.ts.
OnePendingRow ==
  \A r, q \in Ids :
    IsPending(r) /\ IsPending(q) /\ outbox[r].key = outbox[q].key => r = q

\* Two handlers never run for one key at the same time, on one replica or on
\* two ("Multi-replica safe" in the header of outbox.worker.ts).
ExclusiveSync ==
  \A v, w \in Workers :
    /\ pc[v] = "sync" /\ pc[w] = "sync"
    /\ current[v].key = current[w].key
    => v = w

\* A settled mirror is a fresh one: with nothing pending for a key and no
\* worker at it, the mirror shows the current row.
MirrorFresh ==
  \A k \in Handled :
    /\ ~Pending(k)
    /\ \A w \in Workers : \A e \in Held(w) : e.key # k
    => mirror[k] = Current(k)

\* A mirror never goes back to an older version of its row.
MirrorNeverRegresses ==
  [][\A k \in Keys : mirror'[k] >= mirror[k]]_mirror

\* Work is never abandoned: whatever replicas, connections and statements do,
\* every key settles in the end and its mirror then shows the current row.
Converges ==
  <>[](\A k \in Handled : ~Pending(k) /\ mirror[k] = Current(k))

\* No lost wake-up: without any poll, a change whose notification reached a
\* worker is worked off unless that worker loses its connection, also when it
\* came while the worker was draining, between a claim and its answer, or for
\* a row another replica has leased.
NotificationSuffices ==
  \A k \in Handled, w \in Workers :
    Pending(k) /\ notified[w] ~> ~Pending(k) \/ ~listening[w]

\* The table, the workers and their leases implement the contract: a key is
\* dirty while it has a pending row.
Contract == INSTANCE OutboxContract WITH dirty <- [k \in Keys |-> Pending(k)]

\* The outbox keeps the contract under every fault: only a key whose current
\* version was read by a completed sync is ever settled.
ImplementsContract == Contract!Spec
=============================================================================
