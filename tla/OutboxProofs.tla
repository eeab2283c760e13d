---------------------------- MODULE OutboxProofs ----------------------------
(***************************************************************************)
(* Theorems about the outbox, for any number of replicas, keys and rows,   *)
(* any batch size and any set of faults.                                   *)
(***************************************************************************)
EXTENDS Outbox, FiniteSetTheorems, TLAPS

USE DEF Ids, Status, Processing, Draining, Places

LEMMA AnyKeyInKeys == AnyKey \in Keys
  BY OutboxAssumption DEF AnyKey

LEMMA BlankTypes == BlankRow \in Row /\ NoEvent \in Event
  BY AnyKeyInKeys, OutboxAssumption DEF BlankRow, NoEvent, Row, Event

LEMMA CardinalityOfKeys ==
  ASSUME NEW K \in SUBSET Keys
  PROVE  Cardinality(K) \in Nat
  <1>1. IsFiniteSet(K)
    BY OutboxAssumption, FS_Subset
  <1> QED BY <1>1, FS_CardinalityType

(* What the statements do to a row stays a row.                            *)
LEMMA RowUpdates ==
  ASSUME NEW row \in Row
  PROVE  /\ Bumped(row) \in Row
         /\ [row EXCEPT !.due = TRUE] \in Row
         /\ [row EXCEPT !.leased = TRUE] \in Row
         /\ [row EXCEPT !.leased = FALSE] \in Row
         /\ [row EXCEPT !.status = "processed", !.leased = FALSE] \in Row
         /\ [row EXCEPT !.leased = FALSE, !.due = TRUE] \in Row
         /\ [row EXCEPT !.leased = FALSE, !.due = FALSE] \in Row
  <1> USE DEF Row
  <1>1. [row EXCEPT !.seq = @ + 1] \in Row
    OBVIOUS
  <1>2. ASSUME NEW any \in Row
        PROVE  /\ [any EXCEPT !.due = TRUE] \in Row
               /\ [any EXCEPT !.due = FALSE] \in Row
    OBVIOUS
  <1>3. ASSUME NEW any \in Row
        PROVE  /\ [any EXCEPT !.leased = TRUE] \in Row
               /\ [any EXCEPT !.leased = FALSE] \in Row
    OBVIOUS
  <1>4. [row EXCEPT !.status = "processed"] \in Row
    OBVIOUS
  <1> HIDE DEF Row
  <1> QED BY <1>1, <1>2, <1>3, <1>4 DEF Bumped

LEMMA UpsertType ==
  ASSUME TypeOK, NEW K \in SUBSET Keys, NEW fresh \in SUBSET K, Upsert(K, fresh)
  PROVE  /\ outbox' \in [Ids -> Row]
         /\ lastId' \in 0..MaxRows
         /\ notified' \in [Workers -> BOOLEAN]
  <1> DEFINE top == lastId + Cardinality(fresh)
             new == (lastId + 1)..top
  <1>1. PICK keyOf \in [new -> fresh] :
          outbox' = [r \in Ids |->
               IF r \in new THEN NewRow(keyOf[r])
               ELSE IF IsPending(r) /\ outbox[r].key \in K \ fresh
                 THEN Bumped(outbox[r])
               ELSE outbox[r]]
    BY DEF Upsert
  <1>2. ASSUME NEW r \in Ids  PROVE outbox'[r] \in Row
    <2>1. CASE r \in new
      <3>1. keyOf[r] \in Keys
        BY <2>1
      <3>2. outbox'[r] = NewRow(keyOf[r])
        BY <1>1, <2>1
      <3> QED BY <3>1, <3>2 DEF NewRow, Row
    <2>2. CASE r \notin new
      BY <1>1, <2>2, RowUpdates DEF TypeOK
    <2> QED BY <2>1, <2>2
  <1>3. outbox' \in [Ids -> Row]
    BY <1>1, <1>2
  <1>4. lastId' = top /\ top <= MaxRows /\ top \in Nat
    <2>1. lastId' = top /\ top <= MaxRows
      BY DEF Upsert
    <2>2. Cardinality(fresh) \in Nat /\ lastId \in Nat
      BY CardinalityOfKeys, OutboxAssumption DEF TypeOK
    <2> QED BY <2>1, <2>2
  <1>5. notified' \in [Workers -> BOOLEAN]
    BY DEF Upsert, TypeOK
  <1> QED BY <1>3, <1>4, <1>5, OutboxAssumption

LEMMA ClaimChoicesClaimable ==
  ASSUME NEW S \in ClaimChoices
  PROVE  S \subseteq Claimable
  BY DEF ClaimChoices, Lowest

LEMMA AfterTypes ==
  ASSUME TypeOK
  PROVE  /\ \A S \in ClaimChoices : AfterClaim(S) \in [Ids -> Row]
         /\ \A e \in Event : /\ AfterDone(e) \in [Ids -> Row]
                             /\ AfterRequeue(e) \in [Ids -> Row]
                             /\ AfterFailure(e) \in [Ids -> Row]
  <1>1. ASSUME NEW S \in ClaimChoices  PROVE AfterClaim(S) \in [Ids -> Row]
    BY RowUpdates DEF AfterClaim, TypeOK
  <1>2. ASSUME NEW e \in Event  PROVE AfterDone(e) \in [Ids -> Row]
    BY RowUpdates DEF AfterDone, TypeOK, Event
  <1>3. ASSUME NEW e \in Event  PROVE AfterRequeue(e) \in [Ids -> Row]
    BY RowUpdates DEF AfterRequeue, TypeOK, Event
  <1>4. ASSUME NEW e \in Event  PROVE AfterFailure(e) \in [Ids -> Row]
    BY RowUpdates DEF AfterFailure, TypeOK, Event
  <1> QED BY <1>1, <1>2, <1>3, <1>4

LEMMA ContinueType ==
  ASSUME TypeOK, NEW w \in Workers, Continue(w)
  PROVE  /\ pc' \in [Workers -> Places]
         /\ batch' \in [Workers -> SUBSET Event]
         /\ current' \in [Workers -> Event]
         /\ ver' \in [Workers -> Nat]
  BY BlankTypes DEF TypeOK, Continue, Goto

LEMMA ForgetType ==
  ASSUME TypeOK, NEW w \in Workers, Forget(w)
  PROVE  /\ batch' \in [Workers -> SUBSET Event]
         /\ current' \in [Workers -> Event]
         /\ ver' \in [Workers -> Nat]
  BY BlankTypes DEF TypeOK, Forget

(* Every action keeps every variable in its set of values.                 *)
LEMMA NextType == TypeOK /\ [Next]_vars => TypeOK'
  <1> SUFFICES ASSUME TypeOK, [Next]_vars PROVE TypeOK'
    OBVIOUS
  <1> USE DEF table, work, flags
  <1>1. ASSUME NEW a \in Aggregates, Change(a)  PROVE TypeOK'
    <2>1. /\ outbox' \in [Ids -> Row]
          /\ lastId' \in 0..MaxRows
          /\ notified' \in [Workers -> BOOLEAN]
      <3>1. KeysOf(a) \in SUBSET Keys
        BY DEF KeysOf
      <3>2. {k \in KeysOf(a) : ~Pending(k)} \in SUBSET KeysOf(a)
        OBVIOUS
      <3> QED BY <1>1, <3>1, <3>2, UpsertType DEF Change, Enqueue
    <2>2. db' \in [Aggregates -> Nat]
      BY <1>1 DEF Change, TypeOK
    <2> QED BY <1>1, <2>1, <2>2 DEF Change, TypeOK
  <1>2. ASSUME NEW k \in Keys, Resync(k)  PROVE TypeOK'
    BY <1>2, UpsertType DEF Resync, Enqueue, TypeOK
  <1>3. ASSUME NEW r \in Ids, BackoffElapses(r)  PROVE TypeOK'
    BY <1>3, RowUpdates DEF BackoffElapses, TypeOK
  <1>4. ASSUME NEW r \in Ids, LeaseExpires(r)  PROVE TypeOK'
    BY <1>4, RowUpdates DEF LeaseExpires, TypeOK
  <1>5. ASSUME NEW r \in Ids, PurgeProcessed(r)  PROVE TypeOK'
    BY <1>5, BlankTypes DEF PurgeProcessed, TypeOK
  <1>6. ASSUME NEW w \in Workers, Start(w)  PROVE TypeOK'
    BY <1>6 DEF Start, Goto, TypeOK
  <1>7. ASSUME NEW w \in Workers, Stop(w)  PROVE TypeOK'
    BY <1>7 DEF Stop, TypeOK
  <1>8. ASSUME NEW w \in Workers, Exit(w)  PROVE TypeOK'
    BY <1>8, ForgetType DEF Exit, Goto, TypeOK
  <1>9. ASSUME NEW w \in Workers, Listen(w)  PROVE TypeOK'
    BY <1>9 DEF Listen, TypeOK
  <1>10. ASSUME NEW w \in Workers, ListenerLost(w)  PROVE TypeOK'
    BY <1>10 DEF ListenerLost, TypeOK
  <1>11. ASSUME NEW w \in Workers, OnNotification(w)  PROVE TypeOK'
    BY <1>11 DEF OnNotification, Kick, Goto, TypeOK
  <1>12. ASSUME NEW w \in Workers, Poll(w)  PROVE TypeOK'
    BY <1>12 DEF Poll, Kick, Goto, TypeOK
  <1>13. ASSUME NEW w \in Workers, Claim(w)  PROVE TypeOK'
    <2>1. PICK S \in ClaimChoices :
            /\ outbox' = AfterClaim(S)
            /\ batch' = [batch EXCEPT ![w] = {EventOf(r) : r \in S}]
            /\ Goto(w, IF S = {} THEN "loop" ELSE "batch")
      BY <1>13 DEF Claim
    <2>2. {EventOf(r) : r \in S} \in SUBSET Event
      BY <2>1, ClaimChoicesClaimable DEF EventOf, Claimable, TypeOK, Row, Event
    <2>3. outbox' \in [Ids -> Row]
      BY <2>1, AfterTypes
    <2>4. batch' \in [Workers -> SUBSET Event] /\ pc' \in [Workers -> Places]
      BY <2>1, <2>2 DEF TypeOK, Goto
    <2> QED BY <1>13, <2>3, <2>4 DEF Claim, TypeOK
  <1>14. ASSUME NEW w \in Workers, ClaimStopped(w)  PROVE TypeOK'
    BY <1>14 DEF ClaimStopped, Goto, TypeOK
  <1>15. ASSUME NEW w \in Workers, LoopEnd(w)  PROVE TypeOK'
    BY <1>15 DEF LoopEnd, EndDrain, Goto, TypeOK
  <1>16. ASSUME NEW w \in Workers, Process(w)  PROVE TypeOK'
    <2>1. PICK e \in batch[w] :
            /\ batch' = [batch EXCEPT ![w] = @ \ {e}]
            /\ current' = [current EXCEPT ![w] = e]
            /\ \/ /\ ver' = [ver EXCEPT ![w] = Current(e.key)]
                  /\ Goto(w, "sync")
               \/ Goto(w, "done") /\ UNCHANGED ver
      BY <1>16 DEF Process
    <2>2. e \in Event /\ Current(e.key) \in Nat
      BY OutboxAssumption DEF TypeOK, Event, Current
    <2>3. batch' \in [Workers -> SUBSET Event] /\ current' \in [Workers -> Event]
      BY <2>1, <2>2 DEF TypeOK
    <2>4. ver' \in [Workers -> Nat] /\ pc' \in [Workers -> Places]
      BY <2>1, <2>2 DEF Goto, TypeOK
    <2> QED BY <1>16, <2>3, <2>4 DEF Process, TypeOK
  <1>17. ASSUME NEW w \in Workers, SyncReturns(w)  PROVE TypeOK'
    BY <1>17 DEF SyncReturns, Show, Larger, Goto, TypeOK, Event
  <1>18. ASSUME NEW w \in Workers, SyncThrows(w)  PROVE TypeOK'
    BY <1>18 DEF SyncThrows, Show, Goto, TypeOK, Event
  <1>19. ASSUME NEW w \in Workers, MarkDone(w)  PROVE TypeOK'
    <2>1. current[w] \in Event
      BY DEF TypeOK
    <2>2. CASE outbox' = AfterDone(current[w]) /\ Continue(w)
      BY <1>19, <2>1, <2>2, AfterTypes, ContinueType DEF MarkDone, TypeOK
    <2>3. CASE Goto(w, "requeue") /\ UNCHANGED <<outbox, work>>
      BY <1>19, <2>3 DEF MarkDone, Goto, TypeOK
    <2> QED BY <1>19, <2>2, <2>3 DEF MarkDone
  <1>20. ASSUME NEW w \in Workers, Requeue(w)  PROVE TypeOK'
    <2>1. current[w] \in Event
      BY DEF TypeOK
    <2> QED BY <1>20, <2>1, AfterTypes, ContinueType DEF Requeue, TypeOK
  <1>21. ASSUME NEW w \in Workers, MarkFailed(w)  PROVE TypeOK'
    <2>1. current[w] \in Event
      BY DEF TypeOK
    <2> QED BY <1>21, <2>1, AfterTypes, ContinueType DEF MarkFailed, TypeOK
  <1>22. ASSUME NEW w \in Workers, DrainFails(w)  PROVE TypeOK'
    <2>1. current[w] \in Event
      BY DEF TypeOK
    <2>2. outbox' \in [Ids -> Row]
      BY <1>22, <2>1, AfterTypes DEF DrainFails, TypeOK
    <2> QED BY <1>22, <2>2, ForgetType DEF DrainFails, EndDrain, Goto, TypeOK
  <1>23. CASE UNCHANGED vars
    BY <1>23 DEF vars, TypeOK
  <1> QED
    BY <1>1, <1>2, <1>3, <1>4, <1>5, <1>6, <1>7, <1>8, <1>9, <1>10, <1>11,
       <1>12, <1>13, <1>14, <1>15, <1>16, <1>17, <1>18, <1>19, <1>20, <1>21,
       <1>22, <1>23
    DEF Next, Environment, Worker, Lifecycle, Drain

\* Every variable of the outbox and its workers keeps its type.
THEOREM TypeCorrect == Spec => []TypeOK
  <1>1. Init => TypeOK
    BY BlankTypes, OutboxAssumption DEF Init, TypeOK
  <1> QED BY <1>1, NextType, PTL DEF Spec

-----------------------------------------------------------------------------
(* The inductive invariant behind NoLostUpdate.                            *)

\* Ids above lastId have never been inserted.
UnusedRows ==
  \A r \in Ids : r > lastId => outbox[r].status = "absent"

\* An event in a worker's memory is about the row it was claimed from, which
\* can since have been bumped, finished or purged, never replaced.
Matches(e) ==
  /\ e.id <= lastId
  /\ outbox[e.id].status # "absent" =>
       outbox[e.id].key = e.key /\ e.seq <= outbox[e.id].seq

EventsMatchRows == \A w \in Workers : \A e \in Held(w) : Matches(e)

\* Nothing was enqueued for the event since it was claimed.
Unbumped(e) == IsPending(e.id) /\ outbox[e.id].seq = e.seq

\* So what its handler read is still current,
SyncReadsCurrent ==
  \A w \in Workers :
    pc[w] = "sync" =>
      /\ current[w].key \in Handled
      /\ ver[w] <= Current(current[w].key)
      /\ Unbumped(current[w]) => ver[w] = Current(current[w].key)

\* and what it has synced is.
DoneMeansSynced ==
  \A w \in Workers :
    /\ pc[w] = "done"
    /\ current[w].key \in Handled
    /\ Unbumped(current[w])
    => synced[current[w].key] = Current(current[w].key)

NoFuture == \A k \in Keys : synced[k] <= Current(k)

Inv ==
  /\ TypeOK
  /\ OnePendingRow
  /\ UnusedRows
  /\ EventsMatchRows
  /\ SyncReadsCurrent
  /\ DoneMeansSynced
  /\ NoFuture
  /\ NoLostUpdate

\* The worker takes up nothing new.
Quiet(v) ==
  /\ Held(v)' \subseteq Held(v)
  /\ pc'[v] \in {"sync", "done"} =>
       pc'[v] = pc[v] /\ current'[v] = current[v] /\ ver'[v] = ver[v]

\* The row is the same up to its lease and its due date.
SameRow(r) ==
  /\ outbox'[r].key = outbox[r].key
  /\ outbox'[r].status = outbox[r].status
  /\ outbox'[r].seq = outbox[r].seq

LEMMA EventFields ==
  ASSUME NEW e \in Event
  PROVE  e.id \in Ids /\ e.id \in Nat /\ e.key \in Keys /\ e.seq \in Nat
  BY OutboxAssumption DEF Event

LEMMA HeldEvents ==
  ASSUME TypeOK, NEW w \in Workers, NEW e \in Held(w)
  PROVE  e \in Event
  BY DEF TypeOK, Held

(* A step that moves only leases, due dates and workers keeps Inv.         *)
LEMMA QuietStep ==
  ASSUME Inv, TypeOK', UNCHANGED <<db, lastId, synced>>,
         \A r \in Ids : SameRow(r), \A v \in Workers : Quiet(v)
  PROVE  Inv'
  <1> USE DEF SameRow, IsPending
  <1>1. TypeOK
    BY DEF Inv
  <1>2. OnePendingRow'
    BY DEF Inv, OnePendingRow
  <1>3. UnusedRows'
    BY DEF Inv, UnusedRows
  <1>4. EventsMatchRows'
    <2> SUFFICES ASSUME NEW w \in Workers, NEW e \in Held(w)'  PROVE Matches(e)'
      BY DEF EventsMatchRows
    <2>1. e \in Held(w)
      BY DEF Quiet
    <2>2. Matches(e) /\ e.id \in Ids
      BY <1>1, <2>1, HeldEvents, EventFields DEF Inv, EventsMatchRows
    <2> QED BY <2>2 DEF Matches
  <1>5. \A w \in Workers : Unbumped(current[w])' /\ current'[w] = current[w]
                             => Unbumped(current[w])
    BY <1>1, EventFields DEF Unbumped, TypeOK
  <1>6. SyncReadsCurrent'
    BY <1>5 DEF Inv, SyncReadsCurrent, Quiet, Current
  <1>7. DoneMeansSynced'
    BY <1>5 DEF Inv, DoneMeansSynced, Quiet, Current
  <1>8. NoFuture' /\ NoLostUpdate'
    BY DEF Inv, NoFuture, NoLostUpdate, Pending, Current
  <1> QED BY <1>2, <1>3, <1>4, <1>6, <1>7, <1>8 DEF Inv

(* markDone that finds its row settles a key whose sync is done.           *)
LEMMA DoneStep ==
  ASSUME Inv, TypeOK', UNCHANGED <<db, lastId, synced>>,
         NEW w \in Workers, pc[w] = "done", DoneMatches(current[w]),
         outbox' = AfterDone(current[w]), \A v \in Workers : Quiet(v)
  PROVE  Inv'
  <1> DEFINE e == current[w]
  <1>1. TypeOK /\ e \in Event /\ e.id \in Ids /\ e.id \in Nat /\ e \in Held(w)
    BY EventFields DEF Inv, TypeOK, Held
  <1>2. Matches(e)
    BY <1>1 DEF Inv, EventsMatchRows
  <1>3. /\ outbox'[e.id].status = "processed"
        /\ outbox'[e.id].key = outbox[e.id].key
        /\ outbox'[e.id].seq = outbox[e.id].seq
        /\ outbox[e.id].status # "absent"
        /\ outbox[e.id].seq = e.seq
    <2>1. outbox[e.id] \in Row
      BY <1>1 DEF TypeOK
    <2>2. outbox'[e.id] = [outbox[e.id] EXCEPT !.status = "processed", !.leased = FALSE]
      BY <1>1 DEF AfterDone, TypeOK
    <2> QED BY <2>1, <2>2 DEF DoneMatches, Row
  <1>4. \A r \in Ids \ {e.id} : outbox'[r] = outbox[r]
    BY <1>1 DEF AfterDone, TypeOK
  <1>5. \A r \in Ids : IsPending(r)' => IsPending(r) /\ r # e.id
    BY <1>3, <1>4 DEF IsPending
  <1>6. OnePendingRow'
    BY <1>4, <1>5 DEF Inv, OnePendingRow
  <1>7. UnusedRows'
    BY <1>1, <1>2, <1>3, <1>4 DEF Inv, UnusedRows, Matches
  <1>8. EventsMatchRows'
    <2> SUFFICES ASSUME NEW v \in Workers, NEW d \in Held(v)'  PROVE Matches(d)'
      BY DEF EventsMatchRows
    <2>1. d \in Held(v)
      BY DEF Quiet
    <2>2. Matches(d) /\ d.id \in Ids
      BY <1>1, <2>1, HeldEvents, EventFields DEF Inv, EventsMatchRows
    <2> QED BY <1>3, <1>4, <2>2 DEF Matches
  <1>9. \A v \in Workers : Unbumped(current[v])' /\ current'[v] = current[v]
                             => Unbumped(current[v])
    BY <1>1, <1>4, <1>5, EventFields DEF Unbumped, TypeOK
  <1>10. SyncReadsCurrent'
    BY <1>9 DEF Inv, SyncReadsCurrent, Quiet, Current
  <1>11. DoneMeansSynced'
    BY <1>9 DEF Inv, DoneMeansSynced, Quiet, Current
  <1>12. NoLostUpdate'
    <2> SUFFICES ASSUME NEW k \in Handled, ~Pending(k)'
                 PROVE  synced[k] = Current(k)
      BY DEF NoLostUpdate, Current
    <2>1. CASE Pending(k)
      <3>1. PICK r \in Ids : IsPending(r) /\ outbox[r].key = k
        BY <2>1 DEF Pending
      <3>2. r = e.id
        BY <1>4, <3>1 DEF Pending, IsPending
      <3>3. Unbumped(e) /\ e.key = k
        BY <1>2, <1>3, <3>1, <3>2 DEF Matches, Unbumped, IsPending
      <3> QED BY <3>3 DEF Inv, DoneMeansSynced
    <2>2. CASE ~Pending(k)
      BY <2>2 DEF Inv, NoLostUpdate
    <2> QED BY <2>1, <2>2
  <1>13. NoFuture'
    BY DEF Inv, NoFuture, Current
  <1> QED BY <1>6, <1>7, <1>8, <1>10, <1>11, <1>12, <1>13 DEF Inv

(* A purge takes away a row nobody waits for.                              *)
LEMMA PurgeStep ==
  ASSUME Inv, TypeOK', NEW r \in Ids, PurgeProcessed(r)
  PROVE  Inv'
  <1> USE DEF PurgeProcessed, work
  <1>1. TypeOK
    BY DEF Inv
  <1>2. outbox'[r].status = "absent" /\ \A q \in Ids \ {r} : outbox'[q] = outbox[q]
    BY <1>1 DEF TypeOK, BlankRow
  <1>3. \A q \in Ids : IsPending(q) <=> IsPending(q)'
    BY <1>2 DEF IsPending
  <1>4. \A q \in Ids : IsPending(q) => outbox'[q] = outbox[q]
    BY <1>2 DEF IsPending
  <1>5. \A k \in Keys : Pending(k) <=> Pending(k)'
    BY <1>3, <1>4 DEF Pending
  <1>6. OnePendingRow'
    BY <1>3, <1>4 DEF Inv, OnePendingRow
  <1>7. UnusedRows'
    BY <1>2 DEF Inv, UnusedRows
  <1>8. \A w \in Workers : Held(w)' = Held(w)
    BY DEF Held
  <1>9. EventsMatchRows'
    <2> SUFFICES ASSUME NEW w \in Workers, NEW e \in Held(w)  PROVE Matches(e)'
      BY <1>8 DEF EventsMatchRows
    <2>1. Matches(e) /\ e.id \in Ids
      BY <1>1, HeldEvents, EventFields DEF Inv, EventsMatchRows
    <2> QED BY <1>2, <2>1 DEF Matches
  <1>10. \A w \in Workers : Unbumped(current[w])' => Unbumped(current[w])
    BY <1>1, <1>3, <1>4, EventFields DEF Unbumped, TypeOK
  <1>11. SyncReadsCurrent' /\ DoneMeansSynced'
    BY <1>10 DEF Inv, SyncReadsCurrent, DoneMeansSynced, Current
  <1>12. NoFuture' /\ NoLostUpdate'
    BY <1>5, OutboxAssumption DEF Inv, NoFuture, NoLostUpdate, Current
  <1> QED BY <1>6, <1>7, <1>9, <1>11, <1>12 DEF Inv

(* What an enqueue of K does to the table.                                 *)
LEMMA EnqueueTable ==
  ASSUME TypeOK, OnePendingRow, UnusedRows, NEW K \in SUBSET Keys, Enqueue(K)
  PROVE  /\ \A r \in Ids : r <= lastId =>
              outbox'[r] = IF IsPending(r) /\ outbox[r].key \in K
                             THEN Bumped(outbox[r]) ELSE outbox[r]
         /\ lastId <= lastId'
         /\ \A k \in K : Pending(k)'
         /\ \A k \in Keys \ K : Pending(k) <=> Pending(k)'
         /\ OnePendingRow'
         /\ UnusedRows'
  <1> DEFINE fresh == {k \in K : ~Pending(k)}
             top == lastId + Cardinality(fresh)
             new == (lastId + 1)..top
  <1>1. Upsert(K, fresh)
    BY DEF Enqueue
  <1>2. PICK keyOf \in [new -> fresh] :
          /\ \A k \in fresh : \E r \in new : keyOf[r] = k
          /\ \A r, q \in new : keyOf[r] = keyOf[q] => r = q
          /\ outbox' = [r \in Ids |->
               IF r \in new THEN NewRow(keyOf[r])
               ELSE IF IsPending(r) /\ outbox[r].key \in K \ fresh
                 THEN Bumped(outbox[r])
               ELSE outbox[r]]
    BY <1>1 DEF Upsert
  <1>3. lastId \in Nat /\ top \in Nat /\ top <= MaxRows /\ lastId' = top
    <2>1. Cardinality(fresh) \in Nat /\ lastId \in Nat
      BY CardinalityOfKeys, OutboxAssumption DEF TypeOK
    <2>2. top <= MaxRows /\ lastId' = top
      BY <1>1 DEF Upsert
    <2> QED BY <2>1, <2>2
  <1>4. lastId <= lastId' /\ new \subseteq Ids
    <2>1. Cardinality(fresh) \in Nat
      BY CardinalityOfKeys
    <2>2. lastId <= lastId'
      BY <1>3, <2>1
    <2>3. ASSUME NEW r \in new  PROVE r \in Ids
      <3>1. r \in Nat /\ 1 <= r /\ r <= top
        BY <1>3, <2>3
      <3> HIDE DEF top
      <3>2. MaxRows \in Nat
        BY OutboxAssumption
      <3> QED BY <1>3, <3>1, <3>2
    <2> QED BY <2>2, <2>3
  <1>5. \A r \in new : /\ ~IsPending(r)
                       /\ outbox'[r].status = "pending"
                       /\ outbox'[r].key = keyOf[r]
                       /\ keyOf[r] \in fresh
    <2> SUFFICES ASSUME NEW r \in new
                 PROVE  /\ ~IsPending(r)
                        /\ outbox'[r].status = "pending"
                        /\ outbox'[r].key = keyOf[r]
                        /\ keyOf[r] \in fresh
      OBVIOUS
    <2>1. r > lastId /\ r \in Ids
      BY <1>3, <1>4
    <2>2. outbox'[r] = NewRow(keyOf[r])
      BY <1>2, <2>1
    <2>3. outbox[r].status = "absent"
      BY <2>1 DEF UnusedRows
    <2> QED BY <2>2, <2>3 DEF NewRow, IsPending
  <1>6. ASSUME NEW r \in Ids \ new
        PROVE  outbox'[r] = IF IsPending(r) /\ outbox[r].key \in K
                              THEN Bumped(outbox[r]) ELSE outbox[r]
    BY <1>2 DEF Pending
  <1>7. ASSUME NEW r \in Ids
        PROVE  /\ Bumped(outbox[r]).key = outbox[r].key
               /\ Bumped(outbox[r]).status = outbox[r].status
    <2>1. outbox[r] \in Row
      BY DEF TypeOK
    <2> QED BY <2>1 DEF Bumped, Row
  <1>8. \A r \in Ids \ new : /\ outbox'[r].key = outbox[r].key
                             /\ outbox'[r].status = outbox[r].status
    BY <1>6, <1>7
  <1>9. \A r \in Ids : r <= lastId => r \notin new
    BY <1>3
  <1>10. \A k \in K : Pending(k)'
    <2> SUFFICES ASSUME NEW k \in K  PROVE Pending(k)'
      OBVIOUS
    <2>1. CASE Pending(k)
      BY <2>1, <1>5, <1>8 DEF Pending, IsPending
    <2>2. CASE ~Pending(k)
      <3>1. PICK r \in new : keyOf[r] = k
        BY <1>2, <2>2
      <3> QED BY <1>4, <1>5, <3>1 DEF Pending, IsPending
    <2> QED BY <2>1, <2>2
  <1>11. \A k \in Keys \ K : Pending(k) <=> Pending(k)'
    BY <1>4, <1>5, <1>8 DEF Pending, IsPending
  <1>12. OnePendingRow'
    <2> SUFFICES ASSUME NEW r \in Ids, NEW q \in Ids, IsPending(r)', IsPending(q)',
                        outbox'[r].key = outbox'[q].key
                 PROVE  r = q
      BY DEF OnePendingRow
    <2>1. CASE r \in new /\ q \in new
      <3>1. keyOf[r] = keyOf[q]
        BY <1>5, <2>1
      <3> QED BY <1>2, <2>1, <3>1
    <2>2. CASE r \notin new /\ q \notin new
      BY <1>8, <2>2 DEF OnePendingRow, IsPending
    <2>3. CASE r \in new /\ q \notin new
      BY <1>5, <1>8, <2>3 DEF Pending, IsPending
    <2>4. CASE r \notin new /\ q \in new
      BY <1>5, <1>8, <2>4 DEF Pending, IsPending
    <2> QED BY <2>1, <2>2, <2>3, <2>4
  <1>13. UnusedRows'
    <2> SUFFICES ASSUME NEW r \in Ids, r > lastId'
                 PROVE  outbox'[r].status = "absent"
      BY DEF UnusedRows
    <2>1. r \notin new /\ r > lastId
      BY <1>3, <1>4, OutboxAssumption
    <2> QED BY <1>8, <2>1 DEF UnusedRows
  <1> QED BY <1>4, <1>6, <1>9, <1>10, <1>11, <1>12, <1>13

(* An enqueue of the keys whose aggregate moves on keeps Inv.              *)
LEMMA EnqueueStep ==
  ASSUME Inv, TypeOK', NEW K \in SUBSET Keys, Enqueue(K),
         UNCHANGED <<pc, batch, current, ver, synced>>,
         \A k \in Keys : Current(k) <= Current(k)',
         \A k \in Keys \ K : Current(k)' = Current(k)
  PROVE  Inv'
  <1>1. TypeOK /\ OnePendingRow /\ UnusedRows
    BY DEF Inv
  <1>2. /\ \A r \in Ids : r <= lastId =>
              outbox'[r] = IF IsPending(r) /\ outbox[r].key \in K
                             THEN Bumped(outbox[r]) ELSE outbox[r]
        /\ lastId <= lastId'
        /\ \A k \in K : Pending(k)'
        /\ \A k \in Keys \ K : Pending(k) <=> Pending(k)'
        /\ OnePendingRow'
        /\ UnusedRows'
    BY <1>1, EnqueueTable
  <1>3. ASSUME NEW r \in Ids
        PROVE  /\ outbox[r].seq \in Nat
               /\ Bumped(outbox[r]).key = outbox[r].key
               /\ Bumped(outbox[r]).status = outbox[r].status
               /\ Bumped(outbox[r]).seq = outbox[r].seq + 1
    <2>1. outbox[r] \in Row
      BY <1>1 DEF TypeOK
    <2> QED BY <2>1 DEF Bumped, Row
  <1>4. \A w \in Workers : Held(w)' = Held(w)
    BY DEF Held
  <1>5. ASSUME NEW w \in Workers, NEW e \in Held(w)
        PROVE  /\ Matches(e)'
               /\ Unbumped(e)' => Unbumped(e) /\ e.key \notin K
    <2>1. Matches(e) /\ e.id \in Ids /\ e.id \in Nat /\ e.seq \in Nat
      BY <1>1, HeldEvents, EventFields DEF Inv, EventsMatchRows
    <2>2. lastId \in Nat /\ lastId' \in Nat
      BY OutboxAssumption, <1>1 DEF TypeOK
    <2>3. outbox'[e.id] = IF IsPending(e.id) /\ outbox[e.id].key \in K
                            THEN Bumped(outbox[e.id]) ELSE outbox[e.id]
      BY <1>2, <2>1 DEF Matches
    <2>4. CASE IsPending(e.id) /\ outbox[e.id].key \in K
      BY <1>2, <1>3, <2>1, <2>2, <2>3, <2>4 DEF Matches, Unbumped, IsPending
    <2>5. CASE ~(IsPending(e.id) /\ outbox[e.id].key \in K)
      BY <1>2, <2>1, <2>2, <2>3, <2>5 DEF Matches, Unbumped, IsPending
    <2> QED BY <2>4, <2>5
  <1>6. EventsMatchRows'
    BY <1>4, <1>5 DEF EventsMatchRows
  <1>7. SyncReadsCurrent'
    <2> SUFFICES ASSUME NEW w \in Workers, pc[w] = "sync"
                 PROVE  /\ current[w].key \in Handled
                        /\ ver[w] <= Current(current[w].key)'
                        /\ Unbumped(current[w])' => ver[w] = Current(current[w].key)'
      BY DEF SyncReadsCurrent, Current
    <2>1. current[w] \in Held(w) /\ current[w].key \in Keys
      BY <1>1, EventFields DEF Held, TypeOK
    <2>2. /\ current[w].key \in Handled
          /\ ver[w] <= Current(current[w].key)
          /\ Unbumped(current[w]) => ver[w] = Current(current[w].key)
      BY DEF Inv, SyncReadsCurrent
    <2>3. /\ ver[w] \in Nat /\ Current(current[w].key) \in Nat
          /\ Current(current[w].key)' \in Nat
      BY <1>1, <2>1, OutboxAssumption DEF TypeOK, Current
    <2> QED BY <1>5, <2>1, <2>2, <2>3
  <1>8. DoneMeansSynced'
    <2> SUFFICES ASSUME NEW w \in Workers, pc[w] = "done",
                        current[w].key \in Handled, Unbumped(current[w])'
                 PROVE  synced[current[w].key] = Current(current[w].key)'
      BY DEF DoneMeansSynced, Current
    <2>1. current[w] \in Held(w) /\ current[w].key \in Keys
      BY <1>1, EventFields DEF Held, TypeOK
    <2> QED BY <1>5, <2>1 DEF Inv, DoneMeansSynced
  <1>9. NoFuture'
    <2> SUFFICES ASSUME NEW k \in Keys  PROVE synced[k] <= Current(k)'
      BY DEF NoFuture, Current
    <2>1. synced[k] \in Nat /\ Current(k) \in Nat /\ Current(k)' \in Nat
      BY <1>1, OutboxAssumption DEF TypeOK, Current
    <2>2. synced[k] <= Current(k)
      BY DEF Inv, NoFuture
    <2> QED BY <2>1, <2>2
  <1>10. NoLostUpdate'
    <2> SUFFICES ASSUME NEW k \in Handled, ~Pending(k)'
                 PROVE  synced[k] = Current(k)'
      BY DEF NoLostUpdate, Current
    <2>1. k \in Keys \ K /\ ~Pending(k)
      BY <1>2, OutboxAssumption
    <2> QED BY <2>1 DEF Inv, NoLostUpdate
  <1> QED BY <1>2, <1>6, <1>7, <1>8, <1>9, <1>10 DEF Inv

(* A claim brings events that match the rows just leased.                  *)
LEMMA ClaimStep ==
  ASSUME Inv, TypeOK', NEW w \in Workers, Claim(w)
  PROVE  Inv'
  <1> USE DEF SameRow, IsPending, flags
  <1>1. TypeOK /\ UNCHANGED <<db, lastId, synced, current, ver>>
    BY DEF Inv, Claim
  <1>2. PICK S \in ClaimChoices :
          /\ outbox' = AfterClaim(S)
          /\ batch' = [batch EXCEPT ![w] = {EventOf(r) : r \in S}]
          /\ Goto(w, IF S = {} THEN "loop" ELSE "batch")
    BY DEF Claim
  <1>3. S \subseteq Claimable
    BY ClaimChoicesClaimable
  <1>4. ASSUME NEW r \in Ids  PROVE SameRow(r)
    <2>1. outbox[r] \in Row
      BY <1>1 DEF TypeOK
    <2>2. outbox'[r] = IF r \in S THEN [outbox[r] EXCEPT !.leased = TRUE] ELSE outbox[r]
      BY <1>2 DEF AfterClaim
    <2> QED BY <2>1, <2>2 DEF Row
  <1>5. pc'[w] \notin Processing /\ \A v \in Workers \ {w} : pc'[v] = pc[v]
    BY <1>1, <1>2 DEF Goto, TypeOK
  <1>6. batch'[w] = {EventOf(r) : r \in S} /\ \A v \in Workers \ {w} : batch'[v] = batch[v]
    BY <1>1, <1>2 DEF TypeOK
  <1>7. EventsMatchRows'
    <2> SUFFICES ASSUME NEW v \in Workers, NEW e \in Held(v)'  PROVE Matches(e)'
      BY DEF EventsMatchRows
    <2>1. CASE v = w
      <3>1. PICK r \in S : e = EventOf(r)
        BY <1>5, <1>6, <2>1 DEF Held
      <3>2. r \in Ids /\ outbox[r].status = "pending" /\ outbox[r].seq \in Nat
        BY <1>1, <1>3 DEF Claimable, TypeOK, Row
      <3>3. r <= lastId
        BY <1>1, <3>2, OutboxAssumption DEF Inv, UnusedRows, TypeOK
      <3> QED BY <1>1, <1>4, <3>1, <3>2, <3>3 DEF Matches, EventOf
    <2>2. CASE v # w
      <3>1. e \in Held(v)
        BY <1>1, <1>5, <1>6, <2>2 DEF Held
      <3>2. Matches(e) /\ e.id \in Ids
        BY <1>1, <3>1, HeldEvents, EventFields DEF Inv, EventsMatchRows
      <3> QED BY <1>1, <1>4, <3>2 DEF Matches
    <2> QED BY <2>1, <2>2
  <1>8. \A v \in Workers : pc'[v] \in Processing => pc'[v] = pc[v]
    BY <1>5
  <1>9. \A v \in Workers : Unbumped(current[v])' => Unbumped(current[v])
    BY <1>1, <1>4, EventFields DEF Unbumped, TypeOK
  <1>10. SyncReadsCurrent' /\ DoneMeansSynced'
    BY <1>1, <1>8, <1>9 DEF Inv, SyncReadsCurrent, DoneMeansSynced, Current
  <1>11. OnePendingRow' /\ UnusedRows' /\ NoFuture' /\ NoLostUpdate'
    BY <1>1, <1>4 DEF Inv, OnePendingRow, UnusedRows, NoFuture, NoLostUpdate,
                      Pending, Current
  <1> QED BY <1>7, <1>10, <1>11 DEF Inv

(* Process reads the current version of the row.                           *)
LEMMA ProcessStep ==
  ASSUME Inv, TypeOK', NEW w \in Workers, Process(w)
  PROVE  Inv'
  <1> USE DEF table, flags
  <1>1. /\ TypeOK
        /\ UNCHANGED <<db, mirror, outbox, lastId, synced>>
    BY DEF Inv, Process
  <1>2. PICK e \in batch[w] :
          /\ batch' = [batch EXCEPT ![w] = @ \ {e}]
          /\ current' = [current EXCEPT ![w] = e]
          /\ \/ /\ e.key \in Handled
                /\ ver' = [ver EXCEPT ![w] = Current(e.key)]
                /\ Goto(w, "sync")
             \/ /\ e.key \notin Handled
                /\ Goto(w, "done")
                /\ UNCHANGED ver
    BY DEF Process
  <1>3. \A v \in Workers \ {w} : /\ pc'[v] = pc[v] /\ batch'[v] = batch[v]
                                 /\ current'[v] = current[v] /\ ver'[v] = ver[v]
    BY <1>1, <1>2 DEF Goto, TypeOK
  <1>4. current'[w] = e /\ batch'[w] = batch[w] \ {e} /\ e \in Held(w) /\ e \in Event
    BY <1>1, <1>2 DEF TypeOK, Held
  <1>5. \/ pc'[w] = "sync" /\ e.key \in Handled /\ ver'[w] = Current(e.key)
        \/ pc'[w] = "done" /\ e.key \notin Handled
    BY <1>1, <1>2 DEF Goto, TypeOK
  <1>6. Current(e.key) \in Nat
    BY <1>1, <1>4, EventFields, OutboxAssumption DEF TypeOK, Current
  <1>7. \A v \in Workers : Held(v)' \subseteq Held(v)
    BY <1>3, <1>4 DEF Held
  <1>8. EventsMatchRows'
    BY <1>1, <1>7 DEF Inv, EventsMatchRows, Matches
  <1>9. SyncReadsCurrent'
    <2> SUFFICES ASSUME NEW v \in Workers, pc'[v] = "sync"
                 PROVE  /\ current'[v].key \in Handled
                        /\ ver'[v] <= Current(current'[v].key)
                        /\ Unbumped(current'[v]) => ver'[v] = Current(current'[v].key)
      BY <1>1 DEF SyncReadsCurrent, Current, Unbumped, IsPending
    <2>1. CASE v = w
      BY <1>4, <1>5, <1>6, <2>1
    <2>2. CASE v # w
      BY <1>3, <2>2 DEF Inv, SyncReadsCurrent
    <2> QED BY <2>1, <2>2
  <1>10. DoneMeansSynced'
    <2> SUFFICES ASSUME NEW v \in Workers, pc'[v] = "done",
                        current'[v].key \in Handled, Unbumped(current'[v])
                 PROVE  synced[current'[v].key] = Current(current'[v].key)
      BY <1>1 DEF DoneMeansSynced, Current, Unbumped, IsPending
    <2>1. v # w
      BY <1>4, <1>5
    <2> QED BY <1>3, <2>1 DEF Inv, DoneMeansSynced
  <1>11. OnePendingRow' /\ UnusedRows' /\ NoFuture' /\ NoLostUpdate'
    BY <1>1 DEF Inv, OnePendingRow, UnusedRows, NoFuture, NoLostUpdate,
                Pending, Current, IsPending
  <1> QED BY <1>8, <1>9, <1>10, <1>11 DEF Inv

(* A sync that returns has brought what it read to the mirror.             *)
LEMMA SyncReturnsStep ==
  ASSUME Inv, TypeOK', NEW w \in Workers, SyncReturns(w)
  PROVE  Inv'
  <1> USE DEF table, work, flags
  <1> DEFINE k == current[w].key
  <1>1. /\ TypeOK /\ pc[w] = "sync"
        /\ UNCHANGED <<db, outbox, lastId, batch, current, ver>>
        /\ pc' = [pc EXCEPT ![w] = "done"]
        /\ synced' = [synced EXCEPT ![k] = Larger(@, ver[w])]
    BY DEF Inv, SyncReturns, Goto
  <1>2. k \in Keys /\ k \in Handled /\ ver[w] <= Current(k)
        /\ (Unbumped(current[w]) => ver[w] = Current(k))
    BY <1>1, EventFields DEF TypeOK, Inv, SyncReadsCurrent
  <1>3. synced[k] \in Nat /\ ver[w] \in Nat /\ Current(k) \in Nat /\ synced[k] <= Current(k)
    BY <1>1, <1>2, OutboxAssumption DEF TypeOK, Current, Inv, NoFuture
  <1>4. /\ synced'[k] <= Current(k)
        /\ Unbumped(current[w]) => synced'[k] = Current(k)
        /\ synced[k] = Current(k) => synced'[k] = Current(k)
    BY <1>1, <1>2, <1>3 DEF Larger, TypeOK
  <1>5. \A l \in Keys \ {k} : synced'[l] = synced[l]
    BY <1>1 DEF TypeOK
  <1>6. pc'[w] = "done" /\ \A v \in Workers \ {w} : pc'[v] = pc[v]
    BY <1>1 DEF TypeOK
  <1>7. \A v \in Workers : Held(v)' = Held(v)
    BY <1>1, <1>6 DEF Held
  <1>8. EventsMatchRows'
    BY <1>1, <1>7 DEF Inv, EventsMatchRows, Matches
  <1>9. SyncReadsCurrent'
    BY <1>1, <1>6 DEF Inv, SyncReadsCurrent, Current, Unbumped, IsPending
  <1>10. DoneMeansSynced'
    <2> SUFFICES ASSUME NEW v \in Workers, pc'[v] = "done",
                        current[v].key \in Handled, Unbumped(current[v])
                 PROVE  synced'[current[v].key] = Current(current[v].key)
      BY <1>1 DEF DoneMeansSynced, Current, Unbumped, IsPending
    <2>1. CASE v = w
      BY <1>4, <2>1
    <2>2. CASE v # w
      <3>1. synced[current[v].key] = Current(current[v].key)
        BY <1>6, <2>2 DEF Inv, DoneMeansSynced
      <3>2. current[v].key \in Keys
        BY <1>1, EventFields DEF TypeOK
      <3> QED BY <1>4, <1>5, <3>1, <3>2
    <2> QED BY <2>1, <2>2
  <1>11. NoFuture'
    BY <1>1, <1>4, <1>5 DEF Inv, NoFuture, Current
  <1>12. NoLostUpdate'
    <2> SUFFICES ASSUME NEW l \in Handled, ~Pending(l)
                 PROVE  synced'[l] = Current(l)
      BY <1>1 DEF NoLostUpdate, Current, Pending, IsPending
    <2>1. synced[l] = Current(l) /\ l \in Keys
      BY OutboxAssumption DEF Inv, NoLostUpdate
    <2> QED BY <1>4, <1>5, <2>1
  <1>13. OnePendingRow' /\ UnusedRows'
    BY <1>1 DEF Inv, OnePendingRow, UnusedRows, IsPending
  <1> QED BY <1>8, <1>9, <1>10, <1>11, <1>12, <1>13 DEF Inv

(* Statements of the worker that only give a row back.                     *)
LEMMA ReleasedRows ==
  ASSUME TypeOK, NEW e \in Event, NEW r \in Ids,
         outbox' = AfterRequeue(e) \/ outbox' = AfterFailure(e) \/ UNCHANGED outbox
  PROVE  SameRow(r)
  <1>1. outbox[r] \in Row /\ e.id \in Ids
    BY EventFields DEF TypeOK
  <1>2. \/ outbox'[r] = outbox[r]
        \/ outbox'[r] = [outbox[r] EXCEPT !.leased = FALSE, !.due = TRUE]
        \/ outbox'[r] = [outbox[r] EXCEPT !.leased = FALSE, !.due = FALSE]
    BY <1>1 DEF AfterRequeue, AfterFailure, TypeOK
  <1> QED BY <1>1, <1>2 DEF SameRow, Row

LEMMA LeasedRows ==
  ASSUME TypeOK, NEW S \in ClaimChoices, NEW r \in Ids, outbox' = AfterClaim(S)
  PROVE  SameRow(r)
  <1>1. outbox[r] \in Row
    BY DEF TypeOK
  <1>2. outbox'[r] = IF r \in S THEN [outbox[r] EXCEPT !.leased = TRUE] ELSE outbox[r]
    BY DEF AfterClaim
  <1> QED BY <1>1, <1>2 DEF SameRow, Row

LEMMA ContinueQuiet ==
  ASSUME TypeOK, NEW w \in Workers, Continue(w)
  PROVE  \A v \in Workers : Quiet(v)
  BY DEF TypeOK, Continue, Goto, Quiet, Held

LEMMA ForgetQuiet ==
  ASSUME TypeOK, NEW w \in Workers, Forget(w),
         pc' \in {[pc EXCEPT ![w] = place] : place \in {"down", "idle"}}
  PROVE  \A v \in Workers : Quiet(v)
  BY DEF TypeOK, Forget, Quiet, Held

LEMMA IdleMoveQuiet ==
  ASSUME TypeOK, NEW w \in Workers, UNCHANGED work,
         \/ UNCHANGED pc
         \/ /\ pc[w] \notin {"sync", "done", "requeue", "failed"}
            /\ pc' \in {[pc EXCEPT ![w] = place] : place \in {"idle", "claim", "loop"}}
         \/ /\ pc[w] \in Processing
            /\ pc' \in {[pc EXCEPT ![w] = place] : place \in {"requeue", "failed"}}
  PROVE  \A v \in Workers : Quiet(v)
  BY DEF TypeOK, Quiet, Held, work

LEMMA NextInv == Inv /\ [Next]_vars => Inv'
  <1> SUFFICES ASSUME Inv, [Next]_vars PROVE Inv'
    OBVIOUS
  <1>0. TypeOK /\ TypeOK'
    BY NextType DEF Inv
  <1> USE DEF table, flags
  <1>same. ASSUME UNCHANGED outbox  PROVE \A r \in Ids : SameRow(r)
    BY <1>same DEF SameRow
  <1>held. ASSUME NEW w \in Workers  PROVE current[w] \in Event
    BY <1>0 DEF TypeOK
  <1>1. ASSUME NEW a \in Aggregates, Change(a)  PROVE Inv'
    <2>1. KeysOf(a) \in SUBSET Keys
      BY DEF KeysOf
    <2>2. /\ \A k \in Keys : Current(k) <= Current(k)'
          /\ \A k \in Keys \ KeysOf(a) : Current(k)' = Current(k)
      BY <1>0, <1>1, OutboxAssumption DEF Change, Current, KeysOf, TypeOK
    <2> QED BY <1>0, <1>1, <2>1, <2>2, EnqueueStep DEF Change, work
  <1>2. ASSUME NEW k \in Keys, Resync(k)  PROVE Inv'
    <2>1. /\ \A l \in Keys : Current(l) <= Current(l)'
          /\ \A l \in Keys : Current(l)' = Current(l)
      BY <1>0, <1>2, OutboxAssumption DEF Resync, Current, TypeOK
    <2> QED BY <1>0, <1>2, <2>1, EnqueueStep DEF Resync, work
  <1>3. ASSUME NEW r \in Ids, BackoffElapses(r) \/ LeaseExpires(r)  PROVE Inv'
    <2>1. ASSUME NEW q \in Ids  PROVE SameRow(q)
      <3>1. outbox[q] \in Row
        BY <1>0 DEF TypeOK
      <3>2. \/ outbox'[q] = outbox[q]
            \/ outbox'[q] = [outbox[q] EXCEPT !.due = TRUE]
            \/ outbox'[q] = [outbox[q] EXCEPT !.leased = FALSE]
        BY <1>0, <1>3 DEF BackoffElapses, LeaseExpires, TypeOK
      <3> QED BY <3>1, <3>2 DEF SameRow, Row
    <2>2. \A v \in Workers : Quiet(v)
      BY <1>3 DEF BackoffElapses, LeaseExpires, Quiet, Held, work
    <2> QED BY <1>0, <1>3, <2>1, <2>2, QuietStep DEF BackoffElapses, LeaseExpires
  <1>4. ASSUME NEW r \in Ids, PurgeProcessed(r)  PROVE Inv'
    BY <1>0, <1>4, PurgeStep
  <1>5. ASSUME NEW w \in Workers,
               \/ Start(w) \/ Stop(w) \/ Listen(w) \/ ListenerLost(w)
               \/ OnNotification(w) \/ Poll(w)
               \/ ClaimStopped(w) \/ LoopEnd(w) \/ SyncThrows(w)
        PROVE  Inv'
    <2>1. /\ UNCHANGED <<db, outbox, lastId, synced, work>>
          /\ \/ UNCHANGED pc
             \/ /\ pc[w] \notin {"sync", "done", "requeue", "failed"}
                /\ pc' \in {[pc EXCEPT ![w] = place] : place \in {"idle", "claim", "loop"}}
             \/ /\ pc[w] \in Processing
                /\ pc' \in {[pc EXCEPT ![w] = place] : place \in {"requeue", "failed"}}
      <3>1. CASE Start(w) \/ Stop(w) \/ Listen(w) \/ ListenerLost(w)
        BY <3>1 DEF Start, Stop, Listen, ListenerLost, Goto
      <3>2. CASE OnNotification(w) \/ Poll(w)
        BY <3>2 DEF OnNotification, Poll, Kick, Goto
      <3>3. CASE ClaimStopped(w) \/ LoopEnd(w)
        BY <3>3 DEF ClaimStopped, LoopEnd, EndDrain, Goto
      <3>4. CASE SyncThrows(w)
        BY <3>4 DEF SyncThrows, Goto
      <3> QED BY <1>5, <3>1, <3>2, <3>3, <3>4
    <2>2. \A v \in Workers : Quiet(v)
      BY <1>0, <2>1, IdleMoveQuiet
    <2> QED BY <1>0, <1>same, <2>1, <2>2, QuietStep
  <1>6. ASSUME NEW w \in Workers, Exit(w)  PROVE Inv'
    <2>1. \A v \in Workers : Quiet(v)
      BY <1>0, <1>6, ForgetQuiet DEF Exit, Goto
    <2> QED BY <1>0, <1>6, <1>same, <2>1, QuietStep DEF Exit
  <1>7. ASSUME NEW w \in Workers, Claim(w)  PROVE Inv'
    BY <1>0, <1>7, ClaimStep
  <1>8. ASSUME NEW w \in Workers, Process(w)  PROVE Inv'
    BY <1>0, <1>8, ProcessStep
  <1>9. ASSUME NEW w \in Workers, SyncReturns(w)  PROVE Inv'
    BY <1>0, <1>9, SyncReturnsStep
  <1>10. ASSUME NEW w \in Workers, MarkDone(w)  PROVE Inv'
    <2>1. CASE DoneMatches(current[w]) /\ outbox' = AfterDone(current[w]) /\ Continue(w)
      BY <1>0, <1>10, <2>1, ContinueQuiet, DoneStep DEF MarkDone
    <2>2. CASE Goto(w, "requeue") /\ UNCHANGED <<outbox, work>>
      <3>1. \A v \in Workers : Quiet(v)
        BY <1>0, <1>10, <2>2, IdleMoveQuiet DEF MarkDone, Goto
      <3> QED BY <1>0, <1>10, <1>same, <2>2, <3>1, QuietStep DEF MarkDone
    <2> QED BY <1>10, <2>1, <2>2 DEF MarkDone
  <1>11. ASSUME NEW w \in Workers, Requeue(w) \/ MarkFailed(w)  PROVE Inv'
    <2>1. \A r \in Ids : SameRow(r)
      BY <1>0, <1>11, <1>held, ReleasedRows DEF Requeue, MarkFailed
    <2>2. \A v \in Workers : Quiet(v)
      BY <1>0, <1>11, ContinueQuiet DEF Requeue, MarkFailed
    <2> QED BY <1>0, <1>11, <2>1, <2>2, QuietStep DEF Requeue, MarkFailed
  <1>12. ASSUME NEW w \in Workers, DrainFails(w)  PROVE Inv'
    <2>1. \A v \in Workers : Quiet(v)
      BY <1>0, <1>12, ForgetQuiet DEF DrainFails, EndDrain, Goto
    <2>2. UNCHANGED <<db, lastId, synced>>
      BY <1>12 DEF DrainFails
    <2>3. CASE UNCHANGED outbox
      BY <1>0, <1>same, <2>1, <2>2, <2>3, QuietStep
    <2>4. CASE \E S \in ClaimChoices : outbox' = AfterClaim(S)
      BY <1>0, <2>1, <2>2, <2>4, LeasedRows, QuietStep
    <2>5. CASE pc[w] = "done" /\ DoneMatches(current[w]) /\ outbox' = AfterDone(current[w])
      BY <1>0, <2>1, <2>2, <2>5, DoneStep
    <2>6. CASE outbox' = AfterRequeue(current[w])
      <3>1. \A r \in Ids : SameRow(r)
        BY <1>0, <1>held, <2>6, ReleasedRows
      <3> QED BY <1>0, <2>1, <2>2, <3>1, QuietStep
    <2> QED BY <1>12, <2>3, <2>4, <2>5, <2>6 DEF DrainFails
  <1>13. CASE UNCHANGED vars
    <2>1. \A v \in Workers : Quiet(v)
      BY <1>13 DEF vars, work, Quiet, Held
    <2> QED BY <1>0, <1>13, <1>same, <2>1, QuietStep DEF vars
  <1> QED
    BY <1>1, <1>2, <1>3, <1>4, <1>5, <1>6, <1>7, <1>8, <1>9, <1>10, <1>11,
       <1>12, <1>13
    DEF Next, Environment, Worker, Lifecycle, Drain

LEMMA InitInv == Init => Inv
  <1> SUFFICES ASSUME Init PROVE Inv
    OBVIOUS
  <1>1. TypeOK
    BY BlankTypes, OutboxAssumption DEF Init, TypeOK
  <1>2. \A r \in Ids : outbox[r].status = "absent"
    BY DEF Init, BlankRow
  <1>3. \A w \in Workers : Held(w) = {}
    BY DEF Init, Held
  <1>4. \A k \in Keys : Current(k) = 0 /\ synced[k] = 0
    BY OutboxAssumption DEF Init, Current
  <1>5. OnePendingRow /\ UnusedRows
    BY <1>2 DEF OnePendingRow, UnusedRows, IsPending
  <1>6. EventsMatchRows /\ SyncReadsCurrent /\ DoneMeansSynced
    BY <1>3 DEF Init, EventsMatchRows, SyncReadsCurrent, DoneMeansSynced
  <1>7. NoFuture /\ NoLostUpdate
    BY <1>4, OutboxAssumption DEF NoFuture, NoLostUpdate
  <1> QED BY <1>1, <1>5, <1>6, <1>7 DEF Inv

THEOREM Invariance == Spec => []Inv
  BY InitInv, NextInv, PTL DEF Spec

\* Whatever leases, crashes and errors do, a key with nothing pending has had
\* its current version read by a completed sync: no update is ever lost.
THEOREM NoUpdateIsLost == Spec => []NoLostUpdate
  <1>1. Inv => NoLostUpdate
    BY DEF Inv
  <1> QED BY <1>1, Invariance, PTL

\* There is never a second pending row for a (target, aggregate).
THEOREM PendingRowIsUnique == Spec => []OnePendingRow
  <1>1. Inv => OnePendingRow
    BY DEF Inv
  <1> QED BY <1>1, Invariance, PTL

-----------------------------------------------------------------------------
(* The outbox implements its contract.  Under the refinement mapping a key  *)
(* is dirty while it has a pending row.                                     *)

\* A step that leaves db, synced and what is pending alone is a stutter.
LEMMA StutterStep ==
  ASSUME UNCHANGED <<db, synced>>, \A k \in Keys : Pending(k)' <=> Pending(k)
  PROVE  UNCHANGED Contract!vars
  <1>1. [k \in Keys |-> Pending(k)]' = [k \in Keys |-> Pending(k)]
    BY DEF Pending, IsPending
  <1> QED BY <1>1 DEF Contract!vars

\* So does one that moves only leases and due dates.
LEMMA SameRowsStep ==
  ASSUME UNCHANGED <<db, synced>>, \A r \in Ids : SameRow(r)
  PROVE  UNCHANGED Contract!vars
  BY StutterStep DEF SameRow, Pending, IsPending

\* An enqueue makes exactly its keys dirty.
LEMMA EnqueueDirties ==
  ASSUME Inv, NEW K \in SUBSET Keys, Enqueue(K)
  PROVE  \A k \in Keys : Pending(k)' <=> Pending(k) \/ k \in K
  BY EnqueueTable DEF Inv

\* A row that is marked done either was the one pending row of its key, which
\* is settled with its current version synced, or was processed before.
LEMMA DoneRefines ==
  ASSUME Inv, UNCHANGED <<db, synced>>, NEW w \in Workers, pc[w] = "done",
         DoneMatches(current[w]), outbox' = AfterDone(current[w])
  PROVE  [Contract!Next]_(Contract!vars)
  <1> DEFINE e == current[w]
  <1>k. PICK k \in Keys : k = e.key
    BY EventFields DEF Inv, TypeOK
  <1>1. TypeOK /\ e.id \in Ids /\ k = e.key /\ e \in Held(w)
    BY <1>k, EventFields DEF Inv, TypeOK, Held
  <1>2. outbox'[e.id].status = "processed" /\ \A r \in Ids \ {e.id} : outbox'[r] = outbox[r]
    <2>1. outbox[e.id] \in Row
      BY <1>1 DEF TypeOK
    <2>2. outbox'[e.id] = [outbox[e.id] EXCEPT !.status = "processed", !.leased = FALSE]
      BY <1>1 DEF AfterDone, TypeOK
    <2>3. \A r \in Ids \ {e.id} : outbox'[r] = outbox[r]
      BY <1>1 DEF AfterDone, TypeOK
    <2> QED BY <2>1, <2>2, <2>3 DEF Row
  <1>3. CASE ~IsPending(e.id)
    <2>1. \A l \in Keys : Pending(l)' <=> Pending(l)
      BY <1>1, <1>2, <1>3 DEF Pending, IsPending
    <2> QED BY <2>1, StutterStep
  <1>4. CASE IsPending(e.id)
    <2>1. Unbumped(e) /\ outbox[e.id].key = k
      BY <1>1, <1>4 DEF DoneMatches, Unbumped, IsPending, Inv, EventsMatchRows, Matches
    <2>2. ~Pending(k)'
      <3>1. \A r \in Ids : IsPending(r) /\ outbox[r].key = k => r = e.id
        BY <1>1, <1>4, <2>1 DEF Inv, OnePendingRow
      <3> QED BY <1>2, <3>1 DEF Pending, IsPending
    <2>3. \A l \in Keys \ {k} : Pending(l)' <=> Pending(l)
      BY <1>1, <1>2, <2>1 DEF Pending, IsPending
    <2>4. k \in Handled => synced[k] = db[AggregateOf[k]]
      BY <1>1, <2>1 DEF Inv, DoneMeansSynced, Current
    <2>5. [l \in Keys |-> Pending(l)]' = [[l \in Keys |-> Pending(l)] EXCEPT ![k] = FALSE]
      <3>1. \A l \in Keys : Pending(l)' <=> IF l = k THEN FALSE ELSE Pending(l)
        BY <2>2, <2>3
      <3> QED BY <3>1 DEF Pending, IsPending
    <2>6. Contract!Settle(k)
      BY <2>4, <2>5 DEF Contract!Settle
    <2> QED BY <1>1, <2>6 DEF Contract!Next
  <1> QED BY <1>3, <1>4

\* A change makes the keys of its row dirty.
LEMMA ChangeRefines ==
  ASSUME Inv, NEW a \in Aggregates, Change(a)
  PROVE  Contract!Change(a)
  <1>1. KeysOf(a) \in SUBSET Keys /\ Enqueue(KeysOf(a))
    BY DEF KeysOf, Change
  <1>2. \A k \in Keys : Pending(k)' <=> Pending(k) \/ AggregateOf[k] = a
    BY <1>1, EnqueueDirties DEF KeysOf
  <1>3. [k \in Keys |-> Pending(k)]'
          = [k \in Keys |-> [l \in Keys |-> Pending(l)][k] \/ AggregateOf[k] = a]
    BY <1>2 DEF Pending, IsPending
  <1>4. db' = [db EXCEPT ![a] = @ + 1] /\ UNCHANGED synced
    BY DEF Change
  <1> QED BY <1>3, <1>4 DEF Contract!Change

\* A resync requests another look at its key.
LEMMA ResyncRefines ==
  ASSUME Inv, NEW k \in Keys, Resync(k)
  PROVE  Contract!Request(k)
  <1>1. \A l \in Keys : Pending(l)' <=> Pending(l) \/ l = k
    BY EnqueueDirties DEF Resync
  <1>2. [l \in Keys |-> Pending(l)]' = [[l \in Keys |-> Pending(l)] EXCEPT ![k] = TRUE]
    BY <1>1 DEF Pending, IsPending
  <1>3. UNCHANGED <<db, synced>>
    BY DEF Resync
  <1> QED BY <1>2, <1>3 DEF Contract!Request

\* A sync that returns has read a version no older than the last one that did,
\* or leaves what is synced as it is.
LEMMA SyncRefines ==
  ASSUME Inv, NEW w \in Workers, SyncReturns(w)
  PROVE  \E k \in Keys : Contract!Sync(k)
  <1> DEFINE k == current[w].key
             v == Larger(synced[k], ver[w])
  <1>1. TypeOK /\ pc[w] = "sync" /\ UNCHANGED <<db, outbox>>
        /\ synced' = [synced EXCEPT ![k] = v]
    BY DEF Inv, SyncReturns, table
  <1>2. k \in Keys /\ ver[w] <= Current(k) /\ synced[k] <= Current(k)
    BY <1>1, EventFields DEF TypeOK, Inv, SyncReadsCurrent, NoFuture
  <1>3. synced[k] \in Nat /\ ver[w] \in Nat /\ Current(k) \in Nat
    BY <1>1, <1>2, OutboxAssumption DEF TypeOK, Current
  <1>4. v \in synced[k]..db[AggregateOf[k]]
    BY <1>2, <1>3 DEF Larger, Current
  <1>5. [l \in Keys |-> Pending(l)]' = [l \in Keys |-> Pending(l)]
    BY <1>1 DEF Pending, IsPending
  <1> HIDE DEF v
  <1>6. Contract!Sync(k)
    BY <1>1, <1>4, <1>5 DEF Contract!Sync
  <1> QED BY <1>2, <1>6

\* Every step of the outbox is a step of the contract or a stutter.
LEMMA NextRefines == Inv /\ [Next]_vars => [Contract!Next]_(Contract!vars)
  <1> SUFFICES ASSUME Inv, [Next]_vars PROVE [Contract!Next]_(Contract!vars)
    OBVIOUS
  <1> USE DEF table, flags
  <1>0. TypeOK
    BY DEF Inv
  <1>same. ASSUME UNCHANGED outbox  PROVE \A r \in Ids : SameRow(r)
    BY <1>same DEF SameRow
  <1>held. ASSUME NEW w \in Workers  PROVE current[w] \in Event
    BY <1>0 DEF TypeOK
  <1>1. ASSUME NEW a \in Aggregates, Change(a)  PROVE Contract!Next
    BY <1>1, ChangeRefines DEF Contract!Next
  <1>2. ASSUME NEW k \in Keys, Resync(k)  PROVE Contract!Next
    BY <1>2, ResyncRefines DEF Contract!Next
  <1>3. ASSUME NEW r \in Ids, BackoffElapses(r) \/ LeaseExpires(r)
        PROVE  UNCHANGED Contract!vars
    <2>1. ASSUME NEW q \in Ids  PROVE SameRow(q)
      <3>1. outbox[q] \in Row
        BY <1>0 DEF TypeOK
      <3>2. \/ outbox'[q] = outbox[q]
            \/ outbox'[q] = [outbox[q] EXCEPT !.due = TRUE]
            \/ outbox'[q] = [outbox[q] EXCEPT !.leased = FALSE]
        BY <1>0, <1>3 DEF BackoffElapses, LeaseExpires, TypeOK
      <3> QED BY <3>1, <3>2 DEF SameRow, Row
    <2> QED BY <1>3, <2>1, SameRowsStep DEF BackoffElapses, LeaseExpires
  <1>4. ASSUME NEW r \in Ids, PurgeProcessed(r)  PROVE UNCHANGED Contract!vars
    <2>1. outbox'[r].status = "absent" /\ \A q \in Ids \ {r} : outbox'[q] = outbox[q]
      BY <1>0, <1>4 DEF PurgeProcessed, TypeOK, BlankRow
    <2>2. \A k \in Keys : Pending(k)' <=> Pending(k)
      BY <1>4, <2>1 DEF PurgeProcessed, Pending, IsPending
    <2> QED BY <1>4, <2>2, StutterStep DEF PurgeProcessed
  <1>5. ASSUME NEW w \in Workers,
               \/ Lifecycle(w) \/ OnNotification(w) \/ Poll(w)
               \/ ClaimStopped(w) \/ LoopEnd(w) \/ Process(w) \/ SyncThrows(w)
        PROVE  UNCHANGED Contract!vars
    <2>1. UNCHANGED <<db, outbox, synced>>
      BY <1>5 DEF Lifecycle, Start, Stop, Exit, Listen, ListenerLost, OnNotification, Poll,
                  ClaimStopped, LoopEnd, Process, SyncThrows
    <2> QED BY <1>same, <2>1, SameRowsStep
  <1>6. ASSUME NEW w \in Workers, Claim(w)  PROVE UNCHANGED Contract!vars
    BY <1>0, <1>6, LeasedRows, SameRowsStep DEF Claim
  <1>7. ASSUME NEW w \in Workers, SyncReturns(w)  PROVE Contract!Next
    BY <1>7, SyncRefines DEF Contract!Next
  <1>8. ASSUME NEW w \in Workers, MarkDone(w)  PROVE [Contract!Next]_(Contract!vars)
    <2>1. CASE DoneMatches(current[w]) /\ outbox' = AfterDone(current[w])
      BY <1>8, <2>1, DoneRefines DEF MarkDone
    <2>2. CASE UNCHANGED outbox
      BY <1>8, <1>same, <2>2, SameRowsStep DEF MarkDone
    <2> QED BY <1>8, <2>1, <2>2 DEF MarkDone
  <1>9. ASSUME NEW w \in Workers, Requeue(w) \/ MarkFailed(w)
        PROVE  UNCHANGED Contract!vars
    <2>1. \A r \in Ids : SameRow(r)
      BY <1>0, <1>9, <1>held, ReleasedRows DEF Requeue, MarkFailed
    <2> QED BY <1>9, <2>1, SameRowsStep DEF Requeue, MarkFailed
  <1>10. ASSUME NEW w \in Workers, DrainFails(w)  PROVE [Contract!Next]_(Contract!vars)
    <2>1. UNCHANGED <<db, synced>>
      BY <1>10 DEF DrainFails
    <2>2. CASE UNCHANGED outbox
      BY <1>same, <2>1, <2>2, SameRowsStep
    <2>3. CASE \E S \in ClaimChoices : outbox' = AfterClaim(S)
      BY <1>0, <2>1, <2>3, LeasedRows, SameRowsStep
    <2>4. CASE pc[w] = "done" /\ DoneMatches(current[w]) /\ outbox' = AfterDone(current[w])
      BY <2>1, <2>4, DoneRefines
    <2>5. CASE outbox' = AfterRequeue(current[w])
      <3>1. \A r \in Ids : SameRow(r)
        BY <1>0, <1>held, <2>5, ReleasedRows
      <3> QED BY <2>1, <3>1, SameRowsStep
    <2> QED BY <1>10, <2>2, <2>3, <2>4, <2>5 DEF DrainFails
  <1>11. CASE UNCHANGED vars
    BY <1>same, <1>11, SameRowsStep DEF vars
  <1> QED
    BY <1>1, <1>2, <1>3, <1>4, <1>5, <1>6, <1>7, <1>8, <1>9, <1>10, <1>11
    DEF Next, Environment, Worker, Drain

\* The outbox keeps its contract under every fault, leases that end under a live
\* worker included: a key is settled only when a completed sync has read its
\* current version (the header of outbox.repository.ts).
THEOREM OutboxImplementsContract == Spec => ImplementsContract
  <1>1. Init => Contract!Init
    <2> SUFFICES ASSUME Init PROVE Contract!Init
      OBVIOUS
    <2>1. \A k \in Keys : ~Pending(k)
      BY DEF Init, Pending, IsPending, BlankRow
    <2>2. [k \in Keys |-> Pending(k)] = [k \in Keys |-> FALSE]
      BY <2>1 DEF Pending
    <2> QED BY <2>2 DEF Init, Contract!Init
  <1> QED BY <1>1, Invariance, NextRefines, PTL DEF Spec, ImplementsContract, Contract!Spec

-----------------------------------------------------------------------------
(* While leases outlive the work under them, a worker is alone with what it *)
(* holds.                                                                   *)

\* LEASE_SECONDS is long enough: no lease ends under a worker that is alive.
LeasesHold == "lease" \notin Faults

\* The row of an event in memory is pending and leased,
HeldIsLeased ==
  \A w \in Workers : \A e \in Held(w) : IsPending(e.id) /\ outbox[e.id].leased

\* no other event in anybody's memory is about it,
HeldOnce ==
  \A v, w \in Workers : \A d \in Held(v), e \in Held(w) : d.id = e.id => v = w /\ d = e

\* and the event a worker is at is no longer in its batch.
CurrentApart == \A w \in Workers : pc[w] \in Processing => current[w] \notin batch[w]

\* A mirror shows no version that is not there yet,
MirrorNotAhead == \A k \in Keys : mirror[k] <= Current(k)

\* none newer than what the sync under way has read,
SyncGoesForward == \A w \in Workers : pc[w] = "sync" => mirror[current[w].key] <= ver[w]

\* the current one once a sync that read it has returned,
DoneMeansShown ==
  \A w \in Workers :
    /\ pc[w] = "done"
    /\ current[w].key \in Handled
    /\ Unbumped(current[w])
    => mirror[current[w].key] = Current(current[w].key)

\* and therefore when its key is settled.
ShownWhenSettled == \A k \in Handled : ~Pending(k) => mirror[k] = Current(k)

Leased == HeldIsLeased /\ HeldOnce /\ CurrentApart
Shown == MirrorNotAhead /\ SyncGoesForward /\ DoneMeansShown /\ ShownWhenSettled
LInv == Inv /\ Leased /\ Shown

\* Two workers hold no events of the same key: there is one pending row for it.
LEMMA OneHolder ==
  ASSUME Inv, Leased, NEW v \in Workers, NEW w \in Workers,
         NEW d \in Held(v), NEW e \in Held(w), d.key = e.key
  PROVE  v = w /\ d = e
  <1>1. /\ d.id \in Ids /\ e.id \in Ids
        /\ IsPending(d.id) /\ outbox[d.id].key = d.key
        /\ IsPending(e.id) /\ outbox[e.id].key = e.key
    BY HeldEvents, EventFields
       DEF Inv, EventsMatchRows, Matches, Leased, HeldIsLeased, IsPending
  <1>2. d.id = e.id
    BY <1>1 DEF Inv, OnePendingRow
  <1> QED BY <1>2 DEF Leased, HeldOnce

\* A step that takes up nothing new and leaves what is still held pending and
\* leased.
LEMMA KeepsLeases ==
  ASSUME Leased,
         \A v \in Workers : Held(v)' \subseteq Held(v),
         \A v \in Workers : pc'[v] \in Processing => current'[v] \notin batch'[v],
         \A v \in Workers : \A e \in Held(v)' : IsPending(e.id)' /\ outbox'[e.id].leased
  PROVE  Leased'
  BY DEF Leased, HeldIsLeased, HeldOnce, CurrentApart

\* What a worker gives back is held by nobody afterwards.
LEMMA ReleaseKeepsLeases ==
  ASSUME TypeOK, Leased, NEW w \in Workers, Continue(w) \/ (Forget(w) /\ EndDrain(w)),
         pc[w] \in Processing,
         \A r \in Ids \ {current[w].id} : outbox'[r] = outbox[r]
  PROVE  Leased'
  <1>1. \A v \in Workers \ {w} : Held(v)' = Held(v)
    BY DEF Continue, Forget, EndDrain, Goto, Held, TypeOK
  <1>2. Held(w)' \subseteq batch[w] /\ pc'[w] \notin Processing
    BY DEF Continue, Forget, EndDrain, Goto, Held, TypeOK
  <1>3. \A v \in Workers \ {w} : pc'[v] = pc[v] /\ current'[v] = current[v] /\ batch'[v] = batch[v]
    BY DEF Continue, Forget, EndDrain, Goto, TypeOK
  <1>4. current[w] \in Held(w) /\ current[w] \notin batch[w] /\ batch[w] \subseteq Held(w)
    BY DEF Leased, CurrentApart, Held
  <1>5. ASSUME NEW v \in Workers, NEW e \in Held(v)'
        PROVE  e \in Held(v) /\ e.id \in Ids /\ e.id # current[w].id
    <2>1. e \in Held(v) /\ (v = w => e \in batch[w])
      BY <1>1, <1>2, <1>4, <1>5
    <2>2. e.id \in Ids
      BY <2>1, HeldEvents, EventFields
    <2> QED BY <1>4, <2>1, <2>2 DEF Leased, HeldOnce
  <1>6. \A v \in Workers : \A e \in Held(v)' : IsPending(e.id)' /\ outbox'[e.id].leased
    BY <1>5 DEF Leased, HeldIsLeased, IsPending
  <1>7. \A v \in Workers : pc'[v] \in Processing => current'[v] \notin batch'[v]
    BY <1>2, <1>3 DEF Leased, CurrentApart
  <1> QED BY <1>5, <1>6, <1>7, KeepsLeases

\* A claim takes rows that are not leased, which nobody holds.
LEMMA ClaimKeepsLeases ==
  ASSUME TypeOK, Leased, NEW w \in Workers, Claim(w)
  PROVE  Leased'
  <1>1. PICK S \in ClaimChoices :
          /\ outbox' = AfterClaim(S)
          /\ batch' = [batch EXCEPT ![w] = {EventOf(r) : r \in S}]
          /\ Goto(w, IF S = {} THEN "loop" ELSE "batch")
    BY DEF Claim
  <1>2. UNCHANGED current
    BY DEF Claim
  <1>3. \A r \in S : r \in Ids /\ IsPending(r) /\ ~outbox[r].leased
    BY ClaimChoicesClaimable DEF Claimable
  <1>4. ASSUME NEW r \in Ids
        PROVE  /\ outbox'[r].status = outbox[r].status
               /\ outbox[r].leased \/ r \in S => outbox'[r].leased
    <2>1. outbox[r] \in Row
      BY DEF TypeOK
    <2>2. outbox'[r] = IF r \in S THEN [outbox[r] EXCEPT !.leased = TRUE] ELSE outbox[r]
      BY <1>1 DEF AfterClaim
    <2> QED BY <2>1, <2>2 DEF Row
  <1>5. Held(w)' = {EventOf(r) : r \in S} /\ pc'[w] \notin Processing
    BY <1>1 DEF Goto, Held, TypeOK
  <1>6. \A v \in Workers \ {w} :
          /\ Held(v)' = Held(v)
          /\ pc'[v] = pc[v] /\ current'[v] = current[v] /\ batch'[v] = batch[v]
    BY <1>1, <1>2 DEF Goto, Held, TypeOK
  <1>7. \A e \in Held(w)' : e.id \in S /\ e = EventOf(e.id)
    BY <1>5 DEF EventOf
  <1>8. \A v \in Workers \ {w} : \A e \in Held(v)' :
          e.id \in Ids /\ IsPending(e.id) /\ outbox[e.id].leased
    BY <1>6, HeldEvents, EventFields DEF Leased, HeldIsLeased
  <1>9. HeldIsLeased'
    <2> SUFFICES ASSUME NEW v \in Workers, NEW e \in Held(v)'
                 PROVE  IsPending(e.id)' /\ outbox'[e.id].leased
      BY DEF HeldIsLeased
    <2>1. CASE v = w
      BY <1>3, <1>4, <1>7, <2>1 DEF IsPending
    <2>2. CASE v # w
      BY <1>4, <1>8, <2>2 DEF IsPending
    <2> QED BY <2>1, <2>2
  <1>10. HeldOnce'
    <2> SUFFICES ASSUME NEW u \in Workers, NEW v \in Workers, NEW d \in Held(u)',
                        NEW e \in Held(v)', d.id = e.id
                 PROVE  u = v /\ d = e
      BY DEF HeldOnce
    <2>1. CASE u = w /\ v = w
      BY <1>7, <2>1
    <2>2. CASE u # w /\ v # w
      BY <1>6, <2>2 DEF Leased, HeldOnce
    <2>3. CASE (u = w /\ v # w) \/ (u # w /\ v = w)
      BY <1>3, <1>7, <1>8, <2>3
    <2> QED BY <2>1, <2>2, <2>3
  <1>11. CurrentApart'
    BY <1>5, <1>6 DEF Leased, CurrentApart
  <1> QED BY <1>9, <1>10, <1>11 DEF Leased

\* Starting on an event moves it from the batch to where the worker is.
LEMMA ProcessKeepsLeases ==
  ASSUME TypeOK, Leased, NEW w \in Workers, Process(w)
  PROVE  Leased'
  <1>1. PICK e \in batch[w] :
          /\ batch' = [batch EXCEPT ![w] = @ \ {e}]
          /\ current' = [current EXCEPT ![w] = e]
          /\ Goto(w, "sync") \/ Goto(w, "done")
    BY DEF Process
  <1>2. UNCHANGED outbox
    BY DEF Process, table
  <1>3. current'[w] = e /\ batch'[w] = batch[w] \ {e}
    BY <1>1 DEF TypeOK
  <1>4. \A v \in Workers \ {w} : pc'[v] = pc[v] /\ current'[v] = current[v] /\ batch'[v] = batch[v]
    BY <1>1 DEF TypeOK, Goto
  <1>5. \A v \in Workers : Held(v)' \subseteq Held(v)
    BY <1>3, <1>4 DEF Held
  <1>6. \A v \in Workers : pc'[v] \in Processing => current'[v] \notin batch'[v]
    BY <1>3, <1>4 DEF Leased, CurrentApart
  <1>7. \A v \in Workers : \A d \in Held(v)' : IsPending(d.id)' /\ outbox'[d.id].leased
    BY <1>2, <1>5 DEF Leased, HeldIsLeased, IsPending
  <1> QED BY <1>5, <1>6, <1>7, KeepsLeases

\* Steps at which workers only move on or forget, and the rows they hold stay
\* pending and leased.
LEMMA MoveKeepsLeases ==
  ASSUME TypeOK, Leased, NEW w \in Workers,
         \/ UNCHANGED <<pc, work>>
         \/ UNCHANGED work /\ pc[w] \in Processing
              /\ pc' \in {[pc EXCEPT ![w] = place] : place \in Places}
         \/ UNCHANGED work /\ pc' \in {[pc EXCEPT ![w] = place] : place \in Places \ Processing}
         \/ Forget(w) /\ pc' \in {[pc EXCEPT ![w] = place] : place \in {"down", "idle"}},
         \A v \in Workers : \A e \in Held(v) : IsPending(e.id)' /\ outbox'[e.id].leased
  PROVE  Leased'
  <1>1. \A v \in Workers : Held(v)' \subseteq Held(v)
    BY DEF Held, TypeOK, Forget, work
  <1>2. \A v \in Workers : pc'[v] \in Processing => current'[v] \notin batch'[v]
    BY DEF Leased, CurrentApart, TypeOK, Forget, work
  <1> QED BY <1>1, <1>2, KeepsLeases

\* Rows that are held keep their lease, whatever else happens to them.
LEMMA NextLeased == LeasesHold /\ Inv /\ Leased /\ [Next]_vars => Leased'
  <1> SUFFICES ASSUME LeasesHold, Inv, Leased, [Next]_vars PROVE Leased'
    OBVIOUS
  <1> USE DEF table, flags
  <1>0. TypeOK
    BY DEF Inv
  <1>held. ASSUME NEW v \in Workers, NEW e \in Held(v)
           PROVE  /\ e.id \in Ids /\ e.id \in Nat /\ e.id <= lastId
                  /\ IsPending(e.id) /\ outbox[e.id].leased /\ outbox[e.id] \in Row
    <2>1. e \in Event
      BY <1>0, HeldEvents
    <2> QED BY <1>0, <2>1, EventFields
         DEF Inv, TypeOK, EventsMatchRows, Matches, Leased, HeldIsLeased
  <1>same. ASSUME UNCHANGED outbox
           PROVE  \A v \in Workers : \A e \in Held(v) : IsPending(e.id)' /\ outbox'[e.id].leased
    BY <1>held, <1>same DEF IsPending
  <1>1. ASSUME NEW K \in SUBSET Keys, Enqueue(K), UNCHANGED <<pc, work>>
        PROVE  Leased'
    <2>1. ASSUME NEW r \in Ids, r <= lastId
          PROVE  outbox'[r] = outbox[r] \/ outbox'[r] = Bumped(outbox[r])
      BY <1>1, <2>1, EnqueueTable DEF Inv
    <2>2. \A v \in Workers : \A e \in Held(v) : IsPending(e.id)' /\ outbox'[e.id].leased
      <3> SUFFICES ASSUME NEW v \in Workers, NEW e \in Held(v)
                   PROVE  IsPending(e.id)' /\ outbox'[e.id].leased
        OBVIOUS
      <3>1. /\ Bumped(outbox[e.id]).status = outbox[e.id].status
            /\ Bumped(outbox[e.id]).leased = outbox[e.id].leased
        BY <1>held DEF Bumped, Row
      <3> QED BY <1>held, <2>1, <3>1 DEF IsPending
    <2>3. \A v \in Workers : Held(v)' = Held(v)
      BY <1>1 DEF Held, work
    <2>4. \A v \in Workers : pc'[v] \in Processing => current'[v] \notin batch'[v]
      BY <1>1 DEF Leased, CurrentApart, work
    <2> QED BY <2>2, <2>3, <2>4, KeepsLeases
  <1>2. ASSUME NEW a \in Aggregates, Change(a)  PROVE Leased'
    BY <1>1, <1>2 DEF Change, KeysOf
  <1>3. ASSUME NEW k \in Keys, Resync(k)  PROVE Leased'
    BY <1>1, <1>3 DEF Resync
  <1>4. ASSUME NEW r \in Ids, BackoffElapses(r) \/ LeaseExpires(r) \/ PurgeProcessed(r)
        PROVE  Leased'
    <2>1. UNCHANGED <<pc, batch, current>>
      BY <1>4 DEF BackoffElapses, LeaseExpires, PurgeProcessed, work
    <2>2. ASSUME NEW v \in Workers, NEW e \in Held(v)
          PROVE  IsPending(e.id)' /\ outbox'[e.id].leased
      <3>1. CASE BackoffElapses(r)
        BY <1>0, <1>held, <3>1 DEF BackoffElapses, TypeOK, IsPending, Row
      <3>2. CASE LeaseExpires(r)
        <4>1. e.id # r
          BY <2>2, <3>2 DEF LeaseExpires, LeasesHold, Holds
        <4> QED BY <1>0, <1>held, <3>2, <4>1 DEF LeaseExpires, TypeOK, IsPending
      <3>3. CASE PurgeProcessed(r)
        <4>1. e.id # r
          BY <1>held, <3>3 DEF PurgeProcessed, IsPending
        <4> QED BY <1>0, <1>held, <3>3, <4>1 DEF PurgeProcessed, TypeOK, IsPending
      <3> QED BY <1>4, <3>1, <3>2, <3>3
    <2>3. \A v \in Workers : Held(v)' = Held(v)
      BY <2>1 DEF Held
    <2>4. \A v \in Workers : pc'[v] \in Processing => current'[v] \notin batch'[v]
      BY <2>1 DEF Leased, CurrentApart
    <2> QED BY <2>2, <2>3, <2>4, KeepsLeases
  <1>5. ASSUME NEW w \in Workers,
               \/ Start(w) \/ Stop(w) \/ Listen(w) \/ ListenerLost(w)
               \/ OnNotification(w) \/ Poll(w) \/ ClaimStopped(w) \/ LoopEnd(w)
        PROVE  Leased'
    <2>1. UNCHANGED <<outbox, work>>
      BY <1>5 DEF Start, Stop, Listen, ListenerLost, OnNotification, Poll, ClaimStopped, LoopEnd
    <2>2. \/ UNCHANGED pc
          \/ pc' \in {[pc EXCEPT ![w] = place] : place \in Places \ Processing}
      BY <1>5 DEF Start, Stop, Listen, ListenerLost, OnNotification, Poll, ClaimStopped, LoopEnd,
                  Kick, EndDrain, Goto
    <2> QED BY <1>0, <1>same, <2>1, <2>2, MoveKeepsLeases
  <1>6. ASSUME NEW w \in Workers, Exit(w)  PROVE Leased'
    BY <1>0, <1>6, <1>same, MoveKeepsLeases DEF Exit, Goto
  <1>7. ASSUME NEW w \in Workers, SyncReturns(w) \/ SyncThrows(w)  PROVE Leased'
    <2>1. UNCHANGED <<outbox, work>> /\ pc[w] \in Processing
          /\ pc' \in {[pc EXCEPT ![w] = place] : place \in Places}
      BY <1>7 DEF SyncReturns, SyncThrows, Goto
    <2> QED BY <1>0, <1>same, <2>1, MoveKeepsLeases
  <1>8. ASSUME NEW w \in Workers, Claim(w)  PROVE Leased'
    BY <1>0, <1>8, ClaimKeepsLeases
  <1>9. ASSUME NEW w \in Workers, Process(w)  PROVE Leased'
    BY <1>0, <1>9, ProcessKeepsLeases
  <1>10. ASSUME NEW w \in Workers, MarkDone(w) \/ Requeue(w) \/ MarkFailed(w)  PROVE Leased'
    <2>1. current[w].id \in Ids /\ pc[w] \in Processing
      BY <1>0, <1>10, EventFields DEF TypeOK, MarkDone, Requeue, MarkFailed
    <2>2. CASE Continue(w)
      <3>1. \A r \in Ids \ {current[w].id} : outbox'[r] = outbox[r]
        <4>1. CASE MarkDone(w)
          BY <1>0, <2>1, <4>1 DEF MarkDone, AfterDone, TypeOK
        <4>2. CASE Requeue(w)
          BY <1>0, <2>1, <4>2 DEF Requeue, AfterRequeue, TypeOK
        <4>3. CASE MarkFailed(w)
          BY <1>0, <2>1, <4>3 DEF MarkFailed, AfterFailure, TypeOK
        <4> QED BY <1>10, <4>1, <4>2, <4>3
      <3> QED BY <1>0, <2>1, <2>2, <3>1, ReleaseKeepsLeases
    <2>3. CASE Goto(w, "requeue") /\ UNCHANGED <<outbox, work>>
      BY <1>0, <1>same, <2>1, <2>3, MoveKeepsLeases DEF Goto
    <2> QED BY <1>10, <2>2, <2>3 DEF MarkDone, Requeue, MarkFailed
  <1>11. ASSUME NEW w \in Workers, DrainFails(w)  PROVE Leased'
    <2>1. Forget(w) /\ EndDrain(w) /\ current[w].id \in Ids
      BY <1>0, <1>11, EventFields DEF DrainFails, TypeOK
    <2>2. CASE UNCHANGED outbox
      BY <1>0, <1>same, <2>1, <2>2, MoveKeepsLeases DEF EndDrain, Goto
    <2>3. CASE \E S \in ClaimChoices : outbox' = AfterClaim(S)
      <3>1. PICK S \in ClaimChoices : outbox' = AfterClaim(S)
        BY <2>3
      <3>2. ASSUME NEW v \in Workers, NEW e \in Held(v)
            PROVE  IsPending(e.id)' /\ outbox'[e.id].leased
        <4>1. outbox'[e.id] = IF e.id \in S THEN [outbox[e.id] EXCEPT !.leased = TRUE]
                              ELSE outbox[e.id]
          BY <1>held, <3>1 DEF AfterClaim
        <4> QED BY <1>held, <4>1 DEF IsPending, Row
      <3> QED BY <1>0, <2>1, <3>2, MoveKeepsLeases DEF EndDrain, Goto
    <2>4. CASE pc[w] = "done" /\ outbox' = AfterDone(current[w])
      <3>1. \A r \in Ids \ {current[w].id} : outbox'[r] = outbox[r]
        BY <1>0, <2>1, <2>4 DEF AfterDone, TypeOK
      <3> QED BY <1>0, <2>1, <2>4, <3>1, ReleaseKeepsLeases
    <2>5. CASE pc[w] = "requeue" /\ outbox' = AfterRequeue(current[w])
      <3>1. \A r \in Ids \ {current[w].id} : outbox'[r] = outbox[r]
        BY <1>0, <2>1, <2>5 DEF AfterRequeue, TypeOK
      <3> QED BY <1>0, <2>1, <2>5, <3>1, ReleaseKeepsLeases
    <2> QED BY <1>11, <2>2, <2>3, <2>4, <2>5 DEF DrainFails
  <1>12. CASE UNCHANGED vars
    <2>1. UNCHANGED <<outbox, pc, batch, current>>
      BY <1>12 DEF vars, work
    <2>2. \A v \in Workers : Held(v)' = Held(v)
      BY <2>1 DEF Held
    <2>3. \A v \in Workers : pc'[v] \in Processing => current'[v] \notin batch'[v]
      BY <2>1 DEF Leased, CurrentApart
    <2> QED BY <1>same, <2>1, <2>2, <2>3, KeepsLeases
  <1> QED
    BY <1>2, <1>3, <1>4, <1>5, <1>6, <1>7, <1>8, <1>9, <1>10, <1>11, <1>12
    DEF Next, Environment, Worker, Lifecycle, Drain

\* A step that shows nothing, takes up nothing new and bumps no row keeps what
\* is shown, if it settles no key that is not shown.
LEMMA QuietKeepsShown ==
  ASSUME TypeOK, Shown, UNCHANGED <<db, mirror>>,
         \A r \in Ids : IsPending(r)' => IsPending(r) /\ outbox'[r].seq = outbox[r].seq,
         \A v \in Workers :
           pc'[v] \in {"sync", "done"} =>
             pc'[v] = pc[v] /\ current'[v] = current[v] /\ ver'[v] = ver[v],
         \A k \in Handled : ~Pending(k)' => mirror[k] = Current(k)
  PROVE  Shown'
  <1>1. MirrorNotAhead'
    BY DEF Shown, MirrorNotAhead, Current
  <1>2. SyncGoesForward'
    BY DEF Shown, SyncGoesForward
  <1>3. \A v \in Workers : Unbumped(current[v])' /\ current'[v] = current[v]
                             => Unbumped(current[v])
    BY EventFields DEF Unbumped, IsPending, TypeOK
  <1>4. DoneMeansShown'
    BY <1>3 DEF Shown, DoneMeansShown, Current
  <1>5. ShownWhenSettled'
    BY DEF ShownWhenSettled, Current
  <1> QED BY <1>1, <1>2, <1>4, <1>5 DEF Shown

LEMMA SameRowsKeepShown ==
  ASSUME TypeOK, Shown, UNCHANGED <<db, mirror>>, \A r \in Ids : SameRow(r),
         \A v \in Workers :
           pc'[v] \in {"sync", "done"} =>
             pc'[v] = pc[v] /\ current'[v] = current[v] /\ ver'[v] = ver[v]
  PROVE  Shown'
  <1>1. \A r \in Ids : IsPending(r)' => IsPending(r) /\ outbox'[r].seq = outbox[r].seq
    BY DEF SameRow, IsPending
  <1>2. \A k \in Handled : ~Pending(k)' => mirror[k] = Current(k)
    BY DEF SameRow, Pending, IsPending, Shown, ShownWhenSettled
  <1> QED BY <1>1, <1>2, QuietKeepsShown

\* An event nothing was enqueued for up to and with this enqueue is not about
\* one of its keys.
LEMMA EnqueueBumps ==
  ASSUME Inv, NEW K \in SUBSET Keys, Enqueue(K), NEW w \in Workers, NEW e \in Held(w)
  PROVE  Unbumped(e)' => Unbumped(e) /\ e.key \notin K
  <1>1. TypeOK /\ OnePendingRow /\ UnusedRows
    BY DEF Inv
  <1>2. Matches(e) /\ e.id \in Ids /\ e.id \in Nat /\ e.seq \in Nat
    BY <1>1, HeldEvents, EventFields DEF Inv, EventsMatchRows
  <1>3. outbox'[e.id] = IF IsPending(e.id) /\ outbox[e.id].key \in K
                          THEN Bumped(outbox[e.id]) ELSE outbox[e.id]
    BY <1>1, <1>2, EnqueueTable DEF Matches
  <1>4. /\ outbox[e.id].seq \in Nat
        /\ Bumped(outbox[e.id]).status = outbox[e.id].status
        /\ Bumped(outbox[e.id]).seq = outbox[e.id].seq + 1
    <2>1. outbox[e.id] \in Row
      BY <1>1, <1>2 DEF TypeOK
    <2> QED BY <2>1 DEF Bumped, Row
  <1>5. CASE IsPending(e.id) /\ outbox[e.id].key \in K
    BY <1>2, <1>3, <1>4, <1>5 DEF Matches, Unbumped, IsPending
  <1>6. CASE ~(IsPending(e.id) /\ outbox[e.id].key \in K)
    BY <1>2, <1>3, <1>6 DEF Matches, Unbumped, IsPending
  <1> QED BY <1>5, <1>6

LEMMA EnqueueKeepsShown ==
  ASSUME Inv, Shown, NEW K \in SUBSET Keys, Enqueue(K), TypeOK',
         UNCHANGED <<mirror, pc, batch, current, ver>>,
         \A k \in Keys : Current(k) <= Current(k)',
         \A k \in Keys \ K : Current(k)' = Current(k)
  PROVE  Shown'
  <1>1. TypeOK
    BY DEF Inv
  <1>2. MirrorNotAhead'
    <2> SUFFICES ASSUME NEW k \in Keys  PROVE mirror[k] <= Current(k)'
      BY DEF MirrorNotAhead, Current
    <2>1. mirror[k] \in Nat /\ Current(k) \in Nat /\ Current(k)' \in Nat
      BY <1>1, OutboxAssumption DEF TypeOK, Current
    <2>2. mirror[k] <= Current(k)
      BY DEF Shown, MirrorNotAhead
    <2> QED BY <2>1, <2>2
  <1>3. SyncGoesForward'
    BY DEF Shown, SyncGoesForward
  <1>4. DoneMeansShown'
    <2> SUFFICES ASSUME NEW w \in Workers, pc[w] = "done",
                        current[w].key \in Handled, Unbumped(current[w])'
                 PROVE  mirror[current[w].key] = Current(current[w].key)'
      BY DEF DoneMeansShown, Current
    <2>1. current[w] \in Held(w) /\ current[w].key \in Keys
      BY <1>1, EventFields DEF Held, TypeOK
    <2>2. PICK e \in Held(w) : e = current[w]
      BY <2>1
    <2>3. Unbumped(e)'
      BY <2>2 DEF Unbumped, IsPending
    <2>4. Unbumped(e) /\ e.key \notin K
      BY <2>3, EnqueueBumps
    <2> QED BY <2>1, <2>2, <2>4 DEF Shown, DoneMeansShown
  <1>5. ShownWhenSettled'
    <2> SUFFICES ASSUME NEW k \in Handled, ~Pending(k)'  PROVE mirror[k] = Current(k)'
      BY DEF ShownWhenSettled, Current
    <2>1. k \in Keys \ K /\ ~Pending(k)
      BY EnqueueTable, OutboxAssumption DEF Inv
    <2> QED BY <2>1 DEF Shown, ShownWhenSettled
  <1> QED BY <1>2, <1>3, <1>4, <1>5 DEF Shown

\* A handler reads a version the mirror is not ahead of.
LEMMA ProcessKeepsShown ==
  ASSUME Inv, Shown, NEW w \in Workers, Process(w)
  PROVE  Shown'
  <1>1. TypeOK /\ UNCHANGED <<db, mirror, outbox>>
    BY DEF Inv, Process, table
  <1>2. PICK e \in batch[w] :
          /\ current' = [current EXCEPT ![w] = e]
          /\ \/ /\ ver' = [ver EXCEPT ![w] = Current(e.key)]
                /\ Goto(w, "sync")
             \/ /\ e.key \notin Handled
                /\ Goto(w, "done")
                /\ UNCHANGED ver
    BY DEF Process
  <1>3. \A v \in Workers \ {w} : /\ pc'[v] = pc[v]
                                 /\ current'[v] = current[v] /\ ver'[v] = ver[v]
    BY <1>1, <1>2 DEF Goto, TypeOK
  <1>4. /\ current'[w] = e /\ e.key \in Keys
        /\ \/ pc'[w] = "sync" /\ ver'[w] = Current(e.key)
           \/ pc'[w] = "done" /\ e.key \notin Handled
    BY <1>1, <1>2, EventFields DEF Goto, TypeOK
  <1>5. SyncGoesForward'
    <2> SUFFICES ASSUME NEW v \in Workers, pc'[v] = "sync"
                 PROVE  mirror[current'[v].key] <= ver'[v]
      BY <1>1 DEF SyncGoesForward
    <2>1. CASE v = w
      BY <1>4, <2>1 DEF Shown, MirrorNotAhead
    <2>2. CASE v # w
      BY <1>3, <2>2 DEF Shown, SyncGoesForward
    <2> QED BY <2>1, <2>2
  <1>6. DoneMeansShown'
    <2> SUFFICES ASSUME NEW v \in Workers, pc'[v] = "done",
                        current'[v].key \in Handled, Unbumped(current'[v])
                 PROVE  mirror[current'[v].key] = Current(current'[v].key)
      BY <1>1 DEF DoneMeansShown, Current, Unbumped, IsPending
    <2>1. v # w
      BY <1>4
    <2> QED BY <1>3, <2>1 DEF Shown, DoneMeansShown
  <1>7. MirrorNotAhead' /\ ShownWhenSettled'
    BY <1>1 DEF Shown, MirrorNotAhead, ShownWhenSettled, Current, Pending, IsPending
  <1> QED BY <1>5, <1>6, <1>7 DEF Shown

\* A sync writes a version that is no older than what the mirror shows and no
\* newer than the row, to a key nobody else is at.
LEMMA ShowKeepsShown ==
  ASSUME LInv, NEW w \in Workers, pc[w] = "sync", Show(w),
         UNCHANGED <<db, outbox, batch, current, ver>>,
         \/ pc' = [pc EXCEPT ![w] = "done"]
         \/ pc' = [pc EXCEPT ![w] = "failed"]
  PROVE  Shown' /\ \A k \in Keys : mirror'[k] >= mirror[k]
  <1>1. TypeOK /\ Inv /\ Leased /\ Shown /\ current[w] \in Held(w)
    BY DEF LInv, Inv, Held
  <1>k. PICK k \in Keys : k = current[w].key
    BY <1>1, EventFields DEF TypeOK
  <1>2. /\ ver[w] <= Current(k) /\ mirror[k] <= ver[w]
        /\ Unbumped(current[w]) => ver[w] = Current(k)
    BY <1>1, <1>k DEF Inv, SyncReadsCurrent, Shown, SyncGoesForward
  <1>3. mirror'[k] = ver[w] /\ \A l \in Keys \ {k} : mirror'[l] = mirror[l]
    BY <1>1, <1>k DEF Show, TypeOK
  <1>4. pc'[w] # "sync" /\ \A v \in Workers \ {w} : pc'[v] = pc[v]
    BY <1>1 DEF TypeOK
  <1>5. ASSUME NEW v \in Workers \ {w}, pc[v] \in Processing
        PROVE  current[v].key \in Keys \ {k}
    <2>1. current[v] \in Held(v) /\ current[v].key \in Keys
      BY <1>1, <1>5, EventFields DEF Held, TypeOK
    <2> QED BY <1>1, <1>k, <2>1, OneHolder
  <1>6. Pending(k)
    <2>1. IsPending(current[w].id) /\ current[w].id \in Ids /\ outbox[current[w].id].key = k
      BY <1>1, <1>k, EventFields
         DEF Inv, TypeOK, EventsMatchRows, Matches, Leased, HeldIsLeased, IsPending
    <2> QED BY <2>1 DEF Pending
  <1>7. MirrorNotAhead'
    BY <1>1, <1>2, <1>3 DEF Shown, MirrorNotAhead, Current
  <1>8. SyncGoesForward'
    BY <1>1, <1>3, <1>4, <1>5 DEF Shown, SyncGoesForward
  <1>9. DoneMeansShown'
    <2> SUFFICES ASSUME NEW v \in Workers, pc'[v] = "done",
                        current[v].key \in Handled, Unbumped(current[v])
                 PROVE  mirror'[current[v].key] = Current(current[v].key)
      BY DEF DoneMeansShown, Current, Unbumped, IsPending
    <2>1. CASE v = w
      BY <1>k, <1>2, <1>3, <2>1
    <2>2. CASE v # w
      BY <1>1, <1>3, <1>4, <1>5, <2>2 DEF Shown, DoneMeansShown
    <2> QED BY <2>1, <2>2
  <1>10. ShownWhenSettled'
    BY <1>1, <1>3, <1>6, OutboxAssumption
       DEF Shown, ShownWhenSettled, Current, Pending, IsPending
  <1>11. \A l \in Keys : mirror'[l] >= mirror[l]
    <2>1. \A l \in Keys : mirror[l] \in Nat /\ ver[w] \in Nat
      BY <1>1 DEF TypeOK
    <2> QED BY <1>2, <1>3, <2>1
  <1> QED BY <1>7, <1>8, <1>9, <1>10, <1>11 DEF Shown

\* A key is settled after a sync that read its current version has shown it.
LEMMA DoneKeepsShown ==
  ASSUME Inv, Shown, UNCHANGED <<db, mirror>>, NEW w \in Workers, pc[w] = "done",
         DoneMatches(current[w]), outbox' = AfterDone(current[w]),
         \A v \in Workers : Quiet(v)
  PROVE  Shown'
  <1> DEFINE e == current[w]
  <1>1. TypeOK /\ e.id \in Ids /\ e \in Held(w)
    BY EventFields DEF Inv, TypeOK, Held
  <1>2. outbox'[e.id].status = "processed" /\ \A r \in Ids \ {e.id} : outbox'[r] = outbox[r]
    <2>1. outbox[e.id] \in Row
      BY <1>1 DEF TypeOK
    <2>2. outbox'[e.id] = [outbox[e.id] EXCEPT !.status = "processed", !.leased = FALSE]
      BY <1>1 DEF AfterDone, TypeOK
    <2>3. \A r \in Ids \ {e.id} : outbox'[r] = outbox[r]
      BY <1>1 DEF AfterDone, TypeOK
    <2> QED BY <2>1, <2>2, <2>3 DEF Row
  <1>3. \A r \in Ids : IsPending(r)' => IsPending(r) /\ outbox'[r].seq = outbox[r].seq
    BY <1>1, <1>2 DEF IsPending
  <1>4. ASSUME NEW k \in Handled, ~Pending(k)'  PROVE mirror[k] = Current(k)
    <2>1. CASE Pending(k)
      <3>1. PICK r \in Ids : IsPending(r) /\ outbox[r].key = k
        BY <2>1 DEF Pending
      <3>2. r = e.id
        BY <1>2, <1>4, <3>1 DEF Pending, IsPending
      <3>3. Unbumped(e) /\ e.key = k
        BY <1>1, <3>1, <3>2
           DEF Inv, EventsMatchRows, Matches, DoneMatches, Unbumped, IsPending
      <3> QED BY <3>3 DEF Shown, DoneMeansShown
    <2>2. CASE ~Pending(k)
      BY <2>2 DEF Shown, ShownWhenSettled
    <2> QED BY <2>1, <2>2
  <1>5. \A v \in Workers :
          pc'[v] \in {"sync", "done"} =>
            pc'[v] = pc[v] /\ current'[v] = current[v] /\ ver'[v] = ver[v]
    BY DEF Quiet
  <1> QED BY <1>1, <1>3, <1>4, <1>5, QuietKeepsShown

LEMMA PurgeKeepsShown ==
  ASSUME Inv, Shown, NEW r \in Ids, PurgeProcessed(r)
  PROVE  Shown'
  <1>1. TypeOK /\ UNCHANGED <<db, mirror, pc, current, ver>>
    BY DEF Inv, PurgeProcessed, work
  <1>2. outbox'[r].status = "absent" /\ \A q \in Ids \ {r} : outbox'[q] = outbox[q]
    BY <1>1 DEF PurgeProcessed, TypeOK, BlankRow
  <1>3. \A q \in Ids : IsPending(q)' => IsPending(q) /\ outbox'[q].seq = outbox[q].seq
    BY <1>2 DEF IsPending
  <1>4. \A k \in Keys : Pending(k) => Pending(k)'
    BY <1>2 DEF PurgeProcessed, Pending, IsPending
  <1>5. \A k \in Handled : ~Pending(k)' => mirror[k] = Current(k)
    BY <1>4, OutboxAssumption DEF Shown, ShownWhenSettled
  <1> QED BY <1>1, <1>3, <1>5, QuietKeepsShown

(* What the mirrors show stays in order, and never goes back.              *)
GoesForward == \A k \in Keys : mirror'[k] >= mirror[k]

LEMMA NextShown == LInv /\ [Next]_vars => Shown' /\ GoesForward
  <1> SUFFICES ASSUME LInv, [Next]_vars PROVE Shown' /\ GoesForward
    OBVIOUS
  <1> USE DEF table, flags
  <1>0. TypeOK /\ TypeOK' /\ Inv /\ Leased /\ Shown
    BY NextType DEF LInv, Inv
  <1>same. ASSUME UNCHANGED outbox  PROVE \A r \in Ids : SameRow(r)
    BY <1>same DEF SameRow
  <1>held. ASSUME NEW w \in Workers  PROVE current[w] \in Event
    BY <1>0 DEF TypeOK
  <1>still. ASSUME UNCHANGED mirror  PROVE GoesForward
    BY <1>0, <1>still DEF GoesForward, TypeOK
  <1>quiet. ASSUME UNCHANGED <<db, mirror>>, \A r \in Ids : SameRow(r),
                   \A v \in Workers : Quiet(v)
            PROVE  Shown'
    BY <1>0, <1>quiet, SameRowsKeepShown DEF Quiet
  <1>1. ASSUME NEW a \in Aggregates, Change(a)  PROVE Shown' /\ GoesForward
    <2>1. KeysOf(a) \in SUBSET Keys
      BY DEF KeysOf
    <2>2. /\ \A k \in Keys : Current(k) <= Current(k)'
          /\ \A k \in Keys \ KeysOf(a) : Current(k)' = Current(k)
      BY <1>0, <1>1, OutboxAssumption DEF Change, Current, KeysOf, TypeOK
    <2>3. Shown'
      BY <1>0, <1>1, <2>1, <2>2, EnqueueKeepsShown DEF Change, work
    <2> QED BY <1>1, <1>still, <2>3 DEF Change
  <1>2. ASSUME NEW k \in Keys, Resync(k)  PROVE Shown' /\ GoesForward
    <2>1. /\ \A l \in Keys : Current(l) <= Current(l)'
          /\ \A l \in Keys : Current(l)' = Current(l)
      BY <1>0, <1>2, OutboxAssumption DEF Resync, Current, TypeOK
    <2>2. Shown'
      BY <1>0, <1>2, <2>1, EnqueueKeepsShown DEF Resync, work
    <2> QED BY <1>2, <1>still, <2>2 DEF Resync
  <1>3. ASSUME NEW r \in Ids, BackoffElapses(r) \/ LeaseExpires(r)  PROVE Shown' /\ GoesForward
    <2>1. ASSUME NEW q \in Ids  PROVE SameRow(q)
      <3>1. outbox[q] \in Row
        BY <1>0 DEF TypeOK
      <3>2. \/ outbox'[q] = outbox[q]
            \/ outbox'[q] = [outbox[q] EXCEPT !.due = TRUE]
            \/ outbox'[q] = [outbox[q] EXCEPT !.leased = FALSE]
        BY <1>0, <1>3 DEF BackoffElapses, LeaseExpires, TypeOK
      <3> QED BY <3>1, <3>2 DEF SameRow, Row
    <2>2. \A v \in Workers : Quiet(v)
      BY <1>3 DEF BackoffElapses, LeaseExpires, Quiet, Held, work
    <2> QED BY <1>3, <1>quiet, <1>still, <2>1, <2>2 DEF BackoffElapses, LeaseExpires
  <1>4. ASSUME NEW r \in Ids, PurgeProcessed(r)  PROVE Shown' /\ GoesForward
    BY <1>0, <1>4, <1>still, PurgeKeepsShown DEF PurgeProcessed
  <1>5. ASSUME NEW w \in Workers,
               \/ Start(w) \/ Stop(w) \/ Listen(w) \/ ListenerLost(w)
               \/ OnNotification(w) \/ Poll(w) \/ ClaimStopped(w) \/ LoopEnd(w)
               \/ SyncThrows(w) /\ UNCHANGED mirror
        PROVE  Shown' /\ GoesForward
    <2>1. /\ UNCHANGED <<db, mirror, outbox, work>>
          /\ \/ UNCHANGED pc
             \/ /\ pc[w] \notin {"sync", "done", "requeue", "failed"}
                /\ pc' \in {[pc EXCEPT ![w] = place] : place \in {"idle", "claim", "loop"}}
             \/ /\ pc[w] \in Processing
                /\ pc' \in {[pc EXCEPT ![w] = place] : place \in {"requeue", "failed"}}
      <3>1. CASE Start(w) \/ Stop(w) \/ Listen(w) \/ ListenerLost(w)
        BY <3>1 DEF Start, Stop, Listen, ListenerLost, Goto
      <3>2. CASE OnNotification(w) \/ Poll(w)
        BY <3>2 DEF OnNotification, Poll, Kick, Goto
      <3>3. CASE ClaimStopped(w) \/ LoopEnd(w)
        BY <3>3 DEF ClaimStopped, LoopEnd, EndDrain, Goto
      <3>4. CASE SyncThrows(w) /\ UNCHANGED mirror
        BY <3>4 DEF SyncThrows, Goto
      <3> QED BY <1>5, <3>1, <3>2, <3>3, <3>4
    <2>2. \A v \in Workers : Quiet(v)
      BY <1>0, <2>1, IdleMoveQuiet
    <2> QED BY <1>same, <1>quiet, <1>still, <2>1, <2>2
  <1>6. ASSUME NEW w \in Workers, Exit(w)  PROVE Shown' /\ GoesForward
    <2>1. \A v \in Workers : Quiet(v)
      BY <1>0, <1>6, ForgetQuiet DEF Exit, Goto
    <2> QED BY <1>6, <1>same, <1>quiet, <1>still, <2>1 DEF Exit
  <1>7. ASSUME NEW w \in Workers, Claim(w)  PROVE Shown' /\ GoesForward
    <2>1. UNCHANGED <<db, mirror, current, ver>> /\ \A r \in Ids : SameRow(r)
      BY <1>0, <1>7, LeasedRows DEF Claim
    <2>2. \A v \in Workers : pc'[v] \in {"sync", "done"} => pc'[v] = pc[v]
      BY <1>0, <1>7 DEF Claim, Goto, TypeOK
    <2>3. Shown'
      BY <1>0, <2>1, <2>2, SameRowsKeepShown
    <2> QED BY <1>still, <2>1, <2>3
  <1>8. ASSUME NEW w \in Workers, Process(w)  PROVE Shown' /\ GoesForward
    BY <1>0, <1>8, <1>still, ProcessKeepsShown DEF Process
  <1>9. ASSUME NEW w \in Workers, SyncReturns(w) \/ (SyncThrows(w) /\ Show(w))  PROVE Shown' /\ GoesForward
    BY <1>9, ShowKeepsShown DEF GoesForward, SyncReturns, SyncThrows, Goto, work
  <1>10. ASSUME NEW w \in Workers, MarkDone(w)  PROVE Shown' /\ GoesForward
    <2>1. UNCHANGED <<db, mirror>>
      BY <1>10 DEF MarkDone
    <2>2. CASE DoneMatches(current[w]) /\ outbox' = AfterDone(current[w]) /\ Continue(w)
      BY <1>0, <1>10, <1>still, <2>1, <2>2, ContinueQuiet, DoneKeepsShown DEF MarkDone
    <2>3. CASE Goto(w, "requeue") /\ UNCHANGED <<outbox, work>>
      <3>1. \A v \in Workers : Quiet(v)
        BY <1>0, <1>10, <2>3, IdleMoveQuiet DEF MarkDone, Goto
      <3> QED BY <1>same, <1>quiet, <1>still, <2>1, <2>3, <3>1
    <2> QED BY <1>10, <2>2, <2>3 DEF MarkDone
  <1>11. ASSUME NEW w \in Workers, Requeue(w) \/ MarkFailed(w)  PROVE Shown' /\ GoesForward
    <2>1. UNCHANGED <<db, mirror>> /\ \A r \in Ids : SameRow(r)
      BY <1>0, <1>11, <1>held, ReleasedRows DEF Requeue, MarkFailed
    <2>2. \A v \in Workers : Quiet(v)
      BY <1>0, <1>11, ContinueQuiet DEF Requeue, MarkFailed
    <2> QED BY <1>quiet, <1>still, <2>1, <2>2
  <1>12. ASSUME NEW w \in Workers, DrainFails(w)  PROVE Shown' /\ GoesForward
    <2>1. \A v \in Workers : Quiet(v)
      BY <1>0, <1>12, ForgetQuiet DEF DrainFails, EndDrain, Goto
    <2>2. UNCHANGED <<db, mirror>>
      BY <1>12 DEF DrainFails
    <2>3. CASE UNCHANGED outbox
      BY <1>same, <1>quiet, <1>still, <2>1, <2>2, <2>3
    <2>4. CASE \E S \in ClaimChoices : outbox' = AfterClaim(S)
      BY <1>0, <1>quiet, <1>still, <2>1, <2>2, <2>4, LeasedRows
    <2>5. CASE pc[w] = "done" /\ DoneMatches(current[w]) /\ outbox' = AfterDone(current[w])
      BY <1>0, <1>still, <2>1, <2>2, <2>5, DoneKeepsShown
    <2>6. CASE outbox' = AfterRequeue(current[w])
      <3>1. \A r \in Ids : SameRow(r)
        BY <1>0, <1>held, <2>6, ReleasedRows
      <3> QED BY <1>quiet, <1>still, <2>1, <2>2, <3>1
    <2> QED BY <1>12, <2>3, <2>4, <2>5, <2>6 DEF DrainFails
  <1>13. CASE UNCHANGED vars
    <2>1. \A v \in Workers : Quiet(v)
      BY <1>13 DEF vars, work, Quiet, Held
    <2> QED BY <1>13, <1>same, <1>quiet, <1>still, <2>1 DEF vars
  <1>14. ASSUME Environment  PROVE Shown' /\ GoesForward
    BY <1>1, <1>2, <1>3, <1>4, <1>14 DEF Environment
  <1>15. ASSUME NEW w \in Workers, SyncThrows(w)  PROVE Shown' /\ GoesForward
    <2>1. Show(w) \/ UNCHANGED mirror
      BY <1>15 DEF SyncThrows
    <2> QED BY <1>5, <1>9, <1>15, <2>1
  <1>16. ASSUME NEW w \in Workers, Worker(w)  PROVE Shown' /\ GoesForward
    <2>1. CASE Lifecycle(w) \/ OnNotification(w) \/ Poll(w)
      BY <1>5, <1>6, <2>1 DEF Lifecycle
    <2>2. CASE Drain(w)
      BY <1>5, <1>7, <1>8, <1>9, <1>10, <1>11, <1>12, <1>15, <2>2 DEF Drain
    <2> QED BY <1>16, <2>1, <2>2 DEF Worker
  <1> QED BY <1>13, <1>14, <1>16 DEF Next

LEMMA InitLInv == Init => LInv
  <1> SUFFICES ASSUME Init PROVE LInv
    OBVIOUS
  <1>1. Inv
    BY InitInv
  <1>2. \A w \in Workers : Held(w) = {} /\ pc[w] \notin Processing
    BY DEF Init, Held
  <1>3. Leased
    BY <1>2 DEF Leased, HeldIsLeased, HeldOnce, CurrentApart
  <1>4. \A k \in Keys : Current(k) = 0 /\ mirror[k] = 0
    BY OutboxAssumption DEF Init, Current
  <1>5. Shown
    BY <1>2, <1>4, OutboxAssumption
       DEF Shown, MirrorNotAhead, SyncGoesForward, DoneMeansShown, ShownWhenSettled
  <1> QED BY <1>1, <1>3, <1>5 DEF LInv

THEOREM LeasedInvariance == LeasesHold => (Spec => []LInv)
  <1> SUFFICES ASSUME LeasesHold PROVE Spec => []LInv
    OBVIOUS
  <1>1. LInv /\ [Next]_vars => LInv'
    BY NextInv, NextLeased, NextShown DEF LInv
  <1> QED BY <1>1, InitLInv, PTL DEF Spec

\* While no lease ends under a live worker, two handlers never run for one key
\* at the same time, whatever else fails: crashes, statements, handlers and
\* connections ("Multi-replica safe" in the header of outbox.worker.ts).
THEOREM SyncIsExclusive == LeasesHold => (Spec => []ExclusiveSync)
  <1>1. LInv => ExclusiveSync
    <2> SUFFICES ASSUME LInv, NEW v \in Workers, NEW w \in Workers,
                        pc[v] = "sync", pc[w] = "sync", current[v].key = current[w].key
                 PROVE  v = w
      BY DEF ExclusiveSync
    <2>1. current[v] \in Held(v) /\ current[w] \in Held(w)
      BY DEF Held
    <2> QED BY <2>1, OneHolder DEF LInv
  <1> QED BY <1>1, LeasedInvariance, PTL

\* Under the same condition a mirror whose key has nothing pending shows the
\* current row: what markDone of outbox.repository.ts settles was really shown.
THEOREM SettledMirrorIsFresh == LeasesHold => (Spec => []MirrorFresh)
  <1>1. LInv => MirrorFresh
    BY DEF LInv, Shown, ShownWhenSettled, MirrorFresh
  <1> QED BY <1>1, LeasedInvariance, PTL

\* Under the same condition no sync of a worker takes a mirror back to an older
\* version of its row.
THEOREM MirrorsGoForward == LeasesHold => (Spec => MirrorNeverRegresses)
  <1>1. LInv /\ [Next]_vars => [\A k \in Keys : mirror'[k] >= mirror[k]]_mirror
    BY NextShown DEF GoesForward
  <1> QED BY <1>1, LeasedInvariance, PTL DEF Spec, MirrorNeverRegresses
=============================================================================
