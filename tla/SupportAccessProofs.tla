------------------------ MODULE SupportAccessProofs ------------------------
(***************************************************************************)
(* Theorems about support access, for any number of admins, tenants,       *)
(* requests and sweepers, any finite set of grants and any LIMIT.          *)
(***************************************************************************)
EXTENDS SupportAccess, FiniteSetTheorems, SequenceTheorems, TLAPS

\* The users p has yet to enqueue.
ToEnqueue(p) == {queue[p][i] : i \in 1..Len(queue[p])}

-----------------------------------------------------------------------------
(* The inductive invariant                                                 *)

\* What the transaction of p is about.
Purpose(p) ==
  /\ p \in Sweepers => operation[p] = "sweep"
  /\ InTransaction(p) =>
       /\ operation[p] = "sweep" => p \in Sweepers
       /\ operation[p] \in {"grant", "revoke"} => target[p] \in Grants
       /\ operation[p] = "deleteTenant" => target[p] \in Tenants
       /\ operation[p] = "grant" => ~grants[target[p]].made /\ locked[p] \subseteq {target[p]}
       /\ operation[p] = "revoke" => grants[target[p]].made
       /\ pc[p] = "scanned" => operation[p] = "deleteTenant"

\* A transaction holds rows that are there, but for the one it inserts.
HoldsRows(p) ==
  /\ pc[p] \in {"idle", "begun", "end"} => locked[p] = {}
  /\ \A g \in locked[p] \cap Grants : grants[g].made \/ operation[p] = "grant"
  /\ \A g \in matched[p] : grants[g].made

\* What it ends has not ended meanwhile.
WritesOpenRows(p) ==
  operation[p] # "grant" =>
    \A g \in written[p] :
      /\ grants[g].made
      /\ IF operation[p] = "revoke" THEN ~grants[g].revoked /\ g \notin clock[p]
                                    ELSE ~grants[g].synced

\* The users of the rows it writes are enqueued before it commits.
EnqueuesUsers(p) ==
  /\ pc[p] = "enqueue" => queue[p] # << >>
  /\ pc[p] = "enqueue" => \A g \in written[p] : AdminOf[g] \in enqueued[p] \cup ToEnqueue(p)
  /\ pc[p] = "commit" => \A g \in written[p] : AdminOf[g] \in enqueued[p]

ProcInv(p) == Purpose(p) /\ HoldsRows(p) /\ WritesOpenRows(p) /\ EnqueuesUsers(p)

LocksApart == \A p, q \in Processes : locked[p] \cap locked[q] # {} => p = q

\* Nobody else makes the same grant.
NewGrantsApart ==
  \A p, q \in Processes :
    /\ InTransaction(p) /\ operation[p] = "grant"
    /\ InTransaction(q) /\ operation[q] = "grant"
    /\ target[p] = target[q]
    => p = q

\* A grant is synced when it has ended, and its end was enqueued before that.
EndsAreFinal ==
  \A g \in Grants :
    /\ grants[g].synced => grants[g].made /\ (grants[g].revoked \/ g \in expired)
    /\ endSyncs[g] > 0 => grants[g].synced

Inv ==
  /\ TypeOK
  /\ \A p \in Processes : ProcInv(p)
  /\ LocksApart /\ NewGrantsApart /\ EndsAreFinal
  /\ AccessIsAccountedFor
-----------------------------------------------------------------------------
(* Orders and queues                                                       *)

LEMMA Kinds ==
  /\ Requests \cap Sweepers = {} /\ Grants \cap Tenants = {} /\ IsFiniteSet(Grants)
  /\ AdminOf \in [Grants -> Admins] /\ TenantOf \in [Grants -> Tenants]
  /\ NotRunning \notin SUBSET Tenants
  BY SupportAccessAssumption

\* Whatever order RETURNING names the users in, it names each of them.
LEMMA OrdersAreComplete ==
  ASSUME NEW S, IsFiniteSet(S), NEW order \in Orders(S)
  PROVE  /\ order \in Seq(S)
         /\ {order[i] : i \in 1..Len(order)} = S
         /\ order = << >> <=> S = {}
  <1>1. Cardinality(S) \in Nat
    BY FS_CardinalityType
  <1>2. order \in [1..Cardinality(S) -> S] /\ Len(order) = Cardinality(S) /\ order \in Seq(S)
    BY <1>1 DEF Orders
  <1>3. order \in Injection(1..Cardinality(S), S)
    BY <1>2 DEF Orders, Injection, IsInjective
  <1>4. Cardinality(1..Cardinality(S)) = Cardinality(S)
    BY <1>1, FS_Interval
  <1>5. order \in Surjection(1..Cardinality(S), S)
    BY <1>3, <1>4, FS_Injection
  <1>6. {order[i] : i \in 1..Len(order)} = S
    BY <1>2, <1>5 DEF Surjection
  <1>7. order = << >> <=> S = {}
    BY <1>1, <1>2, <1>6, FS_EmptySet
  <1> QED BY <1>2, <1>6, <1>7

\* The users of some grants are finitely many.
LEMMA UsersAreFinite ==
  ASSUME NEW G \in SUBSET Grants
  PROVE  IsFiniteSet({AdminOf[g] : g \in G}) /\ {AdminOf[g] : g \in G} \subseteq Admins
  <1>1. IsFiniteSet(G)
    BY Kinds, FS_Subset
  <1> DEFINE f == [g \in G |-> AdminOf[g]]
  <1>2. f \in Surjection(G, {AdminOf[g] : g \in G})
    BY DEF Surjection
  <1> QED BY <1>1, <1>2, FS_Surjection, Kinds

\* The head of a queue and the rest of it.
LEMMA HeadAndTail ==
  ASSUME NEW T, NEW s \in Seq(T), s # << >>
  PROVE  /\ Head(s) \in T /\ Tail(s) \in Seq(T)
         /\ \A x : (\E i \in 1..Len(s) : s[i] = x) =>
              x = Head(s) \/ \E i \in 1..Len(Tail(s)) : Tail(s)[i] = x
         /\ Len(s) = 1 <=> Tail(s) = << >>
  <1>1. /\ Head(s) \in T /\ Tail(s) \in Seq(T) /\ Head(s) = s[1] /\ Len(s) \in Nat \ {0}
        /\ Len(Tail(s)) = Len(s) - 1 /\ \A i \in 1..(Len(s) - 1) : Tail(s)[i] = s[i + 1]
    OBVIOUS
  <1>2. ASSUME NEW i \in 1..Len(s), i # 1  PROVE \E j \in 1..Len(Tail(s)) : Tail(s)[j] = s[i]
    <2>1. i - 1 \in 1..Len(Tail(s)) /\ Tail(s)[i - 1] = s[i]
      BY <1>1, <1>2
    <2> QED BY <2>1
  <1>3. Len(s) = 1 <=> Tail(s) = << >>
    <2>1. Tail(s) = << >> <=> Len(Tail(s)) = 0
      BY <1>1, EmptySeq
    <2> QED BY <1>1, <2>1
  <1> QED BY <1>1, <1>2, <1>3
-----------------------------------------------------------------------------
(* Steps                                                                   *)

USE DEF Places, AllOperations

\* A process goes on by steps of its own.
Rests(q) ==
  /\ pc'[q] = pc[q] /\ operation'[q] = operation[q] /\ target'[q] = target[q]
  /\ clock'[q] = clock[q] /\ locked'[q] = locked[q] /\ written'[q] = written[q]
  /\ matched'[q] = matched[q] /\ queue'[q] = queue[q] /\ enqueued'[q] = enqueued[q]

Alone(p) == \A q \in Processes \ {p} : Rests(q)

\* A process at rest keeps what it was about, unless somebody changes a row
\* it holds or makes its grant.
LEMMA OthersKeep ==
  ASSUME Inv, NEW q \in Processes, Rests(q),
         \A g \in Grants : grants[g].made => grants'[g].made,
         \A g \in Grants : grants'[g] # grants[g] => g \notin locked[q],
         InTransaction(q) /\ operation[q] = "grant" => grants'[target[q]] = grants[target[q]]
  PROVE  ProcInv(q)'
  <1>1. ProcInv(q) /\ TypeOK /\ written[q] \subseteq locked[q] \cap Grants /\ matched[q] \subseteq Grants
    BY DEF Inv, TypeOK
  <1>2. Purpose(q)'
    BY <1>1 DEF ProcInv, Purpose, Rests, InTransaction
  <1>3. HoldsRows(q)'
    BY <1>1 DEF ProcInv, HoldsRows, Rests
  <1>4. WritesOpenRows(q)'
    <2>1. \A g \in written[q] : grants'[g] = grants[g]
      BY <1>1
    <2> QED BY <1>1, <2>1 DEF ProcInv, WritesOpenRows, Rests
  <1>5. EnqueuesUsers(q)'
    BY <1>1 DEF ProcInv, EnqueuesUsers, ToEnqueue, Rests
  <1> QED BY <1>2, <1>3, <1>4, <1>5 DEF ProcInv

\* The variables of transactions, and the others.
TransactionTypeOK ==
  /\ pc \in [Processes -> Places]
  /\ operation \in [Processes -> AllOperations \cup {"sweep"}]
  /\ target \in [Processes -> Grants \cup Tenants \cup {"none"}]
  /\ clock \in [Processes -> SUBSET expired]
  /\ locked \in [Processes -> SUBSET (Grants \cup Tenants)]
  /\ written \in [Processes -> SUBSET Grants]
  /\ \A p \in Processes : written[p] \subseteq locked[p]
  /\ matched \in [Processes -> SUBSET Grants]
  /\ queue \in [Processes -> Seq(Admins)]
  /\ enqueued \in [Processes -> SUBSET Admins]

RestTypeOK ==
  /\ grants \in [Grants -> Row] /\ deleted \subseteq Tenants /\ expired \subseteq Grants
  /\ queued \in [Admins -> BOOLEAN] /\ orgQueued \subseteq deleted
  /\ reading \in [Admins -> (SUBSET Tenants) \cup {NotRunning}]
  /\ member \in [Admins -> SUBSET Tenants] /\ endSyncs \in [Grants -> Nat]

LEMMA TypeParts == (TypeOK <=> TransactionTypeOK /\ RestTypeOK)
                     /\ (TypeOK' <=> TransactionTypeOK' /\ RestTypeOK')
  BY DEF TypeOK, TransactionTypeOK, RestTypeOK

\* A step of p that commits nothing.
LEMMA LocalStep ==
  ASSUME Inv, NEW p \in Processes, Alone(p),
         UNCHANGED <<grants, deleted, expired, outbox, mirror, endSyncs>>,
         TransactionTypeOK', ProcInv(p)',
         \A r \in locked'[p] : r \in locked[p] \/ FreeFor(p, r),
         InTransaction(p)' /\ operation'[p] = "grant" =>
           \A q \in Processes \ {p} :
             ~(InTransaction(q) /\ operation[q] = "grant" /\ target[q] = target'[p])
  PROVE  Inv'
  <1> USE DEF outbox, mirror
  <1>0. TypeOK'
    <2>1. RestTypeOK /\ RestTypeOK'
      BY TypeParts DEF Inv, RestTypeOK
    <2> QED BY <2>1, TypeParts
  <1>1. \A q \in Processes \ {p} : ProcInv(q)'
    BY OthersKeep DEF Alone
  <1>2. LocksApart'
    <2> SUFFICES ASSUME NEW u \in Processes, NEW v \in Processes, u # v,
                        NEW r, r \in locked'[u], r \in locked'[v]
                 PROVE  FALSE
      BY DEF LocksApart
    <2>1. CASE u # p /\ v # p
      BY <2>1 DEF Alone, Rests, Inv, LocksApart
    <2>2. CASE u = p
      BY <2>2 DEF Alone, Rests, Inv, LocksApart, FreeFor, Holders
    <2>3. CASE v = p
      BY <2>3 DEF Alone, Rests, Inv, LocksApart, FreeFor, Holders
    <2> QED BY <2>1, <2>2, <2>3
  <1>3. NewGrantsApart'
    <2> SUFFICES ASSUME NEW u \in Processes, NEW v \in Processes, u # v,
                        InTransaction(u)', operation'[u] = "grant",
                        InTransaction(v)', operation'[v] = "grant", target'[u] = target'[v]
                 PROVE  FALSE
      BY DEF NewGrantsApart
    <2> QED BY DEF Alone, Rests, Inv, NewGrantsApart, InTransaction
  <1>4. EndsAreFinal'
    BY DEF Inv, EndsAreFinal
  <1>5. AccessIsAccountedFor'
    <2>1. \A u \in Admins : Access(u)' = Access(u) /\ Desired(u)' = Desired(u)
      BY DEF Access, Desired, InEffect
    <2> QED BY <2>1 DEF Inv, AccessIsAccountedFor, IsOpen
  <1> QED BY <1>0, <1>1, <1>2, <1>3, <1>4, <1>5 DEF Inv

\* p is through, whatever it held.
Cleared(p) ==
  /\ pc'[p] \in {"idle", "end"} /\ operation'[p] = operation[p] /\ target'[p] = target[p]
  /\ locked'[p] = {} /\ written'[p] = {} /\ matched'[p] = {} /\ clock'[p] = {}
  /\ queue'[p] = << >> /\ enqueued'[p] = {}

LEMMA ClearStep ==
  ASSUME Inv, NEW p \in Processes, Clear(p), expired' = expired
  PROVE  TransactionTypeOK' /\ Alone(p) /\ Cleared(p) /\ ProcInv(p)'
  <1>1. TypeOK /\ ProcInv(p)
    BY DEF Inv
  <1>2. AfterTransaction(p) \in {"idle", "end"}
    BY DEF AfterTransaction
  <1>3. Cleared(p) /\ Alone(p)
    BY <1>1, <1>2 DEF TypeOK, Clear, Become, Cleared, Alone, Rests
  <1>4. TransactionTypeOK'
    <2>1. pc' \in [Processes -> Places]
      BY <1>1, <1>2 DEF TypeOK, Clear, Become
    <2>2. clock' \in [Processes -> SUBSET expired'] /\ locked' \in [Processes -> SUBSET (Grants \cup Tenants)]
          /\ matched' \in [Processes -> SUBSET Grants] /\ written' \in [Processes -> SUBSET Grants]
      BY <1>1 DEF TypeOK, Clear
    <2>3. queue' \in [Processes -> Seq(Admins)] /\ enqueued' \in [Processes -> SUBSET Admins]
      BY <1>1 DEF TypeOK, Clear
    <2>4. \A q \in Processes : written'[q] \subseteq locked'[q]
      BY <1>1, <1>3 DEF TypeOK, Cleared, Alone, Rests
    <2> QED BY <1>1, <2>1, <2>2, <2>3, <2>4 DEF TypeOK, TransactionTypeOK, Clear
  <1>5. ProcInv(p)'
    BY <1>1, <1>3 DEF ProcInv, Purpose, HoldsRows, WritesOpenRows, EnqueuesUsers, Cleared, InTransaction
  <1> QED BY <1>3, <1>4, <1>5

LEMMA RollbackStep ==
  ASSUME Inv, NEW p \in Processes, Rollback(p)
  PROVE  Inv'
  <1>1. Clear(p) /\ UNCHANGED <<grants, deleted, expired, outbox, mirror, endSyncs>>
    BY DEF Rollback
  <1>2. TransactionTypeOK' /\ Alone(p) /\ Cleared(p) /\ ProcInv(p)'
    BY <1>1, ClearStep
  <1> QED BY <1>1, <1>2, LocalStep DEF Cleared, InTransaction
LEMMA EnqueueUsersStep ==
  ASSUME TypeOK, NEW p \in Processes, NEW G \in SUBSET Grants, EnqueueUsersOf(p, G)
  PROVE  /\ queue' \in [Processes -> Seq(Admins)] /\ pc' \in [Processes -> Places]
         /\ \A q \in Processes \ {p} : queue'[q] = queue[q] /\ pc'[q] = pc[q]
         /\ pc'[p] = IF G = {} THEN "commit" ELSE "enqueue"
         /\ G # {} => queue'[p] # << >>
         /\ \A g \in G : AdminOf[g] \in ToEnqueue(p)'
  <1> DEFINE U == {AdminOf[g] : g \in G}
  <1>1. IsFiniteSet(U) /\ U \subseteq Admins
    BY UsersAreFinite
  <1>2. PICK order \in Orders(U) : queue' = [queue EXCEPT ![p] = order]
    BY DEF EnqueueUsersOf
  <1>8. (U = {} <=> G = {}) /\ \A g \in G : AdminOf[g] \in U
    OBVIOUS
  <1> HIDE DEF U
  <1>3. /\ order \in Seq(U) /\ {order[i] : i \in 1..Len(order)} = U
        /\ order = << >> <=> U = {}
    BY <1>1, OrdersAreComplete
  <1>4. order \in Seq(Admins)
    BY <1>1, <1>3
  <1>5. queue'[p] = order /\ queue' \in [Processes -> Seq(Admins)]
        /\ \A q \in Processes \ {p} : queue'[q] = queue[q]
    BY <1>2, <1>4 DEF TypeOK
  <1>6. /\ pc' \in [Processes -> Places] /\ pc'[p] = IF G = {} THEN "commit" ELSE "enqueue"
        /\ \A q \in Processes \ {p} : pc'[q] = pc[q]
    BY DEF EnqueueUsersOf, Become, TypeOK
  <1>7. ToEnqueue(p)' = U
    BY <1>3, <1>5 DEF ToEnqueue
  <1> QED BY <1>3, <1>5, <1>6, <1>7, <1>8

\* A request begins: what it is about is there, or nobody else's.
LEMMA BeginStep ==
  ASSUME Inv, NEW p \in Requests, RequestGrant(p) \/ RequestRevoke(p) \/ RequestDelete(p)
  PROVE  Inv'
  <1>1. PICK o \in AllOperations, x \in Grants \cup Tenants :
          /\ Begin(p, o, x)
          /\ o \in {"grant", "revoke"} => x \in Grants
          /\ o = "deleteTenant" => x \in Tenants
          /\ o = "revoke" => grants[x].made
          /\ o = "grant" => ~grants[x].made /\ \A q \in Requests : pc[q] = "idle" \/ target[q] # x
    <2>1. CASE RequestGrant(p)
      <3>1. PICK g \in Grants : /\ ~grants[g].made /\ Begin(p, "grant", g)
                                /\ \A q \in Requests : pc[q] = "idle" \/ target[q] # g
        BY <2>1 DEF RequestGrant
      <3> QED BY <3>1
    <2>2. CASE RequestRevoke(p)
      <3>1. PICK g \in Grants : grants[g].made /\ Begin(p, "revoke", g)
        BY <2>2 DEF RequestRevoke
      <3> QED BY <3>1
    <2>3. CASE RequestDelete(p)
      <3>1. PICK t \in Tenants : Begin(p, "deleteTenant", t)
        BY <2>3 DEF RequestDelete
      <3> QED BY <3>1
    <2> QED BY <2>1, <2>2, <2>3
  <1>2. TypeOK /\ p \in Processes /\ ProcInv(p) /\ pc[p] = "idle" /\ p \notin Sweepers
        /\ UNCHANGED <<grants, deleted, expired, outbox, mirror, endSyncs>>
        /\ UNCHANGED <<locked, written, matched, queue, enqueued>>
    BY <1>1, Kinds DEF Inv, Processes, Begin
  <1>3. /\ Alone(p) /\ pc'[p] = "begun" /\ operation'[p] = o /\ target'[p] = x
        /\ locked[p] = {} /\ written[p] = {}
    BY <1>1, <1>2 DEF Begin, Become, TypeOK, Alone, Rests, ProcInv, HoldsRows
  <1>4. TransactionTypeOK'
    <2>1. pc' \in [Processes -> Places] /\ operation' \in [Processes -> AllOperations \cup {"sweep"}]
      BY <1>1, <1>2 DEF Begin, Become, TypeOK
    <2>2. target' \in [Processes -> Grants \cup Tenants \cup {"none"}]
      BY <1>1, <1>2 DEF Begin, TypeOK
    <2>3. clock' \in [Processes -> SUBSET expired']
      BY <1>1, <1>2 DEF Begin, TypeOK
    <2> QED BY <1>2, <2>1, <2>2, <2>3 DEF TypeOK, TransactionTypeOK
  <1>5. ProcInv(p)'
    <2>1. Purpose(p)'
      BY <1>1, <1>2, <1>3 DEF Purpose
    <2>2. HoldsRows(p)'
      BY <1>1, <1>2, <1>3 DEF ProcInv, HoldsRows
    <2> QED BY <1>2, <1>3, <2>1, <2>2 DEF ProcInv, WritesOpenRows, EnqueuesUsers
  <1>6. ASSUME operation'[p] = "grant", NEW q \in Processes \ {p}, InTransaction(q),
               operation[q] = "grant", target[q] = target'[p]
        PROVE  FALSE
    <2>1. q \in Requests
      BY <1>6 DEF Processes, Inv, ProcInv, Purpose
    <2> QED BY <1>1, <1>3, <1>6, <2>1 DEF InTransaction
  <1> QED BY <1>2, <1>3, <1>4, <1>5, <1>6, LocalStep

LEMMA SweepStep ==
  ASSUME Inv, NEW p \in Sweepers, Sweep(p)
  PROVE  Inv'
  <1>1. TypeOK /\ p \in Processes /\ ProcInv(p) /\ pc[p] = "idle" /\ operation[p] = "sweep"
        /\ UNCHANGED <<grants, deleted, expired, outbox, mirror, endSyncs>>
        /\ UNCHANGED <<operation, target, locked, written, matched, queue, enqueued>>
    BY DEF Inv, Processes, Sweep, ProcInv, Purpose
  <1>2. Alone(p) /\ pc'[p] = "begun" /\ locked[p] = {} /\ written[p] = {}
    BY <1>1 DEF Sweep, Become, TypeOK, Alone, Rests, ProcInv, HoldsRows
  <1>3. TransactionTypeOK'
    <2>1. pc' \in [Processes -> Places] /\ clock' \in [Processes -> SUBSET expired']
      BY <1>1 DEF Sweep, Become, TypeOK
    <2> QED BY <1>1, <2>1 DEF TypeOK, TransactionTypeOK
  <1>4. ProcInv(p)'
    BY <1>1, <1>2 DEF ProcInv, Purpose, HoldsRows, WritesOpenRows, EnqueuesUsers
  <1> QED BY <1>1, <1>2, <1>3, <1>4, LocalStep
\* The transaction that locks its rows in one statement, writes them all, and
\* goes on to their users.
LEMMA LockAndEnqueue ==
  ASSUME Inv, NEW p \in Processes, NEW L \in SUBSET (Grants \cup Tenants), NEW G \in SUBSET Grants,
         G \subseteq L, pc[p] = "begun",
         locked' = [locked EXCEPT ![p] = L], written' = [written EXCEPT ![p] = G],
         EnqueueUsersOf(p, G),
         UNCHANGED <<grants, deleted, expired, operation, target, clock, matched,
                     enqueued, outbox, mirror, endSyncs>>,
         \A r \in L : FreeFor(p, r),
         operation[p] = "grant" => L = {target[p]},
         operation[p] # "grant" =>
           /\ \A g \in L \cap Grants : grants[g].made
           /\ \A g \in G : IF operation[p] = "revoke" THEN ~grants[g].revoked /\ g \notin clock[p]
                                                      ELSE ~grants[g].synced
  PROVE  Inv'
  <1>1. TypeOK /\ ProcInv(p)
    BY DEF Inv
  <1>2. /\ queue' \in [Processes -> Seq(Admins)] /\ pc' \in [Processes -> Places]
        /\ \A q \in Processes \ {p} : queue'[q] = queue[q] /\ pc'[q] = pc[q]
        /\ pc'[p] = IF G = {} THEN "commit" ELSE "enqueue"
        /\ G # {} => queue'[p] # << >>
        /\ \A g \in G : AdminOf[g] \in ToEnqueue(p)'
    BY <1>1, EnqueueUsersStep
  <1>3. locked'[p] = L /\ written'[p] = G
    BY <1>1 DEF TypeOK
  <1>4. Alone(p)
    BY <1>1, <1>2 DEF Alone, Rests, TypeOK
  <1>5. TransactionTypeOK'
    <2>1. /\ locked' \in [Processes -> SUBSET (Grants \cup Tenants)]
          /\ written' \in [Processes -> SUBSET Grants]
      BY <1>1 DEF TypeOK
    <2>2. \A q \in Processes : written'[q] \subseteq locked'[q]
      BY <1>1, <1>3, <1>4 DEF TypeOK, Alone, Rests
    <2> QED BY <1>1, <1>2, <2>1, <2>2 DEF TypeOK, TransactionTypeOK
  <1>6. ProcInv(p)'
    <2>1. Purpose(p)'
      BY <1>1, <1>2, <1>3 DEF ProcInv, Purpose, InTransaction
    <2>2. HoldsRows(p)'
      BY <1>1, <1>2, <1>3 DEF ProcInv, HoldsRows
    <2>3. WritesOpenRows(p)'
      BY <1>1, <1>3 DEF WritesOpenRows
    <2>4. EnqueuesUsers(p)'
      BY <1>2, <1>3 DEF EnqueuesUsers
    <2> QED BY <2>1, <2>2, <2>3, <2>4 DEF ProcInv
  <1>7. \A r \in locked'[p] : FreeFor(p, r)
    BY <1>3
  <1>8. ASSUME operation'[p] = "grant"
        PROVE  \A q \in Processes \ {p} :
                 ~(InTransaction(q) /\ operation[q] = "grant" /\ target[q] = target'[p])
    BY <1>8 DEF Inv, NewGrantsApart, InTransaction
  <1> QED BY <1>4, <1>5, <1>6, <1>7, <1>8, LocalStep

LEMMA InsertGrantStep ==
  ASSUME Inv, NEW p \in Processes, InsertGrant(p)
  PROVE  Inv'
  <1>1. TypeOK /\ ProcInv(p) /\ pc[p] = "begun" /\ operation[p] = "grant"
    BY DEF Inv, InsertGrant
  <1>2. target[p] \in Grants /\ ~grants[target[p]].made
    BY <1>1 DEF ProcInv, Purpose, InTransaction
  <1>3. FreeFor(p, target[p])
    <2> SUFFICES ASSUME NEW q \in Processes \ {p}, target[p] \in locked[q]  PROVE FALSE
      BY DEF FreeFor, Holders
    <2>1. ProcInv(q) /\ operation[q] = "grant" /\ InTransaction(q)
      BY <1>1, <1>2 DEF Inv, ProcInv, HoldsRows, InTransaction, TypeOK
    <2>2. target[q] = target[p]
      BY <2>1 DEF ProcInv, Purpose
    <2> QED BY <1>1, <2>1, <2>2 DEF Inv, NewGrantsApart, InTransaction
  <1>4. /\ locked' = [locked EXCEPT ![p] = {target[p]}]
        /\ written' = [written EXCEPT ![p] = {target[p]}]
        /\ EnqueueUsersOf(p, {target[p]})
        /\ UNCHANGED <<grants, deleted, expired, operation, target, clock, matched,
                       enqueued, outbox, mirror, endSyncs>>
    BY DEF InsertGrant
  <1>5. /\ {target[p]} \in SUBSET (Grants \cup Tenants) /\ {target[p]} \in SUBSET Grants
        /\ \A r \in {target[p]} : FreeFor(p, r)
    BY <1>2, <1>3
  <1> QED BY <1>1, <1>4, <1>5, LockAndEnqueue

LEMMA UpdateRevokedStep ==
  ASSUME Inv, NEW p \in Processes, UpdateRevoked(p)
  PROVE  Inv'
  <1>1. TypeOK /\ ProcInv(p) /\ pc[p] = "begun" /\ operation[p] = "revoke" /\ FreeFor(p, target[p])
    BY DEF Inv, UpdateRevoked
  <1>2. target[p] \in Grants /\ grants[target[p]].made
    BY <1>1 DEF ProcInv, Purpose, InTransaction
  <1> DEFINE G == {g \in {target[p]} : Revocable(p, g)}
  <1>3. /\ locked' = [locked EXCEPT ![p] = {target[p]}]
        /\ written' = [written EXCEPT ![p] = G]
        /\ EnqueueUsersOf(p, G)
        /\ UNCHANGED <<grants, deleted, expired, operation, target, clock, matched,
                       enqueued, outbox, mirror, endSyncs>>
    BY DEF UpdateRevoked
  <1>4. /\ G \subseteq {target[p]} /\ G \in SUBSET Grants
        /\ \A g \in G : ~grants[g].revoked /\ g \notin clock[p]
    BY <1>2 DEF Revocable
  <1> HIDE DEF G
  <1> QED BY <1>1, <1>2, <1>3, <1>4, LockAndEnqueue

LEMMA ClaimExpiredStep ==
  ASSUME Inv, NEW p \in Processes, ClaimExpired(p)
  PROVE  Inv'
  <1>1. TypeOK /\ ProcInv(p) /\ pc[p] = "begun" /\ operation[p] = "sweep"
    BY DEF Inv, ClaimExpired, ProcInv, Purpose
  <1>2. PICK G \in SUBSET {g \in Grants : Claimable(p, g) /\ FreeFor(p, g)} :
          /\ locked' = [locked EXCEPT ![p] = G]
          /\ written' = [written EXCEPT ![p] = G]
          /\ EnqueueUsersOf(p, G)
    BY DEF ClaimExpired
  <1>3. UNCHANGED <<grants, deleted, expired, operation, target, clock, matched,
                    enqueued, outbox, mirror, endSyncs>>
    BY DEF ClaimExpired
  <1>4. /\ G \in SUBSET Grants /\ G \subseteq Grants \cup Tenants
        /\ \A g \in G : FreeFor(p, g) /\ grants[g].made /\ ~grants[g].synced
    BY DEF Claimable, IsOpen
  <1> QED BY <1>1, <1>2, <1>3, <1>4, LockAndEnqueue

LEMMA MarkTenantDeletedStep ==
  ASSUME Inv, NEW p \in Processes, MarkTenantDeleted(p)
  PROVE  Inv'
  <1>1. TypeOK /\ ProcInv(p) /\ pc[p] = "begun" /\ operation[p] = "deleteTenant"
        /\ FreeFor(p, target[p])
        /\ UNCHANGED <<grants, deleted, expired, operation, target, clock, written, queue,
                       enqueued, outbox, mirror, endSyncs>>
    BY DEF Inv, MarkTenantDeleted
  <1>2. target[p] \in Tenants /\ locked[p] = {} /\ written[p] = {}
    BY <1>1 DEF ProcInv, Purpose, HoldsRows, InTransaction, TypeOK
  <1> DEFINE M == {g \in Grants : EndedByDelete(p, g)}
  <1>3. M \subseteq Grants /\ \A g \in M : grants[g].made
    BY DEF EndedByDelete, IsOpen
  <1>4. /\ locked' = [locked EXCEPT ![p] = {target[p]}] /\ matched' = [matched EXCEPT ![p] = M]
        /\ pc' = [pc EXCEPT ![p] = "scanned"]
    BY DEF MarkTenantDeleted, Become
  <1> HIDE DEF M
  <1>5. Alone(p) /\ locked'[p] = {target[p]} /\ matched'[p] = M /\ pc'[p] = "scanned"
    BY <1>1, <1>4 DEF Alone, Rests, TypeOK
  <1>6. TransactionTypeOK'
    <2>1. /\ locked' \in [Processes -> SUBSET (Grants \cup Tenants)] /\ pc' \in [Processes -> Places]
          /\ matched' \in [Processes -> SUBSET Grants]
      BY <1>1, <1>2, <1>3, <1>4 DEF TypeOK
    <2>2. \A q \in Processes : written'[q] \subseteq locked'[q]
      BY <1>1, <1>2, <1>5 DEF TypeOK, Alone, Rests
    <2> QED BY <1>1, <2>1, <2>2 DEF TypeOK, TransactionTypeOK
  <1>7. ProcInv(p)'
    <2>1. Purpose(p)'
      BY <1>1, <1>2, <1>5 DEF ProcInv, Purpose, InTransaction
    <2>2. HoldsRows(p)'
      BY <1>1, <1>2, <1>3, <1>5, Kinds DEF ProcInv, HoldsRows
    <2> QED BY <1>1, <1>2, <1>5, <2>1, <2>2 DEF ProcInv, WritesOpenRows, EnqueuesUsers
  <1> QED BY <1>1, <1>5, <1>6, <1>7, LocalStep

LEMMA EndGrantStep ==
  ASSUME Inv, NEW p \in Processes, NEW g \in Grants, EndGrant(p, g)
  PROVE  Inv'
  <1>1. TypeOK /\ ProcInv(p) /\ pc[p] = "scanned" /\ g \in matched[p] /\ FreeFor(p, g)
        /\ UNCHANGED <<grants, deleted, expired, pc, operation, target, clock, queue,
                       enqueued, outbox, mirror, endSyncs>>
    BY DEF Inv, EndGrant
  <1>2. operation[p] = "deleteTenant" /\ grants[g].made
    BY <1>1 DEF ProcInv, Purpose, HoldsRows, InTransaction
  <1> DEFINE W == IF EndedByDelete(p, g) THEN written[p] \cup {g} ELSE written[p]
  <1>3. /\ matched' = [matched EXCEPT ![p] = matched[p] \ {g}]
        /\ locked' = [locked EXCEPT ![p] = locked[p] \cup {g}]
        /\ written' = [written EXCEPT ![p] = W]
    BY DEF EndGrant
  <1>4. /\ W \subseteq written[p] \cup {g} /\ W \subseteq Grants
        /\ g \in W => g \in written[p] \/ ~grants[g].synced
    BY <1>1 DEF TypeOK, EndedByDelete, IsOpen
  <1> HIDE DEF W
  <1>5. /\ Alone(p) /\ matched'[p] = matched[p] \ {g} /\ locked'[p] = locked[p] \cup {g}
        /\ written'[p] = W
    BY <1>1, <1>3 DEF Alone, Rests, TypeOK
  <1>6. TransactionTypeOK'
    <2>1. /\ locked' \in [Processes -> SUBSET (Grants \cup Tenants)]
          /\ matched' \in [Processes -> SUBSET Grants] /\ written' \in [Processes -> SUBSET Grants]
      BY <1>1, <1>3, <1>4 DEF TypeOK
    <2>2. \A q \in Processes : written'[q] \subseteq locked'[q]
      BY <1>1, <1>4, <1>5 DEF TypeOK, Alone, Rests
    <2> QED BY <1>1, <2>1, <2>2 DEF TypeOK, TransactionTypeOK
  <1>7. ProcInv(p)'
    <2>1. Purpose(p)'
      BY <1>1, <1>2 DEF ProcInv, Purpose, InTransaction
    <2>2. HoldsRows(p)'
      BY <1>1, <1>2, <1>5 DEF ProcInv, HoldsRows
    <2>3. WritesOpenRows(p)'
      BY <1>1, <1>2, <1>4, <1>5 DEF ProcInv, WritesOpenRows
    <2> QED BY <1>1, <2>1, <2>2, <2>3 DEF ProcInv, EnqueuesUsers
  <1>8. \A r \in locked'[p] : r \in locked[p] \/ FreeFor(p, r)
    BY <1>1, <1>5
  <1> QED BY <1>1, <1>2, <1>5, <1>6, <1>7, <1>8, LocalStep

LEMMA GrantsEndedStep ==
  ASSUME Inv, NEW p \in Processes, GrantsEnded(p)
  PROVE  Inv'
  <1>1. TypeOK /\ ProcInv(p) /\ pc[p] = "scanned" /\ EnqueueUsersOf(p, written[p])
        /\ UNCHANGED <<grants, deleted, expired, operation, target, clock, locked, written,
                       matched, enqueued, outbox, mirror, endSyncs>>
    BY DEF Inv, GrantsEnded
  <1>2. operation[p] = "deleteTenant" /\ written[p] \in SUBSET Grants
    BY <1>1 DEF ProcInv, Purpose, InTransaction, TypeOK
  <1>3. /\ queue' \in [Processes -> Seq(Admins)] /\ pc' \in [Processes -> Places]
        /\ \A q \in Processes \ {p} : queue'[q] = queue[q] /\ pc'[q] = pc[q]
        /\ pc'[p] = IF written[p] = {} THEN "commit" ELSE "enqueue"
        /\ written[p] # {} => queue'[p] # << >>
        /\ \A g \in written[p] : AdminOf[g] \in ToEnqueue(p)'
    BY <1>1, <1>2, EnqueueUsersStep
  <1>4. Alone(p)
    BY <1>1, <1>3 DEF Alone, Rests
  <1>5. TransactionTypeOK'
    BY <1>1, <1>3 DEF TypeOK, TransactionTypeOK
  <1>6. ProcInv(p)'
    <2>1. Purpose(p)' /\ HoldsRows(p)' /\ WritesOpenRows(p)'
      BY <1>1, <1>2, <1>3 DEF ProcInv, Purpose, HoldsRows, WritesOpenRows, InTransaction
    <2>2. EnqueuesUsers(p)'
      BY <1>1, <1>3 DEF EnqueuesUsers
    <2> QED BY <2>1, <2>2 DEF ProcInv
  <1> QED BY <1>1, <1>2, <1>4, <1>5, <1>6, LocalStep

LEMMA EnqueueNextStep ==
  ASSUME Inv, NEW p \in Processes, EnqueueNext(p)
  PROVE  Inv'
  <1>1. TypeOK /\ ProcInv(p) /\ pc[p] = "enqueue" /\ queue[p] \in Seq(Admins) /\ queue[p] # << >>
        /\ UNCHANGED <<grants, deleted, expired, operation, target, clock, locked, written,
                       matched, outbox, mirror, endSyncs>>
    BY DEF Inv, EnqueueNext, ProcInv, EnqueuesUsers, TypeOK
  <1>2. /\ Head(queue[p]) \in Admins /\ Tail(queue[p]) \in Seq(Admins)
        /\ \A x : (\E i \in 1..Len(queue[p]) : queue[p][i] = x) =>
             x = Head(queue[p]) \/ \E i \in 1..Len(Tail(queue[p])) : Tail(queue[p])[i] = x
        /\ Len(queue[p]) = 1 <=> Tail(queue[p]) = << >>
    BY <1>1, HeadAndTail
  <1>3. /\ enqueued' = [enqueued EXCEPT ![p] = enqueued[p] \cup {Head(queue[p])}]
        /\ queue' = [queue EXCEPT ![p] = Tail(queue[p])]
        /\ pc' = [pc EXCEPT ![p] = IF Len(queue[p]) = 1 THEN "commit" ELSE "enqueue"]
    BY DEF EnqueueNext, Become
  <1>4. /\ Alone(p) /\ enqueued'[p] = enqueued[p] \cup {Head(queue[p])}
        /\ queue'[p] = Tail(queue[p])
        /\ pc'[p] = IF Tail(queue[p]) = << >> THEN "commit" ELSE "enqueue"
    BY <1>1, <1>2, <1>3 DEF Alone, Rests, TypeOK
  <1>5. TransactionTypeOK'
    <2>1. /\ enqueued' \in [Processes -> SUBSET Admins] /\ queue' \in [Processes -> Seq(Admins)]
          /\ pc' \in [Processes -> Places]
      BY <1>1, <1>2, <1>3 DEF TypeOK
    <2> QED BY <1>1, <2>1 DEF TypeOK, TransactionTypeOK
  <1>6. ProcInv(p)'
    <2>1. Purpose(p)' /\ HoldsRows(p)' /\ WritesOpenRows(p)'
      BY <1>1, <1>4 DEF ProcInv, Purpose, HoldsRows, WritesOpenRows, InTransaction
    <2>2. \A g \in written[p] : AdminOf[g] \in enqueued'[p] \cup ToEnqueue(p)'
      <3>1. ToEnqueue(p)' = {Tail(queue[p])[i] : i \in 1..Len(Tail(queue[p]))}
        BY <1>4 DEF ToEnqueue
      <3>2. \A g \in written[p] : AdminOf[g] \in enqueued[p] \/ \E i \in 1..Len(queue[p]) : queue[p][i] = AdminOf[g]
        BY <1>1 DEF ProcInv, EnqueuesUsers, ToEnqueue
      <3>3. ASSUME NEW i \in 1..Len(queue[p])
            PROVE  queue[p][i] = Head(queue[p]) \/ queue[p][i] \in ToEnqueue(p)'
        BY <1>2, <3>1
      <3> QED BY <1>4, <3>2, <3>3
    <2>3. Tail(queue[p]) = << >> => ToEnqueue(p)' = {}
      BY <1>4 DEF ToEnqueue
    <2>4. EnqueuesUsers(p)'
      BY <1>1, <1>4, <2>2, <2>3 DEF EnqueuesUsers
    <2> QED BY <2>1, <2>4 DEF ProcInv
  <1>7. ASSUME operation'[p] = "grant"
        PROVE  \A q \in Processes \ {p} :
                 ~(InTransaction(q) /\ operation[q] = "grant" /\ target[q] = target'[p])
    BY <1>1, <1>7 DEF Inv, NewGrantsApart, InTransaction
  <1> QED BY <1>1, <1>4, <1>5, <1>6, <1>7, LocalStep
\* A commit ends the grants it has written, or makes one.
LEMMA CommittedRows ==
  ASSUME Inv, NEW p \in Processes, Commit(p)
  PROVE  /\ \A g \in Grants \ written[p] : grants'[g] = grants[g] /\ endSyncs'[g] = endSyncs[g]
         /\ operation[p] = "grant" =>
              \A g \in written[p] : /\ g = target[p] /\ ~grants[g].made
                                    /\ grants'[g] = [made |-> TRUE, revoked |-> FALSE, synced |-> FALSE]
                                    /\ endSyncs'[g] = endSyncs[g]
         /\ operation[p] # "grant" =>
              \A g \in written[p] : /\ grants[g].made /\ grants'[g].made
                                    /\ grants'[g].synced
                                    /\ grants'[g].revoked \/ g \in clock[p]
                                    /\ g \notin clock[p] => grants'[g].revoked
                                    /\ grants'[g] \in Row
                                    /\ endSyncs'[g] = endSyncs[g] + 1
  <1>1. TypeOK /\ ProcInv(p) /\ pc[p] = "commit" /\ written[p] \subseteq Grants
        /\ written[p] \subseteq locked[p]
    BY DEF Inv, Commit, TypeOK
  <1>2. \A g \in Grants \ written[p] : grants'[g] = grants[g] /\ endSyncs'[g] = endSyncs[g]
    BY DEF Commit
  <1>3. ASSUME operation[p] = "grant", NEW g \in written[p]
        PROVE  /\ g = target[p] /\ ~grants[g].made
               /\ grants'[g] = [made |-> TRUE, revoked |-> FALSE, synced |-> FALSE]
               /\ endSyncs'[g] = endSyncs[g]
    <2>1. g = target[p] /\ ~grants[g].made
      BY <1>1, <1>3 DEF ProcInv, Purpose, InTransaction
    <2>2. grants'[g] = [NoRow EXCEPT !.made = TRUE] /\ endSyncs'[g] = endSyncs[g]
      BY <1>1, <1>3 DEF Commit
    <2> QED BY <2>1, <2>2 DEF NoRow
  <1>4. ASSUME operation[p] # "grant", NEW g \in written[p]
        PROVE  /\ grants[g].made /\ grants'[g].made
               /\ grants'[g].synced
               /\ grants'[g].revoked \/ g \in clock[p]
               /\ g \notin clock[p] => grants'[g].revoked
               /\ grants'[g] \in Row
               /\ endSyncs'[g] = endSyncs[g] + 1
    <2>1. grants'[g] = EndedRow(p, g) /\ endSyncs'[g] = endSyncs[g] + 1
      BY <1>1, <1>4 DEF Commit
    <2>2. grants[g] \in Row /\ grants[g].made
      BY <1>1, <1>4 DEF TypeOK, ProcInv, WritesOpenRows
    <2>3. /\ EndedRow(p, g).made = grants[g].made /\ EndedRow(p, g).synced = TRUE
          /\ EndedRow(p, g).revoked = (grants[g].revoked \/ g \notin clock[p])
          /\ EndedRow(p, g) \in Row
      BY <2>2 DEF EndedRow, Row
    <2> QED BY <2>1, <2>2, <2>3
  <1> QED BY <1>2, <1>3, <1>4

LEMMA CommitStep ==
  ASSUME Inv, NEW p \in Processes, Commit(p)
  PROVE  Inv'
  <1>1. TypeOK /\ ProcInv(p) /\ pc[p] = "commit" /\ written[p] \subseteq Grants
        /\ written[p] \subseteq locked[p] /\ UNCHANGED <<expired, mirror>> /\ clock[p] \subseteq expired
    BY DEF Inv, Commit, TypeOK
  <1>2. TransactionTypeOK' /\ Alone(p) /\ Cleared(p) /\ ProcInv(p)'
    BY <1>1, ClearStep DEF Commit
  <1>3. \A g \in Grants : grants[g].made => grants'[g].made
    BY CommittedRows
  <1>4. TypeOK'
    <2>1. ASSUME NEW g \in Grants  PROVE grants'[g] \in Row /\ endSyncs'[g] \in Nat
      <3>1. grants[g] \in Row /\ endSyncs[g] \in Nat
        BY <1>1 DEF TypeOK
      <3>2. [made |-> TRUE, revoked |-> FALSE, synced |-> FALSE] \in Row
        BY DEF Row
      <3>3. CASE g \notin written[p]
        BY <3>1, <3>3, CommittedRows
      <3>4. CASE g \in written[p] /\ operation[p] = "grant"
        BY <3>1, <3>2, <3>4, CommittedRows
      <3>5. CASE g \in written[p] /\ operation[p] # "grant"
        BY <3>1, <3>5, CommittedRows
      <3> QED BY <3>3, <3>4, <3>5
    <2>2. grants' \in [Grants -> Row] /\ endSyncs' \in [Grants -> Nat]
      BY <2>1 DEF Commit
    <2>3. deleted' \subseteq Tenants
      BY <1>1 DEF Commit, TypeOK, ProcInv, Purpose, InTransaction
    <2>4. orgQueued' \subseteq deleted' /\ queued' \in [Admins -> BOOLEAN]
      BY DEF Commit
    <2> QED BY <1>1, <1>2, <2>2, <2>3, <2>4, TypeParts DEF TypeOK, RestTypeOK, mirror
  <1>5. ASSUME NEW q \in Processes \ {p}  PROVE ProcInv(q)'
    <2>1. \A g \in Grants : grants'[g] # grants[g] => g \in locked[p] /\ g \notin locked[q]
      BY <1>1, CommittedRows DEF Inv, LocksApart
    <2>2. ASSUME InTransaction(q), operation[q] = "grant", grants'[target[q]] # grants[target[q]]
          PROVE  FALSE
      <3>1. target[q] \in Grants /\ ~grants[target[q]].made
        BY <2>2 DEF Inv, ProcInv, Purpose
      <3>2. operation[p] = "grant" /\ target[p] = target[q]
        BY <2>2, <3>1, CommittedRows
      <3> QED BY <1>1, <2>2, <3>2 DEF Inv, NewGrantsApart, InTransaction
    <2> QED BY <1>2, <1>3, <2>1, <2>2, OthersKeep DEF Alone
  <1>6. LocksApart'
    BY <1>2 DEF Inv, LocksApart, Alone, Rests, Cleared
  <1>7. NewGrantsApart'
    BY <1>2 DEF Inv, NewGrantsApart, Alone, Rests, Cleared, InTransaction
  <1>8. EndsAreFinal'
    <2> SUFFICES ASSUME NEW g \in Grants
                 PROVE  /\ grants'[g].synced => grants'[g].made /\ (grants'[g].revoked \/ g \in expired)
                        /\ endSyncs'[g] > 0 => grants'[g].synced
      BY <1>1 DEF EndsAreFinal
    <2>1. CASE g \notin written[p]
      BY <2>1, CommittedRows DEF Inv, EndsAreFinal
    <2>2. CASE g \in written[p] /\ operation[p] = "grant"
      BY <2>2, CommittedRows DEF Inv, EndsAreFinal
    <2>3. CASE g \in written[p] /\ operation[p] # "grant"
      BY <1>1, <2>3, CommittedRows
    <2> QED BY <2>1, <2>2, <2>3
  <1>9. AccessIsAccountedFor'
    <2>1. \A u \in Admins : Access(u)' = Access(u)
      BY <1>1 DEF Access, mirror
    <2>2. \A u \in Admins : queued'[u] <=> (queued[u] \/ u \in enqueued[p])
      BY DEF Commit
    <2>3. \A g \in written[p] : AdminOf[g] \in enqueued[p] /\ queued'[AdminOf[g]]
      BY <1>1, <2>2, Kinds DEF ProcInv, EnqueuesUsers
    <2>4. orgQueued \subseteq orgQueued' /\ deleted \subseteq deleted'
          /\ deleted' \ deleted \subseteq orgQueued'
      BY <1>1 DEF Commit, TypeOK
    <2> SUFFICES ASSUME NEW u \in Admins, NEW t \in Access(u), ~queued'[u]
                 PROVE  \/ t \in Desired(u)'
                        \/ t \in member[u] /\ reading[u] # NotRunning /\ t \notin reading[u]
                        \/ \E g \in Grants :
                             AdminOf[g] = u /\ IsOpen(g)' /\ (g \in expired \/ TenantOf[g] \in orgQueued')
      BY <1>1, <2>1 DEF AccessIsAccountedFor, mirror
    <2>5. \A g \in Grants : AdminOf[g] = u => grants'[g] = grants[g]
      BY <2>3, CommittedRows
    <2>6. \/ t \in Desired(u)
          \/ t \in member[u] /\ reading[u] # NotRunning /\ t \notin reading[u]
          \/ \E g \in Grants :
               AdminOf[g] = u /\ IsOpen(g) /\ (g \in expired \/ TenantOf[g] \in orgQueued)
      BY <2>2 DEF Inv, AccessIsAccountedFor
    <2>7. CASE t \in Desired(u)
      <3>1. PICK g \in Grants : AdminOf[g] = u /\ InEffect(g) /\ TenantOf[g] = t
        BY <2>7 DEF Desired
      <3>2. CASE t \in deleted'
        BY <2>4, <2>5, <3>1, <3>2 DEF InEffect, IsOpen, Inv, EndsAreFinal
      <3>3. CASE t \notin deleted'
        BY <1>1, <2>5, <3>1, <3>3 DEF InEffect, Desired
      <3> QED BY <3>2, <3>3
    <2>8. CASE \E g \in Grants :
                 AdminOf[g] = u /\ IsOpen(g) /\ (g \in expired \/ TenantOf[g] \in orgQueued)
      BY <2>4, <2>5, <2>8 DEF IsOpen
    <2> QED BY <2>6, <2>7, <2>8
  <1> QED BY <1>2, <1>4, <1>5, <1>6, <1>7, <1>8, <1>9 DEF Inv

\* An end is announced again by a revoke alone, of a grant that had expired.
LEMMA CommitEndsOnce ==
  ASSUME Inv, NEW p \in Processes, Commit(p), NEW g \in Grants,
         endSyncs[g] > 0, endSyncs'[g] # endSyncs[g]
  PROVE  g \in expired /\ ~grants[g].revoked /\ grants'[g].revoked
  <1>1. TypeOK /\ ProcInv(p)
    BY DEF Inv
  <1>2. g \in written[p] /\ operation[p] # "grant"
    BY CommittedRows
  <1>3. grants[g].synced /\ (grants[g].revoked \/ g \in expired)
    BY DEF Inv, EndsAreFinal
  <1>4. operation[p] = "revoke" /\ ~grants[g].revoked /\ g \notin clock[p]
    BY <1>1, <1>2, <1>3 DEF ProcInv, WritesOpenRows
  <1> QED BY <1>2, <1>3, <1>4, CommittedRows

-----------------------------------------------------------------------------
(* Time and the mirror                                                     *)

\* A step of no transaction.
LEMMA QuietStep ==
  ASSUME Inv, UNCHANGED <<grants, transaction, endSyncs>>, expired \subseteq expired'
  PROVE  (\A p \in Processes : ProcInv(p)') /\ LocksApart' /\ NewGrantsApart' /\ EndsAreFinal'
  <1> USE DEF transaction
  <1>1. ASSUME NEW p \in Processes  PROVE ProcInv(p)'
    <2>1. Rests(p)
      BY DEF Rests
    <2> QED BY <2>1, OthersKeep
  <1> QED BY <1>1 DEF Inv, LocksApart, NewGrantsApart, EndsAreFinal, InTransaction

LEMMA ExpireStep ==
  ASSUME Inv, NEW g \in Grants, Expire(g)
  PROVE  Inv'
  <1> USE DEF transaction, outbox, mirror
  <1>1. UNCHANGED <<grants, deleted, transaction, outbox, mirror, endSyncs>>
        /\ expired' = expired \cup {g} /\ g \notin expired
    BY DEF Expire
  <1>2. TypeOK'
    BY <1>1 DEF Inv, TypeOK
  <1>3. AccessIsAccountedFor'
    <2> SUFFICES ASSUME NEW u \in Admins, NEW t \in Access(u), ~queued[u]
                 PROVE  \/ t \in Desired(u)'
                        \/ t \in member[u] /\ reading[u] # NotRunning /\ t \notin reading[u]
                        \/ \E h \in Grants :
                             AdminOf[h] = u /\ IsOpen(h) /\ (h \in expired' \/ TenantOf[h] \in orgQueued)
      BY <1>1 DEF AccessIsAccountedFor, Access, IsOpen
    <2>1. CASE t \in Desired(u)
      <3>1. PICK h \in Grants : AdminOf[h] = u /\ InEffect(h) /\ TenantOf[h] = t
        BY <2>1 DEF Desired
      <3>2. CASE h = g
        BY <1>1, <3>1, <3>2 DEF InEffect, IsOpen, Inv, EndsAreFinal
      <3>3. CASE h # g
        BY <1>1, <3>1, <3>3 DEF InEffect, Desired
      <3> QED BY <3>2, <3>3
    <2>2. CASE t \notin Desired(u)
      BY <1>1, <2>2 DEF Inv, AccessIsAccountedFor
    <2> QED BY <2>1, <2>2
  <1> QED BY <1>1, <1>2, <1>3, QuietStep DEF Inv

LEMMA SyncReadsStep ==
  ASSUME Inv, NEW u \in Admins, SyncReads(u)
  PROVE  Inv'
  <1> USE DEF transaction
  <1>1. UNCHANGED <<grants, deleted, expired, transaction, orgQueued, member, endSyncs>>
        /\ reading' = [reading EXCEPT ![u] = Desired(u)] /\ queued' = [queued EXCEPT ![u] = FALSE]
        /\ reading[u] = NotRunning /\ TypeOK
    BY DEF SyncReads, Inv
  <1>2. Desired(u) \subseteq Tenants
    BY Kinds DEF Desired
  <1>3. TypeOK'
    <2>1. reading' \in [Admins -> (SUBSET Tenants) \cup {NotRunning}] /\ queued' \in [Admins -> BOOLEAN]
      BY <1>1, <1>2 DEF TypeOK
    <2> QED BY <1>1, <2>1 DEF TypeOK
  <1>4. AccessIsAccountedFor'
    <2> SUFFICES ASSUME NEW v \in Admins, NEW t \in Access(v)'
                 PROVE  \/ t \in Desired(v) \/ queued'[v]
                        \/ t \in member[v] /\ reading'[v] # NotRunning /\ t \notin reading'[v]
                        \/ \E g \in Grants :
                             AdminOf[g] = v /\ IsOpen(g) /\ (g \in expired \/ TenantOf[g] \in orgQueued)
      BY <1>1 DEF AccessIsAccountedFor, Desired, InEffect, IsOpen
    <2>1. CASE v = u
      <3>1. reading'[v] = Desired(v)
        BY <1>1, <2>1 DEF TypeOK
      <3>2. t \in member[v] \/ t \in Desired(v)
        BY <1>1, <3>1 DEF Access
      <3>3. reading'[v] # NotRunning
        BY <1>2, <2>1, <3>1, Kinds
      <3> QED BY <3>1, <3>2, <3>3
    <2>2. CASE v # u
      <3>1. reading'[v] = reading[v] /\ (queued[v] => queued'[v]) /\ t \in Access(v)
        BY <1>1, <2>2 DEF TypeOK, Access
      <3> QED BY <1>1, <3>1 DEF Inv, AccessIsAccountedFor
    <2> QED BY <2>1, <2>2
  <1> QED BY <1>1, <1>3, <1>4, QuietStep DEF Inv
LEMMA SyncWritesStep ==
  ASSUME Inv, NEW u \in Admins, SyncWrites(u)
  PROVE  Inv'
  <1> USE DEF transaction, outbox
  <1>1. UNCHANGED <<grants, deleted, expired, transaction, outbox, endSyncs>>
        /\ member' = [member EXCEPT ![u] = reading[u]]
        /\ reading' = [reading EXCEPT ![u] = NotRunning]
        /\ reading[u] # NotRunning /\ TypeOK
    BY DEF SyncWrites, Inv
  <1>2. reading[u] \subseteq Tenants
    BY <1>1 DEF TypeOK
  <1>3. TypeOK'
    <2>1. /\ reading' \in [Admins -> (SUBSET Tenants) \cup {NotRunning}]
          /\ member' \in [Admins -> SUBSET Tenants]
      BY <1>1, <1>2 DEF TypeOK
    <2> QED BY <1>1, <2>1 DEF TypeOK
  <1>4. AccessIsAccountedFor'
    <2> SUFFICES ASSUME NEW v \in Admins, NEW t \in Access(v)'
                 PROVE  \/ t \in Desired(v) \/ queued[v]
                        \/ t \in member'[v] /\ reading'[v] # NotRunning /\ t \notin reading'[v]
                        \/ \E g \in Grants :
                             AdminOf[g] = v /\ IsOpen(g) /\ (g \in expired \/ TenantOf[g] \in orgQueued)
      BY <1>1 DEF AccessIsAccountedFor, Desired, InEffect, IsOpen
    <2>1. CASE v = u
      <3>1. t \in reading[u] /\ t \in Access(u)
        BY <1>1, <2>1 DEF TypeOK, Access
      <3> QED BY <2>1, <3>1 DEF Inv, AccessIsAccountedFor
    <2>2. CASE v # u
      <3>1. reading'[v] = reading[v] /\ member'[v] = member[v] /\ t \in Access(v)
        BY <1>1, <2>2 DEF TypeOK, Access
      <3> QED BY <3>1 DEF Inv, AccessIsAccountedFor
    <2> QED BY <2>1, <2>2
  <1> QED BY <1>1, <1>3, <1>4, QuietStep DEF Inv

LEMMA SyncTenantStep ==
  ASSUME Inv, NEW t \in Tenants, SyncTenant(t)
  PROVE  Inv'
  <1> USE DEF transaction, mirror
  <1> DEFINE Told(u) == \E g \in Grants : AdminOf[g] = u /\ TenantOf[g] = t /\ IsOpen(g)
  <1>1. UNCHANGED <<grants, deleted, expired, transaction, mirror, endSyncs>>
        /\ orgQueued' = orgQueued \ {t} /\ TypeOK
        /\ queued' = [u \in Admins |-> queued[u] \/ Told(u)]
    BY DEF SyncTenant, Inv
  <1>2. \A u \in Admins : queued'[u] <=> (queued[u] \/ Told(u))
    BY <1>1
  <1>3. TypeOK'
    <2>1. queued' \in [Admins -> BOOLEAN] /\ orgQueued' \subseteq deleted'
      BY <1>1 DEF TypeOK
    <2> QED BY <1>1, <2>1 DEF TypeOK
  <1>4. AccessIsAccountedFor'
    <2> SUFFICES ASSUME NEW u \in Admins, NEW x \in Access(u), ~queued'[u]
                 PROVE  \/ x \in Desired(u)
                        \/ x \in member[u] /\ reading[u] # NotRunning /\ x \notin reading[u]
                        \/ \E g \in Grants :
                             AdminOf[g] = u /\ IsOpen(g) /\ (g \in expired \/ TenantOf[g] \in orgQueued')
      BY <1>1 DEF AccessIsAccountedFor, Access, Desired, InEffect, IsOpen
    <2>1. ~queued[u] /\ ~Told(u)
      BY <1>2
    <2> QED BY <1>1, <2>1 DEF Inv, AccessIsAccountedFor
  <1> QED BY <1>1, <1>3, <1>4, QuietStep DEF Inv

LEMMA UnchangedStep ==
  ASSUME Inv, UNCHANGED vars
  PROVE  Inv'
  <1> USE DEF vars, transaction, outbox, mirror
  <1>1. TypeOK'
    BY DEF Inv, TypeOK
  <1>2. AccessIsAccountedFor'
    BY DEF Inv, AccessIsAccountedFor, Access, Desired, InEffect, IsOpen
  <1> QED BY <1>1, <1>2, QuietStep DEF Inv

-----------------------------------------------------------------------------
(* The theorems                                                            *)

LEMMA InitInv == Init => Inv
  <1> SUFFICES ASSUME Init  PROVE Inv
    OBVIOUS
  <1>1. \A g \in Grants : grants[g] \in Row /\ ~grants[g].synced /\ endSyncs[g] = 0
    <2> SUFFICES ASSUME NEW g \in Grants
                 PROVE  grants[g] \in Row /\ ~grants[g].synced /\ endSyncs[g] = 0
      OBVIOUS
    <2>1. PICK G : grants = [h \in Grants |-> [NoRow EXCEPT !.made = h \in G]]
      BY DEF Init
    <2>2. grants[g] = [made |-> g \in G, revoked |-> FALSE, synced |-> FALSE]
      BY <2>1 DEF NoRow
    <2>3. grants[g] \in Row
      BY <2>2 DEF Row
    <2> QED BY <2>2, <2>3 DEF Init
  <1>2. TypeOK
    <2>1. grants \in [Grants -> Row]
      BY <1>1 DEF Init
    <2>2. member \in [Admins -> SUBSET Tenants]
      BY Kinds DEF Init, Desired
    <2>3. pc \in [Processes -> Places]
      BY DEF Init
    <2>4. queue \in [Processes -> Seq(Admins)]
      BY DEF Init
    <2> QED BY <2>1, <2>2, <2>3, <2>4 DEF Init, TypeOK
  <1>3. \A p \in Processes : pc[p] \in {"idle", "end"}
    BY DEF Init
  <1>4. \A p \in Processes : ProcInv(p)
    BY <1>3 DEF Init, Processes, ProcInv, Purpose, HoldsRows, WritesOpenRows, EnqueuesUsers,
                InTransaction
  <1>5. LocksApart /\ NewGrantsApart /\ EndsAreFinal
    BY <1>1, <1>3 DEF Init, LocksApart, NewGrantsApart, EndsAreFinal, InTransaction
  <1>6. AccessIsAccountedFor
    <2>1. \A u \in Admins : Access(u) = Desired(u)
      BY DEF Init, Access
    <2> QED BY <2>1 DEF AccessIsAccountedFor
  <1> QED BY <1>2, <1>4, <1>5, <1>6 DEF Inv

\* What a step may do to the count of a grant's ends.
EndsOnce ==
  \A g \in Grants : endSyncs[g] > 0 /\ endSyncs'[g] # endSyncs[g] =>
    g \in expired /\ ~grants[g].revoked /\ grants'[g].revoked

LEMMA NextInv == Inv /\ [Next]_vars => Inv' /\ EndsOnce
  <1> SUFFICES ASSUME Inv, [Next]_vars  PROVE Inv' /\ EndsOnce
    OBVIOUS
  <1>1. UNCHANGED endSyncs => EndsOnce
    BY DEF EndsOnce
  <1>2. CASE UNCHANGED vars
    BY <1>1, <1>2, UnchangedStep DEF vars
  <1>3. ASSUME NEW p \in Requests, RequestGrant(p) \/ RequestRevoke(p) \/ RequestDelete(p)
        PROVE  Inv' /\ EndsOnce
    <2>1. UNCHANGED endSyncs
      BY <1>3 DEF RequestGrant, RequestRevoke, RequestDelete, Begin
    <2> QED BY <1>1, <1>3, <2>1, BeginStep
  <1>4. ASSUME NEW p \in Sweepers, Sweep(p)  PROVE Inv' /\ EndsOnce
    BY <1>1, <1>4, SweepStep DEF Sweep
  <1>5. ASSUME NEW p \in Processes, Go(p)  PROVE Inv' /\ EndsOnce
    <2>1. CASE InsertGrant(p)
      BY <1>1, <2>1, InsertGrantStep DEF InsertGrant
    <2>2. CASE UpdateRevoked(p)
      BY <1>1, <2>2, UpdateRevokedStep DEF UpdateRevoked
    <2>3. CASE MarkTenantDeleted(p)
      BY <1>1, <2>3, MarkTenantDeletedStep DEF MarkTenantDeleted
    <2>4. ASSUME NEW g \in Grants, EndGrant(p, g)  PROVE Inv' /\ EndsOnce
      BY <1>1, <2>4, EndGrantStep DEF EndGrant
    <2>5. CASE GrantsEnded(p)
      BY <1>1, <2>5, GrantsEndedStep DEF GrantsEnded
    <2>6. CASE ClaimExpired(p)
      BY <1>1, <2>6, ClaimExpiredStep DEF ClaimExpired
    <2>7. CASE EnqueueNext(p)
      BY <1>1, <2>7, EnqueueNextStep DEF EnqueueNext
    <2>8. CASE Commit(p)
      BY <2>8, CommitStep, CommitEndsOnce DEF EndsOnce
    <2>9. CASE DeadlockVictim(p)
      BY <1>1, <2>9, RollbackStep DEF DeadlockVictim, Rollback
    <2> QED BY <1>5, <2>1, <2>2, <2>3, <2>4, <2>5, <2>6, <2>7, <2>8, <2>9 DEF Go
  <1>6. ASSUME NEW p \in Processes, Abort(p)  PROVE Inv' /\ EndsOnce
    BY <1>1, <1>6, RollbackStep DEF Abort, Rollback
  <1>7. ASSUME NEW g \in Grants, Expire(g)  PROVE Inv' /\ EndsOnce
    BY <1>1, <1>7, ExpireStep DEF Expire
  <1>8. ASSUME NEW u \in Admins, SyncReads(u) \/ SyncWrites(u)  PROVE Inv' /\ EndsOnce
    BY <1>1, <1>8, SyncReadsStep, SyncWritesStep DEF SyncReads, SyncWrites
  <1>9. ASSUME NEW t \in Tenants, SyncTenant(t)  PROVE Inv' /\ EndsOnce
    BY <1>1, <1>9, SyncTenantStep DEF SyncTenant
  <1> QED BY <1>2, <1>3, <1>4, <1>5, <1>6, <1>7, <1>8, <1>9 DEF Next

LEMMA InvHolds == Spec => []Inv
  BY InitInv, NextInv, PTL DEF Spec

\* Every variable keeps its type; a transaction writes only rows it holds, and
\* judges expiry by a past that is still true.
THEOREM TypeCorrect == Spec => []TypeOK
  <1>1. Inv => TypeOK
    BY DEF Inv
  <1> QED BY <1>1, InvHolds, PTL

\* Membership no grant in effect covers is always about to be taken away, for
\* any number of replicas that sweep, of deletes, revokes and lost
\* transactions (support-access.service.ts, sweepExpired and revoke;
\* tenants.service.ts, delete).
THEOREM NoForgottenAccess == Spec => []AccessIsAccountedFor
  <1>1. Inv => AccessIsAccountedFor
    BY DEF Inv
  <1> QED BY <1>1, InvHolds, PTL

\* Sweepers and deletes never end a grant twice, however many run at once
\* (support-access.repository.ts, claimExpired and revokeOpenForTenant); a
\* revoke does so once, of a grant that expired while it waited.
THEOREM GrantsEndOnce == Spec => EndedAgainByRevokeOnly
  <1>1. Inv /\ [Next]_vars => [EndsOnce]_vars
    BY NextInv
  <1> QED BY <1>1, InvHolds, PTL DEF Spec, EndedAgainByRevokeOnly, EndsOnce

-----------------------------------------------------------------------------
(* Access at rest                                                          *)

\* What the sync of u leaves, if none is requested after it.
Coming(u) == IF reading[u] = NotRunning THEN member[u] ELSE reading[u]

\* A user is given what a grant in effect promises, unless a sync that will
\* read it is requested.
Promised == \A u \in Admins : queued[u] \/ Desired(u) \subseteq Coming(u)

\* A step that touches no grant of a user whose sync is not requested, and
\* neither reads nor writes, gives the user no more to expect.
LEMMA PromisedIsKept ==
  ASSUME Promised, UNCHANGED mirror,
         \A u \in Admins : queued[u] => queued'[u],
         \A g \in Grants : queued'[AdminOf[g]] \/ grants'[g] = grants[g],
         expired \subseteq expired', deleted \subseteq deleted'
  PROVE  Promised'
  <1> SUFFICES ASSUME NEW u \in Admins, ~queued'[u], NEW t \in Desired(u)'
               PROVE  t \in Coming(u)'
    BY DEF Promised
  <1>1. PICK g \in Grants : AdminOf[g] = u /\ InEffect(g)' /\ TenantOf[g] = t
    BY DEF Desired
  <1>2. InEffect(g)
    BY <1>1 DEF InEffect
  <1>3. t \in Desired(u)
    BY <1>1, <1>2 DEF Desired
  <1>4. t \in Coming(u)
    BY <1>3 DEF Promised
  <1> QED BY <1>4 DEF Coming, mirror

LEMMA InitPromised ==
  ASSUME Init
  PROVE  Promised
  BY DEF Init, Promised, Coming

LEMMA NextPromised ==
  ASSUME Inv, Promised, [Next]_vars
  PROVE  Promised'
  <1>0. TypeOK
    BY DEF Inv
  <1>1. ASSUME UNCHANGED <<grants, deleted, expired, outbox, mirror>>
        PROVE  Promised'
    BY <1>1, PromisedIsKept DEF outbox
  <1>2. CASE UNCHANGED vars
    BY <1>1, <1>2 DEF vars
  <1>3. ASSUME NEW p \in Requests, RequestGrant(p) \/ RequestRevoke(p) \/ RequestDelete(p)
        PROVE  Promised'
    BY <1>1, <1>3 DEF RequestGrant, RequestRevoke, RequestDelete, Begin
  <1>4. ASSUME NEW p \in Sweepers, Sweep(p)  PROVE Promised'
    BY <1>1, <1>4 DEF Sweep
  <1>5. ASSUME NEW p \in Processes, Commit(p)  PROVE Promised'
    <2>1. \A u \in Admins : queued'[u] <=> (queued[u] \/ u \in enqueued[p])
      BY <1>5 DEF Commit
    <2>2. \A g \in written[p] : AdminOf[g] \in enqueued[p] /\ g \in Grants
      BY <1>0, <1>5 DEF Inv, ProcInv, EnqueuesUsers, Commit, TypeOK
    <2>3. \A g \in Grants : queued'[AdminOf[g]] \/ grants'[g] = grants[g]
      BY <1>5, <2>1, <2>2, CommittedRows, Kinds
    <2>4. deleted \subseteq deleted' /\ UNCHANGED <<expired, mirror>>
      BY <1>5 DEF Commit
    <2> QED BY <2>1, <2>3, <2>4, PromisedIsKept
  <1>6. ASSUME NEW p \in Processes, Go(p), ~Commit(p)  PROVE Promised'
    BY <1>1, <1>6 DEF Go, InsertGrant, UpdateRevoked, MarkTenantDeleted, EndGrant, GrantsEnded,
                      ClaimExpired, EnqueueNext, DeadlockVictim, Rollback
  <1>7. ASSUME NEW p \in Processes, Abort(p)  PROVE Promised'
    BY <1>1, <1>7 DEF Abort, Rollback
  <1>8. ASSUME NEW g \in Grants, Expire(g)  PROVE Promised'
    BY <1>8, PromisedIsKept DEF Expire, outbox
  <1>9. ASSUME NEW u \in Admins, SyncReads(u)  PROVE Promised'
    <2>1. /\ UNCHANGED <<grants, deleted, expired, member>> /\ Desired(u) \subseteq Tenants
          /\ reading'[u] = Desired(u)
          /\ \A v \in Admins \ {u} : queued'[v] = queued[v] /\ reading'[v] = reading[v]
      BY <1>0, <1>9, Kinds DEF SyncReads, TypeOK, Desired
    <2>2. reading'[u] # NotRunning
      BY <2>1, Kinds
    <2>3. \A v \in Admins : Desired(v)' = Desired(v)
      BY <2>1 DEF Desired, InEffect
    <2> QED BY <2>1, <2>2, <2>3 DEF Promised, Coming
  <1>10. ASSUME NEW u \in Admins, SyncWrites(u)  PROVE Promised'
    <2>1. /\ UNCHANGED <<grants, deleted, expired, queued>>
          /\ member'[u] = reading[u] /\ reading'[u] = NotRunning /\ reading[u] # NotRunning
          /\ \A v \in Admins \ {u} : member'[v] = member[v] /\ reading'[v] = reading[v]
      BY <1>0, <1>10 DEF SyncWrites, TypeOK, outbox
    <2>2. \A v \in Admins : Desired(v)' = Desired(v)
      BY <2>1 DEF Desired, InEffect
    <2> QED BY <2>1, <2>2 DEF Promised, Coming
  <1>11. ASSUME NEW t \in Tenants, SyncTenant(t)  PROVE Promised'
    <2>1. \A u \in Admins : queued[u] => queued'[u]
      BY <1>11 DEF SyncTenant
    <2> QED BY <1>11, <2>1, PromisedIsKept DEF SyncTenant
  <1> QED BY <1>2, <1>3, <1>4, <1>5, <1>6, <1>7, <1>8, <1>9, <1>10, <1>11 DEF Next

\* No sync of u is requested or running, and no end of a grant of theirs is
\* yet to be found.
NothingPending(u) ==
  /\ ~queued[u] /\ reading[u] = NotRunning
  /\ \A g \in Grants : AdminOf[g] = u /\ IsOpen(g) =>
       g \notin expired /\ TenantOf[g] \notin orgQueued

\* An admin with nothing pending is a member of exactly the orgs of the
\* tenants with a grant in effect: the sync alone decides, and whatever
\* commits between its read and its write has requested the next one
\* (grafana-user.mirror.ts, sync; support-access.service.ts).
THEOREM RestingAccessIsExact ==
  Spec => [](\A u \in Admins : NothingPending(u) => member[u] = Desired(u))
  <1>1. Inv /\ Promised => \A u \in Admins : NothingPending(u) => member[u] = Desired(u)
    <2> SUFFICES ASSUME Inv, Promised, NEW u \in Admins, NothingPending(u)
                 PROVE  member[u] = Desired(u)
      OBVIOUS
    <2>1. Desired(u) \subseteq member[u]
      BY DEF Promised, Coming, NothingPending
    <2>2. \A t \in member[u] : t \in Desired(u)
      BY DEF Inv, AccessIsAccountedFor, Access, NothingPending
    <2> QED BY <2>1, <2>2
  <1>2. Init => Promised
    BY InitPromised
  <1>3. Inv /\ Promised /\ [Next]_vars => Promised'
    BY NextPromised
  <1> QED BY <1>1, <1>2, <1>3, InvHolds, PTL DEF Spec
=============================================================================
