----------------------- MODULE AgentEnrollmentProofs -----------------------
(***************************************************************************)
(* Theorems about the enrollment and the mirror of its agent: credentials  *)
(* go out once, a live agent keeps its client and the claims, and once     *)
(* nothing is pending the client is as the row says, for any number of     *)
(* hosts, replicas, changes and failures.                                  *)
(***************************************************************************)
EXTENDS AgentEnrollment, FiniteSetTheorems, TLAPS

Client ==
  [id : Uuids \cup {None}, enabled : BOOLEAN, attributes : BOOLEAN,
   scope : Scopes \cup {None}, legacy : 0..LegacyMappers]

\* TypeOK says of the client's fields what a step needs of the whole record.
Typed == TypeOK /\ client \in Client

TaskTyped == task \in [Processes -> Task]
HostTyped == host \in [Attempts -> {"new", "waiting", "running", "again", "refused", "unreachable"}]
EndTyped == TaskTyped /\ HostTyped /\ queued \in BOOLEAN

\* The initial states are typed: a new token, and an agent of v0.8.
LEMMA InitTyped == Init => Typed
  <1> USE EnrollmentAssumption
  <1> SUFFICES ASSUME Init PROVE Typed
    OBVIOUS
  <1>1. Idle \in Task /\ NotCollecting \in Collector
    BY DEF Idle, Task, Steps, Statuses, NotCollecting, Collector, None
  <1>2. EndTyped /\ gc \in [Replicas -> Collector] /\ cached \in [Replicas -> Scopes \cup {None}]
    BY <1>1 DEF Init, EndTyped, TaskTyped, HostTyped, None
  <1>3. client \in Client /\ made \in 0..MaxClients /\ pointer \in Uuids \cup {None}
    <2>1. NoClient \in Client
      BY DEF NoClient, Client, None
    <2>2. CASE client = NoClient /\ made = 0 /\ pointer = None
      BY <2>1, <2>2
    <2>3. CASE /\ made = MaxClients /\ pointer = 1
              /\ client = [NoClient EXCEPT !.id = made, !.enabled = TRUE, !.legacy = LegacyMappers]
      <3>1. MaxClients \in Uuids /\ 1 \in Uuids /\ LegacyMappers \in 0..LegacyMappers
        BY DEF Uuids
      <3>2. client \in Client
        BY <2>1, <2>3, <3>1 DEF Client
      <3>3. made \in 0..MaxClients /\ pointer \in Uuids \cup {None}
        BY <2>3, <3>1
      <3> QED BY <3>2, <3>3
    <2> QED BY <2>2, <2>3 DEF Init
  <1>4. secretOf \in Uuids \cup {None}
    BY <1>3 DEF Init, None, Uuids
  <1>5. token \in {"open", "used", "revoked"} /\ status \in Statuses
    BY DEF Init, Statuses
  <1>6. expired \in BOOLEAN /\ scope \in 0..MaxScopes
    <2>1. expired = FALSE /\ scope = 0
      BY Zenon DEF Init, None
    <2>2. 0 \in 0..MaxScopes
      OBVIOUS
    <2> QED BY <2>1, <2>2, Zenon
  <1> QED BY <1>2, <1>3, <1>4, <1>5, <1>6
       DEF Typed, TypeOK, EndTyped, TaskTyped, HostTyped, Client

-----------------------------------------------------------------------------
(* How steps end keeps the types of what they write.                       *)

\* Handing a process another step keeps the tasks typed.
LEMMA GoTyped ==
  ASSUME TaskTyped, NEW p \in Processes, NEW step \in Steps, Go(p, step)
  PROVE  TaskTyped'
  BY DEF TaskTyped, Go, Task

\* So do throwing and returning, with what they write of the host and the outbox.
LEMMA EndsTyped ==
  ASSUME EndTyped, NEW p \in Processes, Throw(p) \/ Return(p)
  PROVE  EndTyped'
  <1>1. Idle \in Task
    BY DEF Idle, Task, Steps, Statuses, None
  <1>2. TaskTyped'
    BY <1>1 DEF EndTyped, TaskTyped, Throw, Return
  <1>3. HostTyped' /\ queued' \in BOOLEAN
    BY DEF EndTyped, HostTyped, Throw, Return, Exchanging
  <1> QED BY <1>2, <1>3 DEF EndTyped

\* Going on to the next step of the exchange or the handler keeps the types.
LEMMA ProceedTyped ==
  ASSUME EndTyped, NEW p \in Processes, NEW step \in Steps, Proceed(p, step)
  PROVE  EndTyped'
  BY GoTyped DEF EndTyped, HostTyped, Proceed

-----------------------------------------------------------------------------
(* Each group of actions keeps the types.                                  *)

\* The steps of the scripts on the host keep the types.
LEMMA ScriptTyped ==
  ASSUME Typed, NEW p \in Attempts, Bootstrap(p) \/ Limited(p) \/ AnswerLost(p) \/ Install(p)
  PROVE  Typed'
  <1>1. p \in Processes
    BY DEF Processes
  <1>2. Idle \in Task
    BY DEF Idle, Task, Steps, Statuses, None
  <1>3. TaskTyped'
    <2>1. CASE Bootstrap(p)
      <3>1. PICK r \in Replicas : task' = [task EXCEPT ![p].at = "lock", ![p].on = r]
        BY <2>1 DEF Bootstrap
      <3>2. [task[p] EXCEPT !.at = "lock", !.on = r] \in Task
        <4>1. task[p] \in Task
          BY <1>1 DEF Typed, TypeOK
        <4> QED BY <4>1 DEF Task, Steps
      <3>3. task' = [task EXCEPT ![p] = [task[p] EXCEPT !.at = "lock", !.on = r]]
        BY <3>1
      <3> QED BY <1>1, <3>2, <3>3 DEF TaskTyped, Typed, TypeOK
    <2>2. CASE ~Bootstrap(p)
      BY <1>1, <1>2, <2>2 DEF Limited, AnswerLost, Install, TaskTyped, Typed, TypeOK
    <2> QED BY <2>1, <2>2
  <1>4. HostTyped'
    BY DEF Bootstrap, Limited, AnswerLost, Install, HostTyped, Typed, TypeOK
  <1>5. UNCHANGED <<rows, keycloak, cached, queued, gc, secretOf>>
    BY DEF Bootstrap, Limited, AnswerLost, Install
  <1> QED BY <1>3, <1>4, <1>5 DEF Typed, TypeOK, TaskTyped, HostTyped, rows, keycloak

\* So do the steps only an exchange takes.
LEMMA ExchangeTyped ==
  ASSUME Typed, NEW p \in Attempts, Lock(p) \/ Create(p) \/ GetSecret(p) \/ Commit(p)
  PROVE  Typed'
  <1> USE EnrollmentAssumption
  <1>1. p \in Processes /\ EndTyped
    BY DEF Processes, Typed, TypeOK, EndTyped, TaskTyped, HostTyped
  <1>2. Idle \in Task
    BY DEF Idle, Task, Steps, Statuses, None
  <1>3. CASE Lock(p)
    <2>1. EndTyped'
      <3>1. CASE Proceed(p, "resolve")
        BY <1>1, <3>1, ProceedTyped DEF Steps
      <3>2. CASE /\ task' = [task EXCEPT ![p] = Idle]
                 /\ host' = [host EXCEPT ![p] = "refused"]
                 /\ UNCHANGED queued
        BY <1>1, <1>2, <3>2 DEF EndTyped, TaskTyped, HostTyped
      <3> QED BY <1>3, <3>1, <3>2 DEF Lock
    <2>2. UNCHANGED <<rows, keycloak, cached, gc, secretOf>>
      BY <1>3 DEF Lock
    <2> QED BY <2>1, <2>2 DEF Typed, TypeOK, EndTyped, TaskTyped, HostTyped, rows, keycloak
  <1>4. CASE GetSecret(p)
    <2>1. EndTyped'
      BY <1>1, <1>4, EndsTyped, ProceedTyped DEF GetSecret, Steps
    <2>2. UNCHANGED <<rows, keycloak, cached, gc, secretOf>>
      BY <1>4 DEF GetSecret
    <2> QED BY <2>1, <2>2 DEF Typed, TypeOK, EndTyped, TaskTyped, HostTyped, rows, keycloak
  <1>5. CASE Commit(p)
    <2>1. task[p].id \in Uuids \cup {None}
      BY <1>1 DEF EndTyped, TaskTyped, Task
    <2>2. EndTyped'
      <3>1. TaskTyped'
        BY <1>1, <1>5, GoTyped DEF EndTyped, Commit, Steps
      <3>2. HostTyped' /\ queued' \in BOOLEAN
        BY <1>1, <1>5 DEF EndTyped, HostTyped, Commit
      <3> QED BY <3>1, <3>2 DEF EndTyped
    <2>3. /\ token' \in {"open", "used", "revoked"} /\ status' \in Statuses
          /\ pointer' \in Uuids \cup {None} /\ secretOf' \in Uuids \cup {None}
      BY <1>5, <2>1 DEF Commit, Statuses
    <2>4. UNCHANGED <<expired, keycloak, cached, gc>>
      BY <1>5 DEF Commit
    <2> QED BY <2>2, <2>3, <2>4 DEF Typed, TypeOK, EndTyped, TaskTyped, HostTyped, keycloak
  <1>6. CASE Create(p)
    <2>1. UNCHANGED <<rows, scope, cached, gc, secretOf>>
      BY <1>6 DEF Create, keycloak
    <2>2. EndTyped' /\ client' \in Client /\ made' \in 0..MaxClients
      <3>1. CASE client # NoClient
        <4>1. EndTyped' /\ UNCHANGED <<client, made>>
          BY <1>1, <1>6, <3>1, EndsTyped DEF Create, keycloak
        <4> QED BY <4>1 DEF Typed, TypeOK
      <3>2. CASE client = NoClient
        <4> DEFINE id == made + 1
        <4>1. id \in Uuids /\ id \in 0..MaxClients
          BY <1>6, <3>2 DEF Create, Typed, TypeOK, Uuids
        <4>2. /\ client' = [NoClient EXCEPT !.id = id, !.enabled = TRUE]
              /\ made' = id
              /\ task' = [task EXCEPT ![p] = [task[p] EXCEPT !.at = "attributes", !.id = id]]
              /\ UNCHANGED <<queued, host>>
          BY <1>6, <3>2 DEF Create
        <4>3. NoClient \in Client
          BY DEF NoClient, Client, None
        <4>4. client' \in Client
          BY <4>1, <4>2, <4>3 DEF Client
        <4>5. [task[p] EXCEPT !.at = "attributes", !.id = id] \in Task
          BY <1>1, <4>1 DEF EndTyped, TaskTyped, Task, Steps
        <4>6. EndTyped'
          BY <1>1, <4>2, <4>5 DEF EndTyped, TaskTyped, HostTyped
        <4> QED BY <4>1, <4>2, <4>4, <4>6
      <3> QED BY <3>1, <3>2
    <2> QED BY <2>1, <2>2 DEF Typed, TypeOK, EndTyped, TaskTyped, HostTyped, Client, rows
  <1> QED BY <1>3, <1>4, <1>5, <1>6

\* What the steps of the mirror write, and where they lead.
MirrorTyped ==
  /\ EndTyped
  /\ client \in Client
  /\ pointer \in Uuids \cup {None}
  /\ cached \in [Replicas -> Scopes \cup {None}]

\* Where a process goes after the lookup is a step,
LEMMA AfterResolveTyped ==
  ASSUME NEW p PROVE AfterResolve(p) \in Steps
  BY DEF AfterResolve, Steps

\* and so is where it goes after the list of scopes.
LEMMA AfterScopesTyped ==
  ASSUME NEW p PROVE AfterScopes(p) \in Steps
  BY DEF AfterScopes, Steps

\* Every step of the mirror keeps the types of what it writes and writes nothing else.
LEMMA MirrorStepTyped ==
  ASSUME Typed, NEW p \in Processes, Mirror(p)
  PROVE  MirrorTyped' /\ UNCHANGED <<token, expired, status, made, scope, gc, secretOf>>
  <1> USE EnrollmentAssumption
  <1>1. MirrorTyped
    BY DEF Typed, TypeOK, MirrorTyped, EndTyped, TaskTyped, HostTyped
  <1>2. task[p].id \in Uuids \cup {None} /\ scope \in Scopes \cup {None}
    BY DEF Typed, TypeOK, Task, Scopes, None
  <1>3. CASE Resolve(p)
    <2>1. EndTyped'
      <3>1. CASE AfterResolve(p) = "idle"
        BY <1>1, <1>3, <3>1, EndsTyped DEF MirrorTyped, Resolve
      <3>2. CASE AfterResolve(p) # "idle"
        <4> DEFINE next == [task[p] EXCEPT !.at = AfterResolve(p), !.id = client.id]
        <4>1. task' = [task EXCEPT ![p] = next] /\ UNCHANGED <<queued, host>>
          BY <1>3, <3>2 DEF Resolve
        <4>2. next \in Task
          <5>1. task[p] \in Task /\ AfterResolve(p) \in Steps /\ client.id \in Uuids \cup {None}
            BY <1>1, AfterResolveTyped DEF MirrorTyped, EndTyped, TaskTyped, Client
          <5> QED BY <5>1 DEF Task
        <4> HIDE DEF next
        <4> QED BY <1>1, <4>1, <4>2 DEF MirrorTyped, EndTyped, TaskTyped, HostTyped
      <3> QED BY <3>1, <3>2
    <2> QED BY <1>1, <1>3, <2>1 DEF Resolve, rows, keycloak, MirrorTyped
  <1>4. CASE GetScopes(p)
    <2>1. EndTyped'
      BY <1>1, <1>4, EndsTyped, ProceedTyped, AfterScopesTyped DEF MirrorTyped, GetScopes
    <2> QED BY <1>1, <1>4, <2>1 DEF GetScopes, rows, keycloak, MirrorTyped
  <1>5. CASE Enable(p)
    <2>1. EndTyped'
      BY <1>1, <1>5, EndsTyped, ProceedTyped DEF MirrorTyped, Enable, Steps
    <2>2. client' \in Client
      BY <1>1, <1>5 DEF MirrorTyped, Enable, Client
    <2> QED BY <1>1, <1>5, <2>1, <2>2 DEF Enable, rows, MirrorTyped
  <1>6. CASE SetAttributes(p)
    <2>1. EndTyped'
      BY <1>1, <1>6, EndsTyped, ProceedTyped DEF MirrorTyped, SetAttributes, Steps
    <2>2. client' \in Client
      BY <1>1, <1>6 DEF MirrorTyped, SetAttributes, Client
    <2> QED BY <1>1, <1>6, <2>1, <2>2 DEF SetAttributes, rows, MirrorTyped
  <1>7. CASE FindScope(p)
    <2>1. EndTyped'
      BY <1>1, <1>7, EndsTyped, ProceedTyped DEF MirrorTyped, FindScope, Steps
    <2>2. cached' \in [Replicas -> Scopes \cup {None}]
      BY <1>1, <1>2, <1>7 DEF MirrorTyped, FindScope
    <2> QED BY <1>1, <1>7, <2>1, <2>2 DEF FindScope, rows, keycloak, MirrorTyped
  <1>8. CASE AddScope(p)
    <2>1. EndTyped'
      BY <1>1, <1>8, EndsTyped, ProceedTyped DEF MirrorTyped, AddScope, Steps
    <2>2. client' \in Client
      BY <1>1, <1>2, <1>8 DEF MirrorTyped, AddScope, Client
    <2>3. cached' \in [Replicas -> Scopes \cup {None}]
      BY <1>1, <1>8 DEF MirrorTyped, AddScope, DropScopeId
    <2> QED BY <1>1, <1>8, <2>1, <2>2, <2>3 DEF AddScope, rows, MirrorTyped
  <1>9. CASE RemoveLegacy(p)
    <2>1. EndTyped'
      <3>1. CASE Gone(p) \/ ~HasLegacy(client)
        BY <1>1, <1>9, <3>1, EndsTyped, ProceedTyped DEF MirrorTyped, RemoveLegacy, Steps
      <3>2. CASE ~Gone(p) /\ HasLegacy(client)
        <4>1. UNCHANGED <<task, queued, host>>
          BY <1>9, <3>2 DEF RemoveLegacy
        <4> QED BY <1>1, <4>1 DEF MirrorTyped, EndTyped, TaskTyped, HostTyped
      <3> QED BY <3>1, <3>2
    <2>2. client' \in Client
      BY <1>1, <1>9 DEF MirrorTyped, RemoveLegacy, HasLegacy, Client
    <2> QED BY <1>1, <1>9, <2>1, <2>2 DEF RemoveLegacy, rows, MirrorTyped
  <1>10. CASE Store(p)
    <2>1. EndTyped'
      BY <1>1, <1>10, EndsTyped DEF MirrorTyped, Store
    <2> QED BY <1>1, <1>2, <1>10, <2>1 DEF Store, keycloak, MirrorTyped
  <1>11. CASE Delete(p)
    <2>1. EndTyped'
      BY <1>1, <1>11, EndsTyped, ProceedTyped DEF MirrorTyped, Delete, Steps
    <2>2. client' \in Client
      BY <1>1, <1>11 DEF MirrorTyped, Delete, Client, NoClient, None
    <2> QED BY <1>1, <1>11, <2>1, <2>2 DEF Delete, rows, MirrorTyped
  <1>12. CASE Clear(p)
    <2>1. EndTyped'
      BY <1>1, <1>12, EndsTyped DEF MirrorTyped, Clear
    <2> QED BY <1>1, <1>12, <2>1 DEF Clear, keycloak, MirrorTyped, None
  <1> QED BY <1>3, <1>4, <1>5, <1>6, <1>7, <1>8, <1>9, <1>10, <1>11, <1>12 DEF Mirror

-----------------------------------------------------------------------------
\* The outbox, admins, the clock and the bootstrap Job keep the types.
LEMMA EnvironmentTyped ==
  ASSUME Typed, Sync \/ ChangeAgent \/ RevokeToken \/ Expire \/ CreateScope
  PROVE  Typed'
  <1> USE EnrollmentAssumption
  <1>1. CASE Sync
    <2>1. PICK r \in Replicas :
            task' = [task EXCEPT ![Handler] =
              [Idle EXCEPT !.at = "resolve", !.on = r, !.row = status, !.ptr = pointer]]
      BY <1>1 DEF Sync
    <2>2. [Idle EXCEPT !.at = "resolve", !.on = r, !.row = status, !.ptr = pointer] \in Task
      BY DEF Typed, TypeOK, Idle, Task, Steps, None
    <2>3. TaskTyped'
      BY <2>1, <2>2 DEF Typed, TypeOK, TaskTyped
    <2>4. queued' = FALSE /\ UNCHANGED <<rows, keycloak, cached, gc, host, secretOf>>
      BY <1>1 DEF Sync
    <2>5. queued' \in BOOLEAN
      BY <2>4, Zenon
    <2> QED BY <2>3, <2>4, <2>5 DEF Typed, TypeOK, TaskTyped, rows, keycloak
  <1>2. CASE ChangeAgent
    <2>1. status' \in Statuses /\ queued' \in BOOLEAN
      BY <1>2 DEF ChangeAgent, Statuses
    <2>2. UNCHANGED <<token, expired, pointer, keycloak, cached, task, gc, host, secretOf>>
      BY <1>2 DEF ChangeAgent
    <2> QED BY <2>1, <2>2 DEF Typed, TypeOK, keycloak
  <1>3. CASE RevokeToken
    <2>1. token' = "revoked"
      BY <1>3 DEF RevokeToken
    <2>2. UNCHANGED <<expired, status, pointer, keycloak, cached, queued, task, gc, host, secretOf>>
      BY <1>3 DEF RevokeToken
    <2> QED BY <2>1, <2>2 DEF Typed, TypeOK, keycloak
  <1>4. CASE Expire
    <2>1. expired' \in BOOLEAN
      BY <1>4 DEF Expire
    <2>2. UNCHANGED <<token, status, pointer, keycloak, cached, queued, task, gc, host, secretOf>>
      BY <1>4 DEF Expire
    <2> QED BY <2>1, <2>2 DEF Typed, TypeOK, keycloak
  <1>5. CASE CreateScope
    <2>1. scope' \in 0..MaxScopes
      BY <1>5 DEF CreateScope, Typed, TypeOK
    <2>2. client' \in Client
      BY <1>5 DEF CreateScope, Typed, Client
    <2>3. UNCHANGED <<rows, made, cached, queued, task, gc, host, secretOf>>
      BY <1>5 DEF CreateScope
    <2> QED BY <2>1, <2>2, <2>3 DEF Typed, TypeOK, Client, rows
  <1> QED BY <1>1, <1>2, <1>3, <1>4, <1>5

\* The collector of a replica keeps the types.
LEMMA CollectTyped ==
  ASSUME Typed, NEW r \in Replicas, Collect(r)
  PROVE  Typed'
  <1>1. /\ UNCHANGED <<rows, made, scope, cached, task, host, secretOf>>
        /\ client' \in Client /\ queued' \in BOOLEAN
    <2>1. NoClient \in Client
      BY EnrollmentAssumption DEF NoClient, Client, None
    <2>2. CASE Resync(r)
      <3>1. queued' \in BOOLEAN
        BY <2>2, Zenon DEF Resync
      <3> QED BY <2>2, <3>1 DEF Resync, Typed, keycloak
    <2>3. CASE ListClients(r) \/ LiveIds(r) \/ OpenIds(r)
      BY <2>3 DEF ListClients, LiveIds, OpenIds, Typed, TypeOK, keycloak
    <2>4. CASE Remove(r)
      BY <2>1, <2>4 DEF Remove, Typed, TypeOK
    <2> QED BY <2>2, <2>3, <2>4 DEF Collect
  <1>2. gc' \in [Replicas -> Collector]
    <2>1. gc \in [Replicas -> Collector] /\ gc[r] \in Collector
      BY DEF Typed, TypeOK
    <2>2. CASE Resync(r)
      <3>1. gc' = [gc EXCEPT ![r] = [gc[r] EXCEPT !.at = "list", !.during = {}]]
        BY <2>1, <2>2 DEF Resync
      <3>2. [gc[r] EXCEPT !.at = "list", !.during = {}] \in Collector
        BY <2>1 DEF Collector
      <3> QED BY <2>1, <3>1, <3>2
    <2>3. CASE ListClients(r)
      <3>1. gc' = [gc EXCEPT ![r] = [gc[r] EXCEPT !.at = "live", !.listed = client.id]]
        BY <2>1, <2>3 DEF ListClients
      <3>2. [gc[r] EXCEPT !.at = "live", !.listed = client.id] \in Collector
        BY <2>1 DEF Collector, Typed, Client
      <3> QED BY <2>1, <3>1, <3>2
    <2>4. CASE LiveIds(r)
      <3> DEFINE keep == Live
      <3>1. gc' = [gc EXCEPT ![r] = [gc[r] EXCEPT !.at = "open", !.keep = keep]]
        BY <2>1, <2>4 DEF LiveIds
      <3>2. keep \in BOOLEAN
        BY DEF Live
      <3> HIDE DEF keep
      <3>3. [gc[r] EXCEPT !.at = "open", !.keep = keep] \in Collector
        BY <2>1, <3>2 DEF Collector
      <3> QED BY <2>1, <3>1, <3>3
    <2>5. CASE OpenIds(r)
      <3> DEFINE orphan == IF gc[r].keep \/ Open THEN None ELSE gc[r].listed
                 at == IF Confirmed(r, orphan) THEN "remove" ELSE "idle"
                 next == [gc[r] EXCEPT !.at = at, !.listed = orphan, !.seen = orphan,
                                       !.keep = FALSE, !.during = InTransaction]
      <3>1. gc' = [gc EXCEPT ![r] = next]
        BY <2>1, <2>5 DEF OpenIds
      <3>2. orphan \in Uuids \cup {None} /\ at \in {"idle", "remove"}
        BY <2>1 DEF Collector
      <3>3. InTransaction \in SUBSET Attempts
        BY DEF InTransaction
      <3>4. next \in Collector
        <4> HIDE DEF orphan, at
        <4> QED BY <2>1, <3>2, <3>3 DEF Collector
      <3> HIDE DEF next
      <3> QED BY <2>1, <3>1, <3>4
    <2>6. CASE Remove(r)
      <3>1. gc' = [gc EXCEPT ![r] = [gc[r] EXCEPT !.at = "idle", !.listed = None, !.seen = None]]
        BY <2>1, <2>6 DEF Remove
      <3>2. [gc[r] EXCEPT !.at = "idle", !.listed = None, !.seen = None] \in Collector
        BY <2>1 DEF Collector
      <3> QED BY <2>1, <3>1, <3>2
    <2> QED BY <2>2, <2>3, <2>4, <2>5, <2>6 DEF Collect
  <1> QED BY <1>1, <1>2 DEF Typed, TypeOK, Client, rows

\* A failed request keeps the types,
LEMMA FailTyped ==
  ASSUME Typed, NEW p \in Processes, Fail(p)
  PROVE  Typed'
  <1>1. EndTyped'
    BY EndsTyped DEF Fail, Typed, TypeOK, EndTyped, TaskTyped, HostTyped
  <1>2. cached' \in [Replicas -> Scopes \cup {None}]
    BY DEF Fail, DropScopeId, Typed, TypeOK
  <1>3. UNCHANGED <<rows, keycloak, gc, secretOf>>
    BY DEF Fail
  <1> QED BY <1>1, <1>2, <1>3 DEF Typed, TypeOK, EndTyped, TaskTyped, HostTyped, rows, keycloak

\* and so does the death of a replica.
LEMMA CrashTyped ==
  ASSUME Typed, NEW r \in Replicas, Crash(r)
  PROVE  Typed'
  <1> DEFINE hit == {p \in Processes : task[p].on = r}
  <1>1. TaskTyped'
    <2>1. Idle \in Task
      BY DEF Idle, Task, Steps, Statuses, None
    <2>2. task' = [p \in Processes |-> IF p \in hit THEN Idle ELSE task[p]]
      BY DEF Crash
    <2> HIDE DEF hit
    <2> QED BY <2>1, <2>2 DEF Typed, TypeOK, TaskTyped
  <1>2. HostTyped'
    <2>1. host' = [p \in Attempts |-> IF p \in hit THEN "unreachable" ELSE host[p]]
      BY DEF Crash
    <2> HIDE DEF hit
    <2> QED BY <2>1 DEF Typed, TypeOK, HostTyped
  <1>3. queued' \in BOOLEAN
    BY Zenon DEF Crash
  <1>4. cached' \in [Replicas -> Scopes \cup {None}]
    BY DEF Crash, Typed, TypeOK
  <1>5. gc' \in [Replicas -> Collector]
    BY DEF Crash, Typed, TypeOK, NotCollecting, Collector
  <1>6. UNCHANGED <<rows, keycloak, secretOf>>
    BY DEF Crash
  <1> QED BY <1>1, <1>2, <1>3, <1>4, <1>5, <1>6
       DEF Typed, TypeOK, TaskTyped, HostTyped, rows, keycloak

\* Types are preserved by every step.
LEMMA NextTyped == Typed /\ [Next]_vars => Typed'
  <1> SUFFICES ASSUME Typed, [Next]_vars PROVE Typed'
    OBVIOUS
  <1>1. CASE \E p \in Attempts : Bootstrap(p) \/ Limited(p) \/ AnswerLost(p) \/ Install(p)
    BY <1>1, ScriptTyped
  <1>2. CASE \E p \in Attempts : Lock(p) \/ Create(p) \/ GetSecret(p) \/ Commit(p)
    BY <1>2, ExchangeTyped
  <1>3. CASE \E p \in Processes : Mirror(p)
    BY <1>3, MirrorStepTyped
       DEF Typed, TypeOK, MirrorTyped, EndTyped, TaskTyped, HostTyped, Client
  <1>4. CASE Sync \/ ChangeAgent \/ RevokeToken \/ Expire \/ CreateScope
    BY <1>4, EnvironmentTyped
  <1>5. CASE \E r \in Replicas : Collect(r) \/ Crash(r)
    BY <1>5, CollectTyped, CrashTyped
  <1>6. CASE \E p \in Processes : Fail(p)
    BY <1>6, FailTyped
  <1>7. CASE UNCHANGED vars
    BY <1>7 DEF vars, rows, keycloak, Typed, TypeOK
  <1> QED BY <1>1, <1>2, <1>3, <1>4, <1>5, <1>6, <1>7 DEF Next, Exchange, Processes

\* However many hosts, replicas, changes and failures there are, every variable
\* of the enrollment keeps its type.
THEOREM TypeCorrect == Spec => []TypeOK
  <1>1. Typed => TypeOK
    BY DEF Typed
  <1> QED BY InitTyped, NextTyped, <1>1, PTL DEF Spec

-----------------------------------------------------------------------------
(* Credentials go out once.  The row lock lets one exchange in, and while   *)
(* it is in the token is open, so none of the others has been answered.     *)

\* Attempts whose host is sent, or has, the credentials.
Served == {p \in Attempts : At(p, "answer") \/ host[p] = "running"}

OneInside == \A p, q \in InTransaction : p = q
InsideIsOpen == InTransaction # {} => token = "open"
OneServed == \A p, q \in Served : p = q
ServedIsUsed == Served # {} => token = "used"
OpenIsAbsent == token = "open" => status = "absent"

Once == OneInside /\ InsideIsOpen /\ OneServed /\ ServedIsUsed /\ OpenIsAbsent

\* What all but four of the actions do: nobody enters an exchange or is served.
NobodyNew == InTransaction' \subseteq InTransaction /\ Served' \subseteq Served
Quiet == NobodyNew /\ UNCHANGED <<token, status>>

\* A step at which nobody enters an exchange or is served, and which leaves the
\* rows alone, preserves the invariant.
LEMMA QuietKeepsOnce == Once /\ Quiet => Once'
  BY DEF Once, Quiet, NobodyNew, OneInside, InsideIsOpen, OneServed, ServedIsUsed, OpenIsAbsent

\* A process that is handed another step enters no exchange and is not served,
\* unless the step is "answer" or it comes from outside the transaction.
LEMMA TaskStep ==
  ASSUME Typed, NEW p \in Processes, NEW t,
         task' = [task EXCEPT ![p] = t],
         t.at # "answer",
         t.at \in {"idle", "lock"} \/ p \in InTransaction \/ p = Handler,
         \A q \in Attempts : host'[q] = "running" => host[q] = "running"
  PROVE  NobodyNew
  <1>1. \A q \in Attempts : task'[q] = IF q = p THEN t ELSE task[q]
    BY DEF Typed, TypeOK, Processes
  <1>2. Handler \notin Attempts
    BY EnrollmentAssumption DEF Handler
  <1> QED BY <1>1, <1>2 DEF NobodyNew, InTransaction, Served, At

\* Nobody enters an exchange or is served when a process ends,
LEMMA EndNew ==
  ASSUME Typed, NEW p \in Processes, Throw(p) \/ Return(p)
  PROVE  NobodyNew
  <1>1. Idle.at = "idle"
    BY DEF Idle
  <1>2. \A q \in Attempts : host'[q] = "running" => host[q] = "running"
    BY DEF Throw, Return, Typed, TypeOK
  <1> QED BY <1>1, <1>2, TaskStep DEF Throw, Return

\* nor when it goes on inside the transaction, or is the handler.
LEMMA GoNew ==
  ASSUME Typed, NEW p \in Processes, p \in InTransaction \/ p = Handler,
         NEW step, step # "answer", Go(p, step), UNCHANGED host
  PROVE  NobodyNew
  <1> DEFINE t == [task[p] EXCEPT !.at = step]
  <1>1. task' = [task EXCEPT ![p] = t]
    BY DEF Go
  <1>2. t.at = step
    BY DEF Typed, TypeOK, Task
  <1> HIDE DEF t
  <1> QED BY <1>1, <1>2, TaskStep

\* The steps of the mirror are quiet: an attempt takes them in its transaction.
LEMMA MirrorQuiet ==
  ASSUME Typed, NEW p \in Processes, Mirror(p)
  PROVE  Quiet
  <1>1. UNCHANGED <<token, status>>
    BY MirrorStepTyped
  <1>2. p \in InTransaction \/ p = Handler
    BY DEF Mirror, Resolve, Enable, SetAttributes, GetScopes, FindScope, AddScope,
           RemoveLegacy, Store, Delete, Clear, At, Processes, InTransaction
  <1>3. NobodyNew
    <2>1. CASE Throw(p) \/ Return(p)
      BY <2>1, EndNew
    <2>2. CASE \E step : step # "answer" /\ Proceed(p, step)
      BY <1>2, <2>2, GoNew DEF Proceed
    <2>3. CASE UNCHANGED <<task, host>>
      BY <2>3 DEF NobodyNew, InTransaction, Served, At
    <2>4. CASE Resolve(p) /\ AfterResolve(p) # "idle"
      <3> DEFINE t == [task[p] EXCEPT !.at = AfterResolve(p), !.id = client.id]
      <3>1. task' = [task EXCEPT ![p] = t] /\ UNCHANGED host
        BY <2>4 DEF Resolve
      <3>2. t.at = AfterResolve(p)
        BY DEF Typed, TypeOK, Task
      <3>3. AfterResolve(p) # "answer"
        BY DEF AfterResolve
      <3> HIDE DEF t
      <3> QED BY <1>2, <3>1, <3>2, <3>3, TaskStep
    <2>5. AfterScopes(p) # "answer"
      BY DEF AfterScopes
    <2> QED
      <3>1. CASE Resolve(p)
        BY <2>1, <2>4, <3>1 DEF Resolve
      <3>2. CASE Enable(p)
        BY <2>1, <2>2, <3>2 DEF Enable
      <3>3. CASE SetAttributes(p)
        BY <2>1, <2>2, <3>3 DEF SetAttributes
      <3>4. CASE GetScopes(p)
        BY <2>1, <2>2, <2>5, <3>4 DEF GetScopes
      <3>5. CASE FindScope(p)
        BY <2>1, <2>2, <3>5 DEF FindScope
      <3>6. CASE AddScope(p)
        BY <2>1, <2>2, <3>6 DEF AddScope
      <3>7. CASE RemoveLegacy(p)
        BY <2>1, <2>2, <2>3, <3>7 DEF RemoveLegacy
      <3>8. CASE Store(p) \/ Clear(p)
        BY <2>1, <3>8 DEF Store, Clear
      <3>9. CASE Delete(p)
        BY <2>1, <2>2, <3>9 DEF Delete
      <3> QED BY <3>1, <3>2, <3>3, <3>4, <3>5, <3>6, <3>7, <3>8, <3>9 DEF Mirror
  <1> QED BY <1>1, <1>3 DEF Quiet

\* So are the steps of the scripts, of the outbox, of the collectors and of
\* failures, and what an exchange does short of taking the lock and committing.
LEMMA OthersQuiet ==
  ASSUME Typed,
         \/ \E p \in Attempts : \/ Bootstrap(p) \/ Limited(p) \/ AnswerLost(p) \/ Install(p)
                                \/ Create(p) \/ GetSecret(p)
         \/ Sync \/ Expire \/ CreateScope
         \/ \E r \in Replicas : Collect(r) \/ Crash(r)
         \/ \E p \in Processes : Fail(p)
         \/ UNCHANGED vars
  PROVE  Quiet
  <1>1. UNCHANGED <<token, status>>
    BY DEF Bootstrap, Limited, AnswerLost, Install, Create, GetSecret, Sync, Expire, CreateScope,
           Collect, Resync, ListClients, LiveIds, OpenIds, Remove, Crash, Fail, vars, rows
  <1>2. NobodyNew
    <2>1. ASSUME NEW p \in Attempts, Bootstrap(p) PROVE NobodyNew
      <3>1. PICK r \in Replicas : task' = [task EXCEPT ![p].at = "lock", ![p].on = r]
        BY <2>1 DEF Bootstrap
      <3> DEFINE t == [task[p] EXCEPT !.at = "lock", !.on = r]
      <3>2. task' = [task EXCEPT ![p] = t] /\ p \in Processes
        BY <3>1 DEF Processes
      <3>3. t.at = "lock"
        BY <3>2 DEF Typed, TypeOK, Task
      <3>4. \A q \in Attempts : host'[q] = "running" => host[q] = "running"
        BY <2>1 DEF Bootstrap, Typed, TypeOK
      <3> HIDE DEF t
      <3> QED BY <3>2, <3>3, <3>4, TaskStep
    <2>2. ASSUME NEW p \in Attempts, Limited(p) \/ AnswerLost(p) PROVE NobodyNew
      <3>1. task' = [task EXCEPT ![p] = Idle] /\ p \in Processes /\ Idle.at = "idle"
        BY <2>2 DEF Limited, AnswerLost, Processes, Idle
      <3>2. \A q \in Attempts : host'[q] = "running" => host[q] = "running"
        BY <2>2 DEF Limited, AnswerLost, Typed, TypeOK
      <3> QED BY <3>1, <3>2, TaskStep
    <2>3. ASSUME NEW p \in Attempts, Install(p) PROVE NobodyNew
      <3>1. /\ At(p, "answer") /\ p \in Processes
            /\ task' = [task EXCEPT ![p] = Idle] /\ Idle.at = "idle"
            /\ host' = [host EXCEPT ![p] = "running"]
        BY <2>3 DEF Install, Processes, Idle
      <3> QED BY <3>1 DEF NobodyNew, InTransaction, Served, At, Typed, TypeOK, Processes
    <2>4. ASSUME NEW p \in Attempts, Create(p) PROVE NobodyNew
      <3>1. CASE Throw(p)
        BY <3>1, EndNew DEF Processes
      <3>2. CASE ~Throw(p)
        <4> DEFINE t == [task[p] EXCEPT !.at = "attributes", !.id = made + 1]
        <4>1. task' = [task EXCEPT ![p] = t] /\ UNCHANGED host /\ p \in Processes
          BY <2>4, <3>2 DEF Create, Processes
        <4>2. t.at = "attributes" /\ p \in InTransaction
          BY <2>4, <4>1 DEF Typed, TypeOK, Task, Create, At, InTransaction
        <4> HIDE DEF t
        <4> QED BY <4>1, <4>2, TaskStep
      <3> QED BY <3>1, <3>2
    <2>5. ASSUME NEW p \in Attempts, GetSecret(p) PROVE NobodyNew
      <3>1. p \in Processes /\ p \in InTransaction
        BY <2>5 DEF GetSecret, At, InTransaction, Processes
      <3> QED BY <2>5, <3>1, EndNew, GoNew DEF GetSecret, Proceed
    <2>6. ASSUME Sync PROVE NobodyNew
      <3>1. PICK r \in Replicas :
              task' = [task EXCEPT ![Handler] =
                [Idle EXCEPT !.at = "resolve", !.on = r, !.row = status, !.ptr = pointer]]
        BY <2>6 DEF Sync
      <3> DEFINE t == [Idle EXCEPT !.at = "resolve", !.on = r, !.row = status, !.ptr = pointer]
      <3>2. t.at # "answer"
        BY DEF Idle
      <3>3. task' = [task EXCEPT ![Handler] = t] /\ UNCHANGED host /\ Handler \in Processes
        BY <2>6, <3>1 DEF Sync, Processes
      <3> HIDE DEF t
      <3> QED BY <3>2, <3>3, TaskStep
    <2>7. ASSUME NEW p \in Processes, Fail(p) PROVE NobodyNew
      BY <2>7, EndNew DEF Fail
    <2>8. ASSUME NEW r \in Replicas, Crash(r) PROVE NobodyNew
      <3> DEFINE hit == {p \in Processes : task[p].on = r}
      <3>1. /\ task' = [p \in Processes |-> IF p \in hit THEN Idle ELSE task[p]]
            /\ host' = [p \in Attempts |-> IF p \in hit THEN "unreachable" ELSE host[p]]
        BY <2>8 DEF Crash
      <3>2. Idle.at = "idle"
        BY DEF Idle
      <3> HIDE DEF hit
      <3> QED BY <3>1, <3>2 DEF NobodyNew, InTransaction, Served, At, Processes
    <2>9. CASE Expire \/ CreateScope \/ (\E r \in Replicas : Collect(r)) \/ UNCHANGED vars
      <3>1. UNCHANGED <<task, host>>
        BY <2>9 DEF Expire, CreateScope, Collect, Resync, ListClients, LiveIds, OpenIds, Remove, vars
      <3> QED BY <3>1 DEF NobodyNew, InTransaction, Served, At
    <2> QED BY <2>1, <2>2, <2>3, <2>4, <2>5, <2>6, <2>7, <2>8, <2>9
  <1> QED BY <1>1, <1>2 DEF Quiet

\* Who takes the lock is alone, and stays only when the token is open.
LEMMA LockKeepsOnce ==
  ASSUME Typed, Once, NEW p \in Attempts, Lock(p)
  PROVE  Once'
  <1>1. UNCHANGED <<token, status>> /\ p \in Processes
    BY DEF Lock, rows, Processes
  <1>2. CASE Open
    <2>1. Go(p, "resolve") /\ UNCHANGED host /\ InTransaction \subseteq {p} /\ token = "open"
      BY <1>2 DEF Lock, Proceed, RowIsFree, Open
    <2>2. InTransaction' \subseteq {p} /\ Served' \subseteq Served
      BY <1>1, <2>1 DEF InTransaction, Served, At, Go, Typed, TypeOK, Processes, Task
    <2> QED BY <1>1, <2>1, <2>2
         DEF Once, OneInside, InsideIsOpen, OneServed, ServedIsUsed, OpenIsAbsent
  <1>3. CASE ~Open
    <2>1. task' = [task EXCEPT ![p] = Idle] /\ host' = [host EXCEPT ![p] = "refused"]
      BY <1>3 DEF Lock
    <2>2. Idle.at = "idle" /\ \A q \in Attempts : host'[q] = "running" => host[q] = "running"
      BY <2>1 DEF Idle, Typed, TypeOK
    <2>3. NobodyNew
      BY <1>1, <2>1, <2>2, TaskStep
    <2> QED BY <1>1, <2>3, QuietKeepsOnce DEF Quiet
  <1> QED BY <1>2, <1>3

\* Who commits was inside with an open token, so nobody had been answered.
LEMMA CommitKeepsOnce ==
  ASSUME Typed, Once, NEW p \in Attempts, Commit(p)
  PROVE  Once'
  <1>1. p \in InTransaction /\ InTransaction \subseteq {p} /\ Served = {}
    BY DEF Commit, At, InTransaction, Once, OneInside, InsideIsOpen, ServedIsUsed
  <1>2. Go(p, "answer") /\ UNCHANGED host /\ token' = "used"
    BY DEF Commit
  <1>3. InTransaction' = {} /\ Served' \subseteq {p}
    BY <1>1, <1>2 DEF InTransaction, Served, At, Go, Typed, TypeOK, Processes, Task
  <1> QED BY <1>2, <1>3 DEF Once, OneInside, InsideIsOpen, OneServed, ServedIsUsed, OpenIsAbsent

\* An agent is changed when there is one, so the token is no longer open, and a
\* token is revoked when no exchange holds its row.
LEMMA AdminKeepsOnce ==
  ASSUME Typed, Once, ChangeAgent \/ RevokeToken
  PROVE  Once'
  <1>1. InTransaction' = InTransaction /\ Served' = Served
    BY DEF ChangeAgent, RevokeToken, InTransaction, Served, At
  <1>2. CASE ChangeAgent
    BY <1>1, <1>2 DEF ChangeAgent, Live, Once, OneInside, InsideIsOpen, OneServed, ServedIsUsed,
                      OpenIsAbsent
  <1>3. CASE RevokeToken
    BY <1>1, <1>3 DEF RevokeToken, Once, OneInside, InsideIsOpen, OneServed, ServedIsUsed,
                      OpenIsAbsent
  <1> QED BY <1>2, <1>3

\* At first nobody is inside or served, and an agent of v0.8 has used its token.
LEMMA InitOnce == Init => Once
  <1> SUFFICES ASSUME Init PROVE Once
    OBVIOUS
  <1>1. \A p \in Attempts : task[p].at = "idle" /\ host[p] = "new"
    BY DEF Init, Idle, Processes
  <1>2. InTransaction = {} /\ Served = {}
    BY <1>1 DEF InTransaction, Served, At
  <1> QED BY <1>2 DEF Init, Once, OneInside, InsideIsOpen, OneServed, ServedIsUsed, OpenIsAbsent

\* The invariant is preserved by every step.
LEMMA NextOnce == Typed /\ Once /\ [Next]_vars => Once'
  <1> SUFFICES ASSUME Typed, Once, [Next]_vars PROVE Once'
    OBVIOUS
  <1>1. CASE \E p \in Attempts : Lock(p)
    BY <1>1, LockKeepsOnce
  <1>2. CASE \E p \in Attempts : Commit(p)
    BY <1>2, CommitKeepsOnce
  <1>3. CASE ChangeAgent \/ RevokeToken
    BY <1>3, AdminKeepsOnce
  <1>4. CASE \E p \in Processes : Mirror(p)
    BY <1>4, MirrorQuiet, QuietKeepsOnce
  <1>5. CASE \/ \E p \in Attempts : \/ Bootstrap(p) \/ Limited(p) \/ AnswerLost(p) \/ Install(p)
                                    \/ Create(p) \/ GetSecret(p)
             \/ Sync \/ Expire \/ CreateScope
             \/ \E r \in Replicas : Collect(r) \/ Crash(r)
             \/ \E p \in Processes : Fail(p)
             \/ UNCHANGED vars
    BY <1>5, OthersQuiet, QuietKeepsOnce
  <1> QED BY <1>1, <1>2, <1>3, <1>4, <1>5 DEF Next, Exchange, Processes

\* However many hosts try the token at any number of replicas, whatever fails
\* and is tried again, its credentials are sent at most once, and the token is
\* used exactly when they have been (FOR UPDATE OF e and used_at,
\* modules/enrollments).
THEOREM CredentialsGoOutOnce == Spec => []CredentialsOnce
  <1>1. Once => CredentialsOnce
    <2> SUFFICES ASSUME Once PROVE CredentialsOnce
      OBVIOUS
    <2>1. Cardinality(Served) <= 1
      <3>1. CASE Served = {}
        BY <3>1, FS_EmptySet
      <3>2. CASE Served # {}
        <4>1. PICK p \in Served : Served = {p}
          BY <3>2 DEF Once, OneServed
        <4>2. Cardinality({p}) = 1
          BY FS_Singleton
        <4>3. Cardinality(Served) = 1
          BY <4>1, <4>2, Zenon
        <4> QED BY <4>3
      <3> QED BY <3>1, <3>2
    <2>2. (\E p \in Attempts : At(p, "answer") \/ host[p] = "running") => token = "used"
      BY DEF Once, ServedIsUsed, Served
    <2>3. token = "open" => status = "absent"
      BY DEF Once, OpenIsAbsent
    <2> QED BY <2>1, <2>2, <2>3 DEF CredentialsOnce, Served
  <1>2. Init => Typed /\ Once
    BY InitTyped, InitOnce
  <1>3. Typed /\ Once /\ [Next]_vars => (Typed /\ Once)'
    BY NextTyped, NextOnce
  <1> QED BY <1>1, <1>2, <1>3, PTL DEF Spec

-----------------------------------------------------------------------------
(* What a step does to the task of the process that takes it and to the    *)
(* client, said once for the two invariants below.                         *)

\* The other processes are where they were.
Others(p) == \A q \in Processes \ {p} : task'[q] = task[q]

\* The process goes from one place to another with what it knows.
Moves(p, from, to) ==
  /\ task[p].at = from /\ task'[p].at = to
  /\ task'[p].id = task[p].id /\ task'[p].row = task[p].row /\ task'[p].on = task[p].on

\* The lookup has found the client, or none.
Found(p) ==
  /\ At(p, "resolve") /\ task'[p].at = AfterResolve(p) /\ task'[p].at # "idle"
  /\ task'[p].id = client.id /\ task'[p].row = task[p].row /\ task'[p].on = task[p].on

\* The steps of the mirror, from place to place.
Leads(p) ==
  \/ task'[p] = Idle
  \/ Found(p)
  \/ /\ ~Gone(p)
     /\ \/ Moves(p, "enable", "attributes")
        \/ Moves(p, "attributes", "scopes") /\ client'.attributes
        \/ Moves(p, "scopes", "findScope")
        \/ Moves(p, "scopes", "addScope") /\ cached[task[p].on] # None
        \/ Moves(p, "scopes", "legacy") /\ client.scope # None
        \/ Moves(p, "addScope", "legacy") /\ client'.scope = scope
        \/ Moves(p, "legacy", "legacy")
        \/ Moves(p, "legacy", "secret")
        \/ Moves(p, "legacy", "store") /\ ~Exchanging(p)
  \/ Moves(p, "findScope", "addScope") /\ scope # None
  \/ Moves(p, "delete", "clear")

\* The client is still the same, and has the attributes and the scope it had or
\* the scope there is now.
SameClient ==
  /\ client'.id = client.id
  /\ client.attributes => client'.attributes
  /\ client'.scope \in {client.scope, scope}
  /\ client'.legacy = client.legacy

\* One mapper is gone.
Stripped(p) ==
  /\ At(p, "legacy") /\ ~Gone(p)
  /\ client'.id = client.id /\ client'.attributes = client.attributes
  /\ client'.scope = client.scope

Dropped(p) == At(p, "delete") /\ client' = NoClient

LEMMA EndMoves ==
  ASSUME Typed, NEW p \in Processes, Throw(p) \/ Return(p)
  PROVE  Others(p) /\ task'[p] = Idle
  BY DEF Typed, TypeOK, Throw, Return, Others

LEMMA GoMoves ==
  ASSUME Typed, NEW p \in Processes, NEW step, Go(p, step)
  PROVE  Others(p) /\ Moves(p, task[p].at, step)
  BY DEF Typed, TypeOK, Go, Others, Moves, Task

\* Each step of the mirror is one of those listed.
LEMMA MirrorMoves ==
  ASSUME Typed, NEW p \in Processes, Mirror(p)
  PROVE  /\ Others(p) /\ Leads(p)
         /\ SameClient \/ Stripped(p) \/ Dropped(p)
         /\ \A r \in Replicas : cached'[r] \in {cached[r], scope, None}
  <1> DEFINE Caches == \A r \in Replicas : cached'[r] \in {cached[r], scope, None}
  <1>1. client \in Client /\ cached \in [Replicas -> Scopes \cup {None}]
    BY DEF Typed, TypeOK
  <1>2. ASSUME UNCHANGED client  PROVE SameClient
    BY <1>2 DEF SameClient
  <1>3. ASSUME UNCHANGED cached  PROVE Caches
    BY <1>3
  <1> HIDE DEF Caches
  <1>4. CASE Resolve(p)
    <2>1. UNCHANGED <<client, cached>>
      BY <1>4 DEF Resolve, keycloak
    <2>2. CASE AfterResolve(p) = "idle"
      BY <1>2, <1>3, <1>4, <2>1, <2>2, EndMoves DEF Resolve, Leads, Caches
    <2>3. CASE AfterResolve(p) # "idle"
      <3> DEFINE t == [task[p] EXCEPT !.at = AfterResolve(p), !.id = client.id]
      <3>1. task' = [task EXCEPT ![p] = t] /\ At(p, "resolve")
        BY <1>4, <2>3 DEF Resolve
      <3>2. t.at = AfterResolve(p) /\ t.id = client.id /\ t.row = task[p].row /\ t.on = task[p].on
        BY DEF Typed, TypeOK, Task
      <3> HIDE DEF t
      <3>3. Others(p) /\ task'[p] = t
        BY <3>1 DEF Typed, TypeOK, Others
      <3> QED BY <1>2, <1>3, <2>1, <2>3, <3>1, <3>2, <3>3 DEF Leads, Found, Caches
    <2> QED BY <2>2, <2>3
  <1>5. CASE Enable(p)
    <2>1. Others(p) /\ Leads(p)
      BY <1>5, EndMoves, GoMoves DEF Enable, Proceed, Leads, At, Moves
    <2>2. SameClient
      BY <1>1, <1>5 DEF Enable, SameClient, Client
    <2> QED BY <1>3, <1>5, <2>1, <2>2 DEF Enable, Caches
  <1>6. CASE SetAttributes(p)
    <2>1. SameClient /\ (~Gone(p) => client'.attributes)
      BY <1>1, <1>6 DEF SetAttributes, SameClient, Client
    <2>2. Others(p) /\ Leads(p)
      BY <1>6, <2>1, EndMoves, GoMoves DEF SetAttributes, Proceed, Leads, At, Moves
    <2> QED BY <1>3, <1>6, <2>1, <2>2 DEF SetAttributes, Caches
  <1>7. CASE GetScopes(p)
    <2>1. Others(p) /\ Leads(p)
      <3>1. CASE Gone(p)
        BY <1>7, <3>1, EndMoves DEF GetScopes, Leads
      <3>2. CASE ~Gone(p)
        <4>1. Others(p) /\ Moves(p, "scopes", AfterScopes(p))
          BY <1>7, <3>2, GoMoves DEF GetScopes, Proceed, At
        <4> QED BY <3>2, <4>1 DEF AfterScopes, Leads
      <3> QED BY <3>1, <3>2
    <2> QED BY <1>2, <1>3, <1>7, <2>1 DEF GetScopes, keycloak, Caches
  <1>8. CASE FindScope(p)
    <2>1. Others(p) /\ Leads(p)
      BY <1>8, EndMoves, GoMoves DEF FindScope, Proceed, Leads, At, Moves
    <2>2. Caches
      BY <1>1, <1>8 DEF FindScope, Caches
    <2> QED BY <1>2, <1>8, <2>1, <2>2 DEF FindScope, keycloak, Caches
  <1>9. CASE AddScope(p)
    <2>1. Caches
      BY <1>1, <1>9 DEF AddScope, DropScopeId, Caches
    <2>2. SameClient /\ (Throw(p) \/ client'.scope = scope)
      BY <1>1, <1>9 DEF AddScope, SameClient, Client
    <2>3. Others(p) /\ Leads(p)
      BY <1>9, <2>2, EndMoves, GoMoves DEF AddScope, Proceed, Leads, At, Moves
    <2> QED BY <2>1, <2>2, <2>3 DEF Caches
  <1>10. CASE RemoveLegacy(p)
    <2>1. At(p, "legacy") /\ UNCHANGED cached
      BY <1>10 DEF RemoveLegacy
    <2>2. CASE Gone(p)
      BY <1>2, <1>3, <1>10, <2>1, <2>2, EndMoves DEF RemoveLegacy, Leads, Caches
    <2>3. CASE ~Gone(p) /\ HasLegacy(client)
      <3>1. UNCHANGED task /\ client' = [client EXCEPT !.legacy = client.legacy - 1]
        BY <1>10, <2>3 DEF RemoveLegacy
      <3>2. Stripped(p)
        BY <1>1, <2>1, <2>3, <3>1 DEF Stripped, Client
      <3>3. Others(p) /\ Leads(p)
        BY <2>1, <2>3, <3>1 DEF Others, Leads, Moves, At
      <3> QED BY <1>3, <2>1, <3>2, <3>3 DEF Caches
    <2>4. CASE ~Gone(p) /\ ~HasLegacy(client)
      <3>1. UNCHANGED client
        BY <1>10, <2>4 DEF RemoveLegacy
      <3>2. Others(p) /\ Leads(p)
        BY <1>10, <2>1, <2>4, EndMoves, GoMoves DEF RemoveLegacy, Proceed, Leads, At, Moves
      <3> QED BY <1>2, <1>3, <2>1, <3>1, <3>2 DEF Caches
    <2> QED BY <2>2, <2>3, <2>4
  <1>11. CASE Store(p) \/ Clear(p)
    BY <1>2, <1>3, <1>11, EndMoves DEF Store, Clear, Leads, keycloak, Caches
  <1>12. CASE Delete(p)
    <2>1. Others(p) /\ Leads(p)
      BY <1>12, EndMoves, GoMoves DEF Delete, Proceed, Leads, At, Moves
    <2>2. SameClient \/ Dropped(p)
      BY <1>2, <1>12 DEF Delete, Dropped
    <2> QED BY <1>3, <1>12, <2>1, <2>2 DEF Delete, Caches
  <1> QED BY <1>4, <1>5, <1>6, <1>7, <1>8, <1>9, <1>10, <1>11, <1>12 DEF Mirror, Caches
-----------------------------------------------------------------------------
(* A live agent keeps its client.  A client is replaced by nobody while an  *)
(* exchange works on it, deleted by the handler only when its agent is      *)
(* revoked, and removed by a collector only when no agent can come of it.   *)

\* What an exchange does once it has found or made the client.
Working == {"attributes", "scopes", "findScope", "addScope", "legacy", "secret", "commit"}

\* The client an exchange works on is the one that is there; the handler deletes
\* for an agent that is revoked, which is final.
WorksOn(p) ==
  IF p = Handler
    THEN /\ At(p, "delete") => task[p].row = "revoked"
         /\ task[p].row = "revoked" => status = "revoked"
    ELSE /\ task[p].at \in Working => task[p].id = client.id
         /\ task[p].at \notin {"enable", "store", "delete", "clear"}

\* No exchange is under way or may begin, and no agent is live: that is final.
Doomed == ~Open /\ InTransaction = {} /\ ~Live

\* What a collector that has seen an orphan knows: only the exchanges that were
\* under way then can still make an agent of it.  Its next run starts when they
\* are over, and sees whether they did before it removes the client.
CollectorKnows(r) ==
  /\ gc[r].seen # None => ~Open /\ InTransaction \subseteq gc[r].during
  /\ gc[r].at \in {"list", "live", "open"} => gc[r].during = {}
  /\ gc[r].at = "open" /\ gc[r].seen # None => gc[r].keep \/ ~Live
  /\ gc[r].at = "remove" => Doomed

Kept ==
  /\ \A p \in Processes : WorksOn(p)
  /\ \A r \in Replicas : CollectorKnows(r)
  /\ AgentKeepsItsClient

\* A process that stays or ends keeps what it works on, if the client stays or
\* nobody is inside.
LEMMA RestsWorksOn ==
  ASSUME Kept, NEW p \in Processes, task'[p] \in {task[p], Idle},
         client'.id = client.id \/ InTransaction = {},
         status = "revoked" => status' = "revoked"
  PROVE  WorksOn(p)'
  <1>1. WorksOn(p) /\ Idle.at = "idle" /\ Idle.row = "absent"
    BY DEF Kept, Idle
  <1>2. CASE p = Handler
    BY <1>1, <1>2 DEF WorksOn, At
  <1>3. CASE p # Handler
    <2>1. InTransaction = {} => task[p].at \notin Working
      BY <1>3 DEF InTransaction, Working, Processes
    <2> QED BY <1>1, <1>3, <2>1 DEF WorksOn, Working
  <1> QED BY <1>2, <1>3

\* What a collector knows stays true, however exchanges go on and end.
LEMMA CollectorsKeep ==
  ASSUME Kept, NEW r \in Replicas, gc'[r] = gc[r],
         Open' => Open, Live' => Live \/ InTransaction # {},
         InTransaction' \subseteq InTransaction \/ Open
  PROVE  CollectorKnows(r)'
  <1>1. CollectorKnows(r)
    BY DEF Kept
  <1>2. gc[r].at = "open" /\ gc[r].seen # None => InTransaction = {}
    BY <1>1 DEF CollectorKnows
  <1> QED BY <1>1, <1>2 DEF CollectorKnows, Doomed

\* While an exchange is inside there is no agent.
LEMMA InsideNoAgent ==
  ASSUME Once, InTransaction # {}
  PROVE  status = "absent" /\ ~Live
  BY DEF Once, InsideIsOpen, OpenIsAbsent, Live

\* A step of the mirror keeps live agents their client.
LEMMA MirrorKeeps ==
  ASSUME Typed, Once, Kept, NEW p \in Processes, Mirror(p)
  PROVE  Kept'
  <1>1. UNCHANGED <<token, expired, status, gc, secretOf>> /\ InTransaction' \subseteq InTransaction
    BY MirrorStepTyped, MirrorQuiet DEF Quiet, NobodyNew
  <1>2. Others(p) /\ Leads(p) /\ (SameClient \/ Stripped(p) \/ Dropped(p)) /\ WorksOn(p)
    BY MirrorMoves DEF Kept
  <1>3. client'.id = client.id \/ status = "revoked"
    BY <1>2 DEF SameClient, Stripped, Dropped, WorksOn, At
  <1>4. client'.id = client.id \/ (InTransaction = {} /\ ~Live)
    BY <1>3, InsideNoAgent DEF Live
  <1>5. WorksOn(p)'
    <2>1. CASE task'[p] = Idle
      BY <1>1, <1>4, <2>1, RestsWorksOn
    <2>2. CASE p = Handler /\ task'[p] # Idle
      <3>1. task'[p].row = task[p].row
        BY <1>2, <2>2 DEF Leads, Found, Moves
      <3>2. ~Exchanging(p)
        BY <2>2, EnrollmentAssumption DEF Exchanging, Handler
      <3>3. task'[p].at = "delete" => task[p].row = "revoked"
        BY <1>2, <2>2, <3>2 DEF Leads, Found, Moves, AfterResolve
      <3> QED BY <1>1, <1>2, <2>2, <3>1, <3>3 DEF WorksOn, At
    <2>3. CASE p # Handler /\ task'[p] # Idle
      <3>1. Exchanging(p) /\ p \in InTransaction
        BY <2>3 DEF Exchanging, Processes, InTransaction, Mirror, Resolve, Enable, SetAttributes,
           GetScopes, FindScope, AddScope, RemoveLegacy, Store, Delete, Clear, At
      <3>2. client'.id = client.id
        BY <1>4, <3>1
      <3>3. CASE Found(p)
        <4>1. task'[p].at \in {"create", "attributes"} /\ task'[p].id = client.id
          BY <3>1, <3>3 DEF Found, AfterResolve
        <4> QED BY <2>3, <3>2, <4>1 DEF WorksOn
      <3>4. CASE ~Found(p)
        <4>1. task'[p].at \in Working /\ task'[p].id = client.id
          BY <1>2, <2>3, <3>1, <3>4 DEF Leads, Moves, WorksOn, Working, Gone
        <4> QED BY <2>3, <3>2, <4>1 DEF WorksOn, Working
      <3> QED BY <3>3, <3>4
    <2> QED BY <2>1, <2>2, <2>3
  <1>6. \A q \in Processes : WorksOn(q)'
    BY <1>1, <1>2, <1>4, <1>5, RestsWorksOn DEF Others
  <1>7. \A r \in Replicas : CollectorKnows(r)'
    BY <1>1, CollectorsKeep DEF Open, Live
  <1>8. AgentKeepsItsClient'
    BY <1>1, <1>4 DEF Kept, AgentKeepsItsClient, Live
  <1> QED BY <1>6, <1>7, <1>8 DEF Kept

\* The steps only an exchange takes do: it commits with the secret of the client
\* that is there.
LEMMA ExchangeKeeps ==
  ASSUME Typed, Once, Kept, NEW p \in Attempts, Lock(p) \/ Create(p) \/ GetSecret(p) \/ Commit(p)
  PROVE  Kept'
  <1>1. p \in Processes /\ p # Handler /\ WorksOn(p) /\ UNCHANGED <<expired, gc>>
    BY EnrollmentAssumption DEF Processes, Handler, Kept, Lock, Create, GetSecret, Commit, rows
  <1>2. CASE Lock(p)
    <2>1. UNCHANGED <<token, status, client, secretOf>>
      BY <1>2 DEF Lock, rows, keycloak
    <2>2. Others(p) /\ WorksOn(p)'
      <3>1. CASE Open
        <4>1. Others(p) /\ Moves(p, "lock", "resolve")
          BY <1>1, <1>2, <3>1, GoMoves DEF Lock, Proceed, At
        <4> QED BY <1>1, <4>1 DEF Moves, WorksOn, Working
      <3>2. CASE ~Open
        <4>1. Others(p) /\ task'[p] = Idle
          BY <1>1, <1>2, <3>2 DEF Lock, Others, Typed, TypeOK
        <4> QED BY <1>1, <2>1, <4>1, RestsWorksOn
      <3> QED BY <3>1, <3>2
    <2>3. Open \/ InTransaction' \subseteq InTransaction
      <3>1. CASE ~Open
        BY <1>1, <1>2, <2>2, <3>1 DEF Lock, InTransaction, Typed, TypeOK, Idle, Processes, At
      <3> QED BY <3>1
    <2>4. \A q \in Processes : WorksOn(q)'
      BY <1>1, <2>1, <2>2, RestsWorksOn DEF Others
    <2>5. \A r \in Replicas : CollectorKnows(r)'
      BY <1>1, <2>1, <2>3, CollectorsKeep DEF Open, Live
    <2> QED BY <2>1, <2>4, <2>5 DEF Kept, AgentKeepsItsClient, Live
  <1>3. CASE Create(p) \/ GetSecret(p)
    <2>1. UNCHANGED <<token, status, secretOf>> /\ InTransaction' \subseteq InTransaction
      <3>1. Quiet
        BY <1>3, OthersQuiet
      <3> QED BY <1>3, <3>1 DEF Quiet, NobodyNew, Create, GetSecret
    <2>2. p \in InTransaction /\ InTransaction \subseteq {p} /\ ~Live
      BY <1>3, InsideNoAgent DEF InTransaction, Create, GetSecret, At, Once, OneInside
    <2>3. Others(p) /\ WorksOn(p)'
      <3>1. CASE Throw(p)
        <4>1. Others(p) /\ task'[p] = Idle
          BY <1>1, <3>1, EndMoves
        <4> QED BY <1>1, <4>1 DEF WorksOn, Idle, Working
      <3>2. CASE Create(p) /\ ~Throw(p)
        <4>1. /\ task' = [task EXCEPT ![p] = [task[p] EXCEPT !.at = "attributes", !.id = made + 1]]
              /\ client' = [NoClient EXCEPT !.id = made + 1, !.enabled = TRUE]
          BY <3>2 DEF Create
        <4>2. Others(p) /\ task'[p] = [task[p] EXCEPT !.at = "attributes", !.id = made + 1]
          BY <1>1, <4>1 DEF Others, Typed, TypeOK
        <4>3. task'[p].at = "attributes" /\ task'[p].id = made + 1 /\ client'.id = made + 1
          BY <1>1, <4>1, <4>2 DEF Typed, TypeOK, Task, NoClient
        <4> QED BY <1>1, <4>2, <4>3 DEF WorksOn
      <3>3. CASE GetSecret(p) /\ ~Throw(p)
        <4>1. Others(p) /\ Moves(p, "secret", "commit") /\ ~Gone(p) /\ UNCHANGED client
          BY <1>1, <3>3, GoMoves DEF GetSecret, Proceed, At, keycloak
        <4> QED BY <1>1, <4>1 DEF Moves, Gone, WorksOn
      <3> QED BY <1>3, <3>1, <3>2, <3>3
    <2>4. ASSUME NEW q \in Processes, q # p  PROVE WorksOn(q)'
      <3>1. task'[q] = task[q] /\ WorksOn(q)
        BY <2>3, <2>4 DEF Others, Kept
      <3>2. q # Handler => task[q].at \notin Working
        BY <2>2, <2>4 DEF InTransaction, Working, Processes
      <3> QED BY <2>1, <3>1, <3>2 DEF WorksOn, At
    <2>5. \A r \in Replicas : CollectorKnows(r)'
      BY <1>1, <2>1, CollectorsKeep DEF Open, Live
    <2> QED BY <2>1, <2>2, <2>3, <2>4, <2>5 DEF Kept, AgentKeepsItsClient, Live
  <1>4. CASE Commit(p)
    <2>1. /\ Others(p) /\ Moves(p, "commit", "answer") /\ UNCHANGED client
          /\ status' = "active" /\ secretOf' = task[p].id /\ token' = "used"
      BY <1>1, <1>4, GoMoves DEF Commit, At, keycloak
    <2>2. p \in InTransaction /\ status = "absent"
      BY <2>1, InsideNoAgent DEF InTransaction, Moves
    <2>3. InTransaction' \subseteq InTransaction
      BY <2>1, <1>1 DEF InTransaction, Moves, Others, Processes
    <2>4. task[p].id = client.id /\ WorksOn(p)'
      BY <1>1, <2>1 DEF Moves, WorksOn, Working
    <2>5. \A q \in Processes : WorksOn(q)'
      BY <2>1, <2>2, <2>4, RestsWorksOn DEF Others
    <2>6. \A r \in Replicas : CollectorKnows(r)'
      BY <1>1, <2>1, <2>2, <2>3, CollectorsKeep DEF Open
    <2>7. AgentKeepsItsClient'
      BY <2>1, <2>4 DEF AgentKeepsItsClient
    <2> QED BY <2>5, <2>6, <2>7 DEF Kept
  <1> QED BY <1>2, <1>3, <1>4
\* A step at which processes stay, end or begin keeps it, if the client stays.
LEMMA IdleKeeps ==
  ASSUME Kept, UNCHANGED <<gc, secretOf>>, client'.id = client.id, status' = status,
         Open' => Open, InTransaction' \subseteq InTransaction,
         \A p \in Processes : task'[p] \in {task[p], Idle} \/ WorksOn(p)'
  PROVE  Kept'
  <1>1. \A p \in Processes : WorksOn(p)'
    BY RestsWorksOn
  <1>2. \A r \in Replicas : CollectorKnows(r)'
    BY CollectorsKeep DEF Live
  <1>3. AgentKeepsItsClient'
    BY DEF Kept, AgentKeepsItsClient, Live
  <1> QED BY <1>1, <1>2, <1>3 DEF Kept

\* The scripts, the outbox, the clock, the Job and failures keep it.
LEMMA OthersKeepIt ==
  ASSUME Typed, Kept,
         \/ \E p \in Attempts : Bootstrap(p) \/ Limited(p) \/ AnswerLost(p) \/ Install(p)
         \/ Sync \/ Expire \/ CreateScope
         \/ \E p \in Processes : Fail(p)
         \/ UNCHANGED vars
  PROVE  Kept'
  <1>1. InTransaction' \subseteq InTransaction /\ status' = status /\ token' = token
    BY OthersQuiet DEF Quiet, NobodyNew
  <1>2. UNCHANGED <<gc, secretOf>> /\ client'.id = client.id /\ (Open' => Open)
    <2>1. CASE CreateScope
      BY <2>1 DEF CreateScope, rows, Open, Typed, Client
    <2>2. CASE Expire
      BY <2>2 DEF Expire, keycloak, Open
    <2>3. CASE \/ \E p \in Attempts : Bootstrap(p) \/ Limited(p) \/ AnswerLost(p) \/ Install(p)
             \/ Sync \/ (\E p \in Processes : Fail(p)) \/ UNCHANGED vars
      <3>1. UNCHANGED <<gc, secretOf, client, token, expired>>
        BY <2>3 DEF Bootstrap, Limited, AnswerLost, Install, Sync, Fail, vars, rows, keycloak
      <3> QED BY <3>1 DEF Open
    <2> QED BY <2>1, <2>2, <2>3
  <1>3. ASSUME NEW q \in Processes  PROVE task'[q] \in {task[q], Idle} \/ WorksOn(q)'
    <2>1. ASSUME NEW p \in Attempts, Bootstrap(p)  PROVE task'[q] = task[q] \/ WorksOn(q)'
      <3>1. PICK r \in Replicas : task' = [task EXCEPT ![p].at = "lock", ![p].on = r]
        BY <2>1 DEF Bootstrap
      <3>2. p \in Processes /\ p # Handler
        BY EnrollmentAssumption DEF Processes, Handler
      <3>3. q # p => task'[q] = task[q]
        BY <3>1, <3>2 DEF Typed, TypeOK
      <3>4. task'[p].at = "lock"
        BY <3>1, <3>2 DEF Typed, TypeOK, Task
      <3> QED BY <3>2, <3>3, <3>4 DEF WorksOn, Working
    <2>2. CASE Sync
      <3>1. PICK r \in Replicas :
              task' = [task EXCEPT ![Handler] =
                [Idle EXCEPT !.at = "resolve", !.on = r, !.row = status, !.ptr = pointer]]
        BY <2>2 DEF Sync
      <3>2. Handler \in Processes
        BY DEF Processes
      <3>3. q # Handler => task'[q] = task[q]
        BY <3>1, <3>2 DEF Typed, TypeOK
      <3>4. task'[Handler].at = "resolve" /\ task'[Handler].row = status
        BY <3>1, <3>2 DEF Typed, TypeOK, Idle
      <3> QED BY <1>1, <3>3, <3>4 DEF WorksOn, At
    <2>3. CASE \E p \in Attempts : Limited(p) \/ AnswerLost(p) \/ Install(p)
      BY <2>3 DEF Limited, AnswerLost, Install, Typed, TypeOK
    <2>4. CASE \E p \in Processes : Fail(p)
      BY <2>4, EndMoves DEF Fail, Others
    <2>5. CASE Expire \/ CreateScope \/ UNCHANGED vars
      BY <2>5 DEF Expire, CreateScope, vars
    <2> QED BY <2>1, <2>2, <2>3, <2>4, <2>5
  <1> QED BY <1>1, <1>2, <1>3, IdleKeeps

\* A replica that dies forgets what its collector knew.
LEMMA CrashKeeps ==
  ASSUME Typed, Kept, NEW r \in Replicas, Crash(r)
  PROVE  Kept'
  <1>1. InTransaction' \subseteq InTransaction /\ status' = status
    BY OthersQuiet DEF Quiet, NobodyNew
  <1>2. UNCHANGED <<token, expired, client, secretOf>>
    BY DEF Crash, rows, keycloak
  <1>3. \A p \in Processes : task'[p] \in {task[p], Idle}
    BY DEF Crash
  <1>4. \A p \in Processes : WorksOn(p)'
    BY <1>1, <1>2, <1>3, RestsWorksOn
  <1>5. ASSUME NEW q \in Replicas  PROVE CollectorKnows(q)'
    <2>1. CASE q = r
      <3>1. gc'[r] = NotCollecting
        BY DEF Crash, Typed, TypeOK
      <3> QED BY <2>1, <3>1 DEF CollectorKnows, NotCollecting
    <2>2. CASE q # r
      <3>1. gc'[q] = gc[q]
        BY <2>2 DEF Crash, Typed, TypeOK
      <3> QED BY <1>1, <1>2, <3>1, CollectorsKeep DEF Open, Live
    <2> QED BY <2>1, <2>2
  <1> QED BY <1>1, <1>2, <1>4, <1>5 DEF Kept, AgentKeepsItsClient, Live

\* Admins change agents that are there and end tokens nobody is trading.
LEMMA AdminKeeps ==
  ASSUME Typed, Kept, ChangeAgent \/ RevokeToken
  PROVE  Kept'
  <1>1. UNCHANGED <<task, client, gc, secretOf>> /\ InTransaction' = InTransaction
    BY DEF ChangeAgent, RevokeToken, keycloak, InTransaction
  <1>2. (Open' => Open) /\ (Live' => Live) /\ (status = "revoked" => status' = "revoked")
    BY DEF ChangeAgent, RevokeToken, Open, Live
  <1>3. \A p \in Processes : WorksOn(p)'
    BY <1>1, <1>2, RestsWorksOn
  <1>4. \A r \in Replicas : CollectorKnows(r)'
    BY <1>1, <1>2, CollectorsKeep
  <1>5. AgentKeepsItsClient'
    BY <1>1, <1>2 DEF Kept, AgentKeepsItsClient
  <1> QED BY <1>3, <1>4, <1>5 DEF Kept

\* What a collector learns is true, and it removes a client only when no agent
\* can come of it.
LEMMA CollectKeeps ==
  ASSUME Typed, Kept, NEW r \in Replicas, Collect(r)
  PROVE  Kept'
  <1>1. UNCHANGED <<token, expired, status, task, secretOf>>
    BY DEF Collect, Resync, ListClients, LiveIds, OpenIds, Remove, rows
  <1>2. InTransaction' = InTransaction /\ Open' = Open /\ Live' = Live
    BY <1>1 DEF InTransaction, Open, Live
  <1>3. CollectorKnows(r) /\ gc[r] \in Collector /\ \A q \in Replicas \ {r} : gc'[q] = gc[q]
    BY DEF Kept, Typed, TypeOK, Collect, Resync, ListClients, LiveIds, OpenIds, Remove
  <1>4. client' = client \/ Doomed
    BY <1>3 DEF Collect, Resync, ListClients, LiveIds, OpenIds, Remove, keycloak, CollectorKnows
  <1>5. CollectorKnows(r)'
    <2>1. CASE Resync(r)
      <3>1. gc'[r] = [gc[r] EXCEPT !.at = "list", !.during = {}]
        BY <2>1 DEF Resync, Typed, TypeOK
      <3>2. gc[r].seen # None => ~Open /\ InTransaction = {}
        BY <1>3, <2>1 DEF Resync, CollectorKnows
      <3>3. gc'[r].seen = gc[r].seen /\ gc'[r].at = "list" /\ gc'[r].during = {}
        BY <1>3, <3>1 DEF Collector
      <3> QED BY <1>2, <3>2, <3>3 DEF CollectorKnows
    <2>2. CASE ListClients(r)
      <3>1. gc'[r] = [gc[r] EXCEPT !.at = "live", !.listed = client.id] /\ gc[r].at = "list"
        BY <2>2 DEF ListClients, Typed, TypeOK
      <3>2. gc'[r].seen = gc[r].seen /\ gc'[r].at = "live" /\ gc'[r].during = gc[r].during
        BY <1>3, <3>1 DEF Collector
      <3> QED BY <1>2, <1>3, <3>1, <3>2 DEF CollectorKnows
    <2>3. CASE LiveIds(r)
      <3>1. gc'[r] = [gc[r] EXCEPT !.at = "open", !.keep = Live] /\ gc[r].at = "live"
        BY <2>3 DEF LiveIds, Typed, TypeOK
      <3>2. gc'[r].seen = gc[r].seen /\ gc'[r].at = "open" /\ gc'[r].during = gc[r].during
        BY <1>3, <3>1 DEF Collector
      <3>3. gc'[r].keep = Live
        BY <1>3, <3>1 DEF Collector
      <3>4. gc'[r].keep \/ ~Live
        BY <3>3, Zenon
      <3> QED BY <1>2, <1>3, <3>1, <3>2, <3>4 DEF CollectorKnows
    <2>4. CASE OpenIds(r)
      <3>1. PICK orphan : orphan = IF gc[r].keep \/ Open THEN None ELSE gc[r].listed
        OBVIOUS
      <3>2. PICK at : at = IF Confirmed(r, orphan) THEN "remove" ELSE "idle"
        OBVIOUS
      <3>3. /\ gc[r].at = "open"
            /\ gc'[r] = [gc[r] EXCEPT !.at = at, !.listed = orphan, !.seen = orphan,
                                      !.keep = FALSE, !.during = InTransaction]
        BY <2>4, <3>1, <3>2 DEF OpenIds, Typed, TypeOK
      <3>4. gc'[r].at = at /\ gc'[r].seen = orphan /\ gc'[r].during = InTransaction
        BY <1>3, <3>3 DEF Collector
      <3>5. orphan # None => ~Open /\ ~gc[r].keep
        BY <3>1
      <3>6. at = "remove" => Doomed
        BY <1>3, <3>2, <3>3, <3>5 DEF Confirmed, CollectorKnows, Doomed
      <3>7. at \in {"remove", "idle"}
        BY <3>2
      <3> QED BY <1>2, <3>4, <3>5, <3>6, <3>7 DEF CollectorKnows, Doomed
    <2>5. CASE Remove(r)
      <3>1. gc'[r] = [gc[r] EXCEPT !.at = "idle", !.listed = None, !.seen = None]
        BY <2>5 DEF Remove, Typed, TypeOK
      <3>2. gc'[r].seen = None /\ gc'[r].at = "idle"
        BY <1>3, <3>1 DEF Collector
      <3> QED BY <3>2 DEF CollectorKnows
    <2> QED BY <2>1, <2>2, <2>3, <2>4, <2>5 DEF Collect
  <1>6. \A q \in Replicas : CollectorKnows(q)'
    BY <1>2, <1>3, <1>5, CollectorsKeep
  <1>7. \A p \in Processes : WorksOn(p)'
    BY <1>1, <1>4, RestsWorksOn DEF Doomed
  <1>8. AgentKeepsItsClient'
    BY <1>1, <1>2, <1>4 DEF Kept, AgentKeepsItsClient, Doomed
  <1> QED BY <1>6, <1>7, <1>8 DEF Kept

LEMMA InitKept == Init => Kept
  <1> SUFFICES ASSUME Init PROVE Kept
    OBVIOUS
  <1>1. \A p \in Processes : WorksOn(p)
    BY DEF Init, WorksOn, At, Idle, Working
  <1>2. \A r \in Replicas : CollectorKnows(r)
    BY DEF Init, CollectorKnows, NotCollecting
  <1>3. AgentKeepsItsClient
    BY DEF Init, AgentKeepsItsClient, Live, NoClient
  <1> QED BY <1>1, <1>2, <1>3 DEF Kept

\* The invariant is preserved by every step.
LEMMA NextKept == Typed /\ Once /\ Kept /\ [Next]_vars => Kept'
  <1> SUFFICES ASSUME Typed, Once, Kept, [Next]_vars PROVE Kept'
    OBVIOUS
  <1>1. CASE \E p \in Attempts : Lock(p) \/ Create(p) \/ GetSecret(p) \/ Commit(p)
    BY <1>1, ExchangeKeeps
  <1>2. CASE \E p \in Processes : Mirror(p)
    BY <1>2, MirrorKeeps
  <1>3. CASE ChangeAgent \/ RevokeToken
    BY <1>3, AdminKeeps
  <1>4. CASE \E r \in Replicas : Collect(r) \/ Crash(r)
    BY <1>4, CollectKeeps, CrashKeeps
  <1>5. CASE \/ \E p \in Attempts : Bootstrap(p) \/ Limited(p) \/ AnswerLost(p) \/ Install(p)
             \/ Sync \/ Expire \/ CreateScope
             \/ \E p \in Processes : Fail(p)
             \/ UNCHANGED vars
    BY <1>5, OthersKeepIt
  <1> QED BY <1>1, <1>2, <1>3, <1>4, <1>5 DEF Next, Exchange, Processes

\* An agent that is not revoked has the client whose secret its host was sent:
\* no retry of an exchange, no handler and no collector of any replica replaces
\* or removes it, whatever fails in between (keycloak-agent.mirror.ts,
\* keycloak-gc.ts).
THEOREM LiveAgentsKeepTheirClient == Spec => []AgentKeepsItsClient
  <1>1. Kept => AgentKeepsItsClient
    BY DEF Kept
  <1>2. Init => Typed /\ Once /\ Kept
    BY InitTyped, InitOnce, InitKept
  <1>3. Typed /\ Once /\ Kept /\ [Next]_vars => (Typed /\ Once /\ Kept)'
    BY NextTyped, NextOnce, NextKept
  <1> QED BY <1>1, <1>2, <1>3, PTL DEF Spec
-----------------------------------------------------------------------------
(* Claims are never taken.  The mirror gives the client its attributes, then *)
(* the scope, and only then takes its mappers.                               *)

\* The process works on the client that is there.
HasIt(p) == task[p].id # None /\ client.id = task[p].id

\* The attributes come before the scope, the scope is there before a client is
\* given it, and the client has it before a mapper goes.
InOrder(p) ==
  /\ task[p].id <= made
  /\ task[p].at # "idle" => task[p].on \in Replicas
  /\ HasIt(p) /\ task[p].at \in {"scopes", "findScope", "addScope", "legacy"} => client.attributes
  /\ task[p].at = "addScope" => scope # None
  /\ HasIt(p) /\ task[p].at = "legacy" /\ scope <= 1 => client.scope = scope /\ scope # None

\* Ids are given out in order, so a new client's is in nobody's memory.
KnownIds == client.id <= made /\ client.scope <= scope /\ \A r \in Replicas : cached[r] <= scope

Ordered == KnownIds /\ \A p \in Processes : InOrder(p)

\* What may become of a client in a step: it stays and gains, goes, is a new one,
\* or loses the scope because that is made anew.
Stays ==
  /\ client'.id = client.id /\ made' = made /\ scope' = scope
  /\ client.attributes => client'.attributes
  /\ client'.scope \in {client.scope, scope}
Goes == client'.id = None /\ client'.scope = None /\ made' = made /\ scope' = scope
IsNew == made' = made + 1 /\ client'.id = made' /\ client'.scope = None /\ scope' = scope
LosesScope ==
  /\ scope' = scope + 1 /\ made' = made
  /\ client'.id = client.id /\ client'.attributes = client.attributes
  /\ client'.scope = None /\ client'.legacy = client.legacy

\* The property, of one step.
KeepsClaims ==
  client.id # None /\ client'.id = client.id /\ Claims(client) /\ scope' <= 1 => Claims(client)'

LEMMA IdsAreNumbers ==
  ASSUME Typed
  PROVE  /\ made \in Nat /\ scope \in Nat /\ client.id \in Nat /\ client.scope \in Nat
         /\ \A p \in Processes : task[p].id \in Nat
         /\ \A r \in Replicas : cached[r] \in Nat
  <1>1. Uuids \cup {None} \subseteq Nat /\ Scopes \cup {None} \subseteq Nat
    BY EnrollmentAssumption DEF Uuids, Scopes, None
  <1>2. made \in Nat /\ scope \in Nat
    BY DEF Typed, TypeOK
  <1> QED BY <1>1, <1>2 DEF Typed, TypeOK, Client, Task

\* A process that stays or ends keeps its order.
LEMMA RestsInOrder ==
  ASSUME Typed, Ordered, NEW p \in Processes, task'[p] \in {task[p], Idle},
         Stays \/ Goes \/ IsNew \/ LosesScope
  PROVE  InOrder(p)'
  <1>1. InOrder(p) /\ KnownIds
    BY DEF Ordered
  <1>2. /\ made \in Nat /\ scope \in Nat /\ client.id \in Nat /\ client.scope \in Nat
        /\ task[p].id \in Nat
    BY IdsAreNumbers
  <1>3. None = 0 /\ Idle.id = None /\ Idle.at = "idle"
    BY DEF None, Idle
  <1>4. CASE task'[p] = Idle
    BY <1>2, <1>3, <1>4 DEF InOrder, HasIt, Stays, Goes, IsNew, LosesScope
  <1>5. CASE task'[p] = task[p] /\ Stays
    BY <1>1, <1>2, <1>3, <1>5 DEF InOrder, HasIt, Stays
  <1>6. CASE task'[p] = task[p] /\ Goes
    BY <1>1, <1>2, <1>3, <1>6 DEF InOrder, HasIt, Goes
  <1>7. CASE task'[p] = task[p] /\ IsNew
    BY <1>1, <1>2, <1>3, <1>7 DEF InOrder, HasIt, IsNew
  <1>8. CASE task'[p] = task[p] /\ LosesScope
    BY <1>1, <1>2, <1>3, <1>8 DEF InOrder, HasIt, LosesScope
  <1> QED BY <1>4, <1>5, <1>6, <1>7, <1>8

\* What is known of ids stays known.
LEMMA IdsStayKnown ==
  ASSUME Typed, Ordered, Stays \/ Goes \/ IsNew \/ LosesScope,
         \A r \in Replicas : cached'[r] \in {cached[r], scope, None}
  PROVE  KnownIds'
  <1>1. KnownIds /\ None = 0
    BY DEF Ordered, None
  <1>2. /\ made \in Nat /\ scope \in Nat /\ client.id \in Nat /\ client.scope \in Nat
        /\ \A r \in Replicas : cached[r] \in Nat
    BY IdsAreNumbers
  <1>3. scope' >= scope /\ made' >= made
    BY <1>2 DEF Stays, Goes, IsNew, LosesScope
  <1>4. client'.id <= made' /\ client'.scope <= scope'
    BY <1>1, <1>2 DEF KnownIds, Stays, Goes, IsNew, LosesScope
  <1>5. \A r \in Replicas : cached'[r] <= scope'
    <2>1. scope' \in Nat
      BY <1>2 DEF Stays, Goes, IsNew, LosesScope
    <2> QED BY <1>1, <1>2, <1>3, <2>1 DEF KnownIds
  <1> QED BY <1>4, <1>5 DEF KnownIds

\* A client that stays and keeps its mappers keeps its claims, and so does one
\* that goes, is new, or loses a scope that is not the first.
LEMMA StayingClaims ==
  ASSUME Typed, Ordered,
         (Stays /\ client'.legacy = client.legacy) \/ Goes \/ IsNew \/ LosesScope
  PROVE  KeepsClaims
  <1>1. KnownIds /\ None = 0
    BY DEF Ordered, None
  <1>2. made \in Nat /\ scope \in Nat /\ client.id \in Nat /\ client.scope \in Nat
    BY IdsAreNumbers
  <1>3. CASE Stays /\ client'.legacy = client.legacy
    BY <1>3 DEF KeepsClaims, Claims, Stays
  <1>4. CASE Goes \/ IsNew
    BY <1>1, <1>2, <1>4 DEF KeepsClaims, Goes, IsNew, KnownIds
  <1>5. CASE LosesScope
    BY <1>1, <1>2, <1>5 DEF KeepsClaims, Claims, LosesScope, KnownIds
  <1> QED BY <1>3, <1>4, <1>5

\* The steps of the mirror go on in order and keep the claims: who takes a
\* mapper is past the attributes and the scope.
LEMMA MirrorInOrder ==
  ASSUME Typed, Ordered, NEW p \in Processes, Mirror(p)
  PROVE  Ordered' /\ KeepsClaims
  <1>1. /\ Others(p) /\ Leads(p)
        /\ SameClient \/ Stripped(p) \/ Dropped(p)
        /\ \A r \in Replicas : cached'[r] \in {cached[r], scope, None}
    BY MirrorMoves
  <1>2. UNCHANGED <<made, scope>> /\ InOrder(p) /\ KnownIds /\ None = 0
    BY MirrorStepTyped DEF Ordered, None
  <1>3. Stays \/ Goes
    BY <1>1, <1>2 DEF SameClient, Stripped, Dropped, NoClient, Stays, Goes
  <1>4. /\ made \in Nat /\ scope \in Nat /\ client.id \in Nat /\ client.scope \in Nat
        /\ task[p].id \in Nat /\ \A r \in Replicas : cached[r] \in Nat
    BY IdsAreNumbers
  <1>5. InOrder(p)'
    <2>1. CASE task'[p] = Idle
      BY <1>3, <2>1, RestsInOrder
    <2>2. CASE Found(p)
      <3>1. task'[p].at \in {"create", "enable", "attributes", "delete", "clear"}
        BY <2>2 DEF Found, AfterResolve
      <3>2. task'[p].id <= made' /\ task'[p].on \in Replicas
        BY <1>2, <2>2 DEF Found, InOrder, KnownIds, At
      <3> QED BY <3>1, <3>2 DEF InOrder
    <2>3. CASE \E from, to \in Steps \ {"idle"} : Moves(p, from, to)
      <3>1. task'[p].id = task[p].id /\ task'[p].on = task[p].on /\ task[p].at # "idle"
        BY <2>3 DEF Moves
      <3>2. task'[p].id <= made' /\ task'[p].on \in Replicas
        BY <1>2, <3>1 DEF InOrder
      <3>3. HasIt(p)' /\ task'[p].at \in {"scopes", "findScope", "addScope", "legacy"}
              => client'.attributes
        <4>1. HasIt(p)' => HasIt(p) /\ Stays
          BY <1>3, <3>1 DEF HasIt, Stays, Goes
        <4> QED BY <1>1, <1>2, <3>1, <4>1 DEF Leads, Moves, Found, InOrder, Stays, Idle, AfterResolve
      <3>4. task'[p].at = "addScope" => scope' # None
        <4>1. task'[p].at = "addScope" => scope # None \/ cached[task[p].on] # None
          BY <1>1 DEF Leads, Moves, Found, Idle, AfterResolve
        <4>2. cached[task[p].on] <= scope /\ cached[task[p].on] \in Nat
          BY <1>2, <1>4, <3>1 DEF InOrder, KnownIds
        <4> QED BY <1>2, <1>4, <4>1, <4>2
      <3>5. HasIt(p)' /\ task'[p].at = "legacy" /\ scope' <= 1
              => client'.scope = scope' /\ scope' # None
        <4> SUFFICES ASSUME HasIt(p)', task'[p].at = "legacy", scope <= 1
                     PROVE  client'.scope = scope /\ scope # None
          BY <1>2
        <4>1. Stays /\ HasIt(p)
          BY <1>3, <3>1 DEF HasIt, Stays, Goes
        <4>2. CASE Moves(p, "scopes", "legacy") /\ client.scope # None
          BY <1>2, <1>4, <4>1, <4>2 DEF Stays, KnownIds
        <4>3. CASE Moves(p, "addScope", "legacy") /\ client'.scope = scope
          BY <1>2, <4>3 DEF Moves, InOrder
        <4>4. CASE Moves(p, "legacy", "legacy")
          BY <1>2, <4>1, <4>4 DEF Moves, InOrder, Stays
        <4> QED BY <1>1, <4>2, <4>3, <4>4 DEF Leads, Moves, Found, Idle, AfterResolve
      <3> QED BY <3>2, <3>3, <3>4, <3>5 DEF InOrder
    <2> QED BY <1>1, <2>1, <2>2, <2>3 DEF Leads, Steps
  <1>6. \A q \in Processes : InOrder(q)'
    BY <1>1, <1>3, <1>5, RestsInOrder DEF Others
  <1>7. KeepsClaims
    <2>1. CASE Stripped(p)
      <3>1. HasIt(p) \/ client.id = None
        BY <2>1 DEF Stripped, HasIt, Gone
      <3>2. HasIt(p) /\ scope <= 1 => client.attributes /\ client.scope = scope /\ scope # None
        BY <1>2, <2>1 DEF Stripped, At, InOrder
      <3> QED BY <1>2, <2>1, <3>1, <3>2 DEF Stripped, KeepsClaims, Claims
    <2>2. CASE SameClient \/ Dropped(p)
      <3>1. (Stays /\ client'.legacy = client.legacy) \/ Goes
        BY <1>2, <2>2 DEF SameClient, Dropped, NoClient, Stays, Goes
      <3> QED BY <3>1, StayingClaims
    <2> QED BY <1>1, <2>1, <2>2
  <1> QED BY <1>1, <1>3, <1>6, <1>7, IdsStayKnown DEF Ordered
\* So do the steps only an exchange takes: a client it makes is a new one.
LEMMA ExchangeInOrder ==
  ASSUME Typed, Ordered, NEW p \in Attempts, Lock(p) \/ Create(p) \/ GetSecret(p) \/ Commit(p)
  PROVE  Ordered' /\ KeepsClaims
  <1>1. p \in Processes /\ InOrder(p) /\ KnownIds /\ UNCHANGED cached
    BY DEF Processes, Ordered, Lock, Create, GetSecret, Commit
  <1>2. \A r \in Replicas : cached'[r] \in {cached[r], scope, None}
    BY <1>1
  <1>3. CASE Lock(p) \/ GetSecret(p) \/ Commit(p)
    <2>1. UNCHANGED <<client, made, scope>> /\ Stays
      BY <1>3 DEF Lock, GetSecret, Commit, keycloak, Stays
    <2>2. /\ Others(p)
          /\ \/ task'[p] = Idle
             \/ \E step \in {"resolve", "commit", "answer"} : Moves(p, task[p].at, step)
      <3>1. CASE Lock(p) /\ ~Open
        BY <1>1, <3>1 DEF Lock, Others, Typed, TypeOK
      <3>2. CASE Lock(p) /\ Open
        BY <1>1, <3>2, GoMoves DEF Lock, Proceed
      <3>3. CASE GetSecret(p)
        BY <1>1, <3>3, EndMoves, GoMoves DEF GetSecret, Proceed
      <3>4. CASE Commit(p)
        BY <1>1, <3>4, GoMoves DEF Commit
      <3> QED BY <1>3, <3>1, <3>2, <3>3, <3>4
    <2>3. InOrder(p)'
      <3>1. CASE task'[p] = Idle
        BY <1>1, <2>1, <3>1, RestsInOrder
      <3>2. CASE \E step \in {"resolve", "commit", "answer"} : Moves(p, task[p].at, step)
        <4>1. task[p].at # "idle"
          BY <1>3 DEF Lock, GetSecret, Commit, At
        <4> QED BY <1>1, <2>1, <3>2, <4>1 DEF Moves, InOrder
      <3> QED BY <2>2, <3>1, <3>2
    <2>4. \A q \in Processes : InOrder(q)'
      BY <2>1, <2>2, <2>3, RestsInOrder DEF Others
    <2> QED BY <1>2, <2>1, <2>4, IdsStayKnown, StayingClaims DEF Ordered
  <1>4. CASE Create(p)
    <2>1. CASE client # NoClient
      <3>1. Others(p) /\ task'[p] = Idle /\ UNCHANGED <<client, made, scope>>
        BY <1>1, <1>4, <2>1, EndMoves DEF Create, keycloak
      <3>2. Stays
        BY <3>1 DEF Stays
      <3>3. \A q \in Processes : InOrder(q)'
        BY <3>1, <3>2, RestsInOrder DEF Others
      <3> QED BY <1>2, <3>1, <3>2, <3>3, IdsStayKnown, StayingClaims DEF Ordered
    <2>2. CASE client = NoClient
      <3>1. /\ client' = [NoClient EXCEPT !.id = made + 1, !.enabled = TRUE]
            /\ made' = made + 1 /\ UNCHANGED scope
            /\ task' = [task EXCEPT ![p] = [task[p] EXCEPT !.at = "attributes", !.id = made + 1]]
        BY <1>4, <2>2 DEF Create
      <3>2. IsNew
        BY <3>1 DEF IsNew, NoClient
      <3>3. Others(p) /\ task'[p] = [task[p] EXCEPT !.at = "attributes", !.id = made + 1]
        BY <1>1, <3>1 DEF Others, Typed, TypeOK
      <3>4. task'[p].at = "attributes" /\ task'[p].id = made + 1 /\ task'[p].on = task[p].on
        BY <1>1, <3>3 DEF Typed, TypeOK, Task
      <3>5. task[p].on \in Replicas /\ made \in Nat
        BY <1>1, <1>4, IdsAreNumbers DEF Create, At, InOrder
      <3>6. InOrder(p)'
        BY <3>1, <3>4, <3>5 DEF InOrder
      <3>7. \A q \in Processes : InOrder(q)'
        BY <3>2, <3>3, <3>6, RestsInOrder DEF Others
      <3> QED BY <1>2, <3>2, <3>7, IdsStayKnown, StayingClaims DEF Ordered
    <2> QED BY <2>1, <2>2
  <1> QED BY <1>3, <1>4

\* Everything else ends processes, begins them, or concerns no task at all.
LEMMA OthersInOrder ==
  ASSUME Typed, Ordered,
         \/ \E p \in Attempts : Bootstrap(p) \/ Limited(p) \/ AnswerLost(p) \/ Install(p)
         \/ Sync \/ ChangeAgent \/ RevokeToken \/ Expire \/ CreateScope
         \/ \E r \in Replicas : Collect(r) \/ Crash(r)
         \/ \E p \in Processes : Fail(p)
         \/ UNCHANGED vars
  PROVE  Ordered' /\ KeepsClaims
  <1>1. (Stays /\ client'.legacy = client.legacy) \/ Goes \/ LosesScope
    <2>1. CASE CreateScope
      <3>1. client' = [client EXCEPT !.scope = None] /\ made' = made /\ scope' = scope + 1
        BY <2>1 DEF CreateScope
      <3>2. client'.id = client.id /\ client'.attributes = client.attributes
            /\ client'.scope = None /\ client'.legacy = client.legacy
        BY <3>1 DEF Typed, Client
      <3> QED BY <3>1, <3>2 DEF LosesScope
    <2>2. ASSUME NEW r \in Replicas, Remove(r)  PROVE UNCHANGED client \/ Goes
      <3>1. UNCHANGED <<made, scope>> /\ client' \in {client, NoClient}
        BY <2>2 DEF Remove
      <3> QED BY <3>1 DEF Goes, NoClient
    <2>3. UNCHANGED <<made, scope>> \/ CreateScope
      <3>1. ASSUME NEW r \in Replicas, Collect(r) \/ Crash(r)  PROVE UNCHANGED <<made, scope>>
        BY <3>1 DEF Collect, Resync, ListClients, LiveIds, OpenIds, Remove, Crash, keycloak
      <3>2. ASSUME NEW p \in Attempts, Bootstrap(p) \/ Limited(p) \/ AnswerLost(p) \/ Install(p)
            PROVE  UNCHANGED <<made, scope>>
        BY <3>2 DEF Bootstrap, Limited, AnswerLost, Install, keycloak
      <3>3. ASSUME NEW p \in Processes, Fail(p)  PROVE UNCHANGED <<made, scope>>
        BY <3>3 DEF Fail, keycloak
      <3>4. Sync \/ ChangeAgent \/ RevokeToken \/ Expire \/ UNCHANGED vars => UNCHANGED <<made, scope>>
        BY DEF Sync, ChangeAgent, RevokeToken, Expire, vars, keycloak
      <3> QED BY <3>1, <3>2, <3>3, <3>4
    <2>4. UNCHANGED client \/ CreateScope \/ \E r \in Replicas : Remove(r)
      BY DEF Bootstrap, Limited, AnswerLost, Install, Sync, ChangeAgent, RevokeToken, Expire,
             Collect, Resync, ListClients, LiveIds, OpenIds, Crash, Fail, vars, keycloak
    <2> QED BY <2>1, <2>2, <2>3, <2>4 DEF Stays
  <1>2. \A r \in Replicas : cached'[r] \in {cached[r], scope, None}
    <2>1. UNCHANGED cached \/ \E r \in Replicas : cached' = [cached EXCEPT ![r] = None]
      <3>1. ASSUME NEW p \in Processes, Fail(p)
            PROVE  UNCHANGED cached \/ \E r \in Replicas : cached' = [cached EXCEPT ![r] = None]
        <4>1. InOrder(p) /\ task[p].at # "idle"
          BY <3>1 DEF Ordered, Fail
        <4>2. task[p].on \in Replicas
          BY <4>1 DEF InOrder
        <4> QED BY <3>1, <4>2 DEF Fail, DropScopeId
      <3>2. CASE \E r \in Replicas : Crash(r)
        BY <3>2 DEF Crash
      <3>3. CASE \/ \E p \in Attempts : Bootstrap(p) \/ Limited(p) \/ AnswerLost(p) \/ Install(p)
                 \/ Sync \/ ChangeAgent \/ RevokeToken \/ Expire \/ CreateScope
                 \/ \E r \in Replicas : Collect(r)
                 \/ UNCHANGED vars
        BY <3>3 DEF Bootstrap, Limited, AnswerLost, Install, Sync, ChangeAgent, RevokeToken, Expire,
             CreateScope, Collect, Resync, ListClients, LiveIds, OpenIds, Remove, vars
      <3> QED BY <3>1, <3>2, <3>3
    <2> QED BY <2>1 DEF Typed, TypeOK
  <1>3. ASSUME NEW q \in Processes  PROVE InOrder(q)'
    <2>1. \/ task'[q] \in {task[q], Idle}
          \/ /\ UNCHANGED keycloak /\ task'[q].at \in {"lock", "resolve"}
             /\ task'[q].id \in {task[q].id, None} /\ task'[q].on \in Replicas
      <3>1. ASSUME NEW p \in Attempts, Bootstrap(p), task'[q] # task[q]
            PROVE  /\ UNCHANGED keycloak /\ task'[q].at = "lock"
                   /\ task'[q].id = task[q].id /\ task'[q].on \in Replicas
        <4>1. PICK r \in Replicas : task' = [task EXCEPT ![p].at = "lock", ![p].on = r]
          BY <3>1 DEF Bootstrap
        <4>2. task' = [task EXCEPT ![p] = [task[p] EXCEPT !.at = "lock", !.on = r]]
              /\ p \in Processes
          BY <4>1 DEF Processes
        <4>3. p = q /\ task'[q] = [task[q] EXCEPT !.at = "lock", !.on = r]
          BY <3>1, <4>2 DEF Typed, TypeOK
        <4> QED BY <3>1, <4>3 DEF Bootstrap, Typed, TypeOK, Task
      <3>2. ASSUME Sync, task'[q] # task[q]
            PROVE  /\ UNCHANGED keycloak /\ task'[q].at = "resolve"
                   /\ task'[q].id = None /\ task'[q].on \in Replicas
        <4>1. PICK r \in Replicas :
                task' = [task EXCEPT ![Handler] =
                  [Idle EXCEPT !.at = "resolve", !.on = r, !.row = status, !.ptr = pointer]]
          BY <3>2 DEF Sync
        <4>2. task'[q] = [Idle EXCEPT !.at = "resolve", !.on = r, !.row = status, !.ptr = pointer]
          BY <3>2, <4>1 DEF Typed, TypeOK
        <4> QED BY <3>2, <4>2 DEF Sync, Idle
      <3>3. CASE \E p \in Attempts : Limited(p) \/ AnswerLost(p) \/ Install(p)
        BY <3>3 DEF Limited, AnswerLost, Install, Typed, TypeOK
      <3>4. CASE \E p \in Processes : Fail(p)
        BY <3>4, EndMoves DEF Fail, Others
      <3>5. CASE \E r \in Replicas : Crash(r)
        BY <3>5 DEF Crash
      <3>6. CASE \/ ChangeAgent \/ RevokeToken \/ Expire \/ CreateScope
                 \/ \E r \in Replicas : Collect(r)
                 \/ UNCHANGED vars
        BY <3>6 DEF ChangeAgent, RevokeToken, Expire, CreateScope, Collect, Resync, ListClients,
             LiveIds, OpenIds, Remove, vars
      <3> QED BY <3>1, <3>2, <3>3, <3>4, <3>5, <3>6
    <2>2. CASE task'[q] \in {task[q], Idle}
      BY <1>1, <2>2, RestsInOrder
    <2>3. CASE /\ UNCHANGED keycloak /\ task'[q].at \in {"lock", "resolve"}
               /\ task'[q].id \in {task[q].id, None} /\ task'[q].on \in Replicas
      <3>1. task[q].id <= made /\ made \in Nat /\ None = 0
        BY IdsAreNumbers DEF Ordered, InOrder, None
      <3> QED BY <2>3, <3>1 DEF keycloak, InOrder
    <2> QED BY <2>1, <2>2, <2>3
  <1> QED BY <1>1, <1>2, <1>3, IdsStayKnown, StayingClaims DEF Ordered

LEMMA InitOrdered == Init => Ordered
  <1> USE EnrollmentAssumption
  <1> SUFFICES ASSUME Init PROVE Ordered
    OBVIOUS
  <1>1. \A p \in Processes : InOrder(p)
    <2>1. made \in Nat
      BY DEF Init
    <2> QED BY <2>1 DEF Init, InOrder, HasIt, Idle, None
  <1>2. client.id <= made /\ client.scope = 0 /\ scope = 0
    <2>1. CASE client = NoClient /\ made = 0
      BY <2>1 DEF Init, NoClient, None
    <2>2. CASE /\ made = MaxClients
               /\ client = [NoClient EXCEPT !.id = made, !.enabled = TRUE, !.legacy = LegacyMappers]
      BY <2>2 DEF Init, NoClient, None
    <2> QED BY <2>1, <2>2 DEF Init
  <1>3. \A r \in Replicas : cached[r] <= scope
    BY <1>2 DEF Init, None
  <1> QED BY <1>1, <1>2, <1>3 DEF Ordered, KnownIds

\* Every step keeps the order and the claims.
LEMMA NextOrdered == Typed /\ Ordered /\ [Next]_vars => Ordered' /\ KeepsClaims
  <1> SUFFICES ASSUME Typed, Ordered, [Next]_vars PROVE Ordered' /\ KeepsClaims
    OBVIOUS
  <1>1. CASE \E p \in Attempts : Lock(p) \/ Create(p) \/ GetSecret(p) \/ Commit(p)
    BY <1>1, ExchangeInOrder
  <1>2. CASE \E p \in Processes : Mirror(p)
    BY <1>2, MirrorInOrder
  <1>3. CASE \/ \E p \in Attempts : Bootstrap(p) \/ Limited(p) \/ AnswerLost(p) \/ Install(p)
             \/ Sync \/ ChangeAgent \/ RevokeToken \/ Expire \/ CreateScope
             \/ \E r \in Replicas : Collect(r) \/ Crash(r)
             \/ \E p \in Processes : Fail(p)
             \/ UNCHANGED vars
    BY <1>3, OthersInOrder
  <1> QED BY <1>1, <1>2, <1>3 DEF Next, Exchange, Processes

\* A client that puts the claims into its tokens goes on doing so, through every
\* order in which replicas move it from its own mappers to the shared scope, as
\* long as that is the first (keycloak-agent.mirror.ts, "scope FIRST").
THEOREM ClientsKeepTheirClaims == Spec => ClaimsAreNeverTaken
  <1>1. Init => Typed /\ Ordered
    BY InitTyped, InitOrdered
  <1>2. Typed /\ Ordered /\ [Next]_vars => (Typed /\ Ordered)'
    BY NextTyped, NextOrdered
  <1>3. Typed /\ Ordered /\ [Next]_vars => KeepsClaims
    BY NextOrdered
  <1>4. ClaimsAreNeverTaken <=> [][KeepsClaims]_vars
    BY PTL DEF ClaimsAreNeverTaken, KeepsClaims
  <1> QED BY <1>1, <1>2, <1>3, <1>4, PTL DEF Spec
-----------------------------------------------------------------------------
(* What the handler leaves behind.  Once nothing is to be done for an agent *)
(* its client is enabled as the row says, and gone when it is revoked.      *)

\* A process that uses the client has found or made one, and a live agent was
\* committed with the client of its exchange.
Uses == {"enable", "attributes", "scopes", "findScope", "addScope", "legacy", "secret", "commit",
         "store", "delete"}
Real ==
  /\ client # NoClient => client.id # None
  /\ \A p \in Processes : task[p].at \in Uses => task[p].id # None
  /\ Live => secretOf # None

\* The handler works on the row as it is now, unless it is queued again, and
\* knows what it has done to the client.
Job == task[Handler]
Written == {"attributes", "scopes", "findScope", "addScope", "legacy", "store"}
Current ==
  /\ queued \/ pointer # None \/ Job.at # "idle" => status # "absent"
  /\ Job.at = "idle" => Job = Idle
  /\ Job.at # "idle" => queued \/ (Job.row = status /\ Job.ptr = pointer)
  /\ Job.row = "revoked" => Job.at \in {"resolve", "delete", "clear"}
  /\ Job.at = "delete" => Job.row = "revoked" /\ client.id \in {None, Job.id}
  /\ Job.at = "clear" => Job.row = "revoked" /\ client.id = None
  /\ Job.at \in Written /\ ~queued /\ Live => (client.enabled <=> status = "active")

\* Its client gives tokens exactly when the agent is active; a revoked agent has
\* neither client nor pointer.
AsItsRow ==
  /\ Live => (client.enabled <=> status = "active")
  /\ status = "revoked" => client.id = None /\ pointer = None

Left == Real /\ Current /\ (~queued /\ At(Handler, "idle") => AsItsRow)

LEMMA HandlerIs ==
  /\ Handler \in Processes /\ Handler \notin Attempts /\ ~Exchanging(Handler) /\ Job = task[Handler]
  /\ \A p \in Attempts : p \in Processes /\ p # Handler
  /\ Idle.at = "idle" /\ Idle.row = "absent"
  BY EnrollmentAssumption DEF Handler, Processes, Exchanging, Idle, Job

\* What a step of the mirror does to the client.
LEMMA ClientGoes ==
  ASSUME Typed, Real, NEW p \in Processes, Mirror(p)
  PROVE  \/ client' = client
         \/ client' = NoClient /\ At(p, "delete")
         \/ /\ client'.id = client.id /\ client.id # None
            /\ At(p, "enable") \/ client'.enabled = client.enabled
  <1>1. client \in Client
    BY DEF Typed
  <1>2. ASSUME ~Gone(p), task[p].at \in Uses
        PROVE  client.id # None
    BY <1>2 DEF Gone, Real
  <1>3. CASE Enable(p)
    BY <1>1, <1>2, <1>3 DEF Enable, Client, At, Uses
  <1>4. CASE SetAttributes(p)
    BY <1>1, <1>2, <1>4 DEF SetAttributes, Client, At, Uses
  <1>5. CASE AddScope(p)
    BY <1>1, <1>2, <1>5 DEF AddScope, Client, At, Uses
  <1>6. CASE RemoveLegacy(p)
    BY <1>1, <1>2, <1>6 DEF RemoveLegacy, Client, At, Uses
  <1>7. CASE Delete(p)
    BY <1>7 DEF Delete
  <1>8. CASE Resolve(p) \/ GetScopes(p) \/ FindScope(p) \/ Store(p) \/ Clear(p)
    BY <1>8 DEF Resolve, GetScopes, FindScope, Store, Clear, keycloak
  <1> QED BY <1>3, <1>4, <1>5, <1>6, <1>7, <1>8 DEF Mirror

LEMMA MirrorReal ==
  ASSUME Typed, Real, NEW p \in Processes, Mirror(p)
  PROVE  Real'
  <1>1. Others(p) /\ Leads(p)
    BY MirrorMoves
  <1>2. client' # NoClient => client'.id # None
    BY ClientGoes DEF Real
  <1>3. task'[p].at \in Uses => task'[p].id # None
    <2>1. CASE task'[p] = Idle
      BY <2>1, HandlerIs DEF Uses
    <2>2. CASE Found(p)
      BY <2>2 DEF Found, AfterResolve, Real, Uses
    <2>3. CASE task'[p] # Idle /\ ~Found(p)
      BY <1>1, <2>3 DEF Leads, Moves, Real, Uses
    <2> QED BY <2>1, <2>2, <2>3
  <1>4. \A q \in Processes : task'[q].at \in Uses => task'[q].id # None
    BY <1>1, <1>3 DEF Others, Real
  <1>5. status' = status /\ secretOf' = secretOf
    BY MirrorStepTyped
  <1> QED BY <1>2, <1>4, <1>5 DEF Real, Live

LEMMA ExchangeReal ==
  ASSUME Typed, Real, NEW p \in Attempts, Lock(p) \/ Create(p) \/ GetSecret(p) \/ Commit(p)
  PROVE  Real'
  <1>1. p \in Processes /\ task[p] \in Task /\ task \in [Processes -> Task]
    BY HandlerIs DEF Typed, TypeOK
  <1>2. ASSUME UNCHANGED <<client, status, secretOf>>, Others(p),
               task'[p].at \in Uses => task[p].at \in Uses /\ task'[p].id = task[p].id
        PROVE  Real'
    BY <1>2 DEF Real, Others, Live
  <1>3. CASE Lock(p)
    <2>1. UNCHANGED <<client, status, secretOf>>
      BY <1>3 DEF Lock, rows, keycloak
    <2>2. Others(p) /\ task'[p].at \in {"resolve", "idle"}
      <3>1. CASE Proceed(p, "resolve")
        BY <1>1, <3>1, GoMoves DEF Proceed, Moves
      <3>2. CASE task' = [task EXCEPT ![p] = Idle]
        BY <1>1, <3>2, HandlerIs DEF Others
      <3> QED BY <1>3, <3>1, <3>2 DEF Lock
    <2> QED BY <1>2, <2>1, <2>2 DEF Uses
  <1>4. CASE GetSecret(p)
    <2>1. UNCHANGED <<client, status, secretOf>> /\ task[p].at = "secret"
      BY <1>4 DEF GetSecret, rows, keycloak, At
    <2>2. CASE Throw(p)
      BY <1>1, <1>2, <2>1, <2>2, EndMoves, HandlerIs DEF Uses
    <2>3. CASE Proceed(p, "commit")
      BY <1>1, <1>2, <2>1, <2>3, GoMoves DEF Proceed, Moves, Uses
    <2> QED BY <1>4, <2>2, <2>3 DEF GetSecret
  <1>5. CASE Commit(p)
    <2>1. /\ Go(p, "answer") /\ task[p].at = "commit" /\ secretOf' = task[p].id
          /\ UNCHANGED client
      BY <1>5 DEF Commit, At, keycloak
    <2>2. Others(p) /\ task'[p].at = "answer"
      BY <1>1, <2>1, GoMoves DEF Moves
    <2>3. secretOf' # None
      BY <1>1, <2>1 DEF Real, Uses
    <2> QED BY <2>1, <2>2, <2>3 DEF Real, Others, Uses
  <1>6. CASE Create(p) /\ client # NoClient
    <2>1. UNCHANGED <<client, status, secretOf>> /\ Throw(p)
      BY <1>6 DEF Create, rows, keycloak
    <2> QED BY <1>1, <1>2, <2>1, EndMoves, HandlerIs DEF Uses
  <1>7. CASE Create(p) /\ client = NoClient
    <2>1. PICK new : new = made + 1
      OBVIOUS
    <2>2. /\ task' = [task EXCEPT ![p].at = "attributes", ![p].id = new]
          /\ client' = [NoClient EXCEPT !.id = new, !.enabled = TRUE]
          /\ UNCHANGED <<status, secretOf>>
      BY <1>7, <2>1 DEF Create, rows
    <2>3. new # None
      BY <2>1 DEF Typed, TypeOK, None
    <2>4. Others(p) /\ task'[p].id = new
      BY <1>1, <2>2 DEF Others, Task
    <2>5. client'.id = new
      BY <2>2 DEF NoClient
    <2> QED BY <2>2, <2>3, <2>4, <2>5 DEF Real, Others, Live
  <1> QED BY <1>3, <1>4, <1>5, <1>6, <1>7

\* Steps at which processes stay, end or begin, and the client stays or goes.
LEMMA RestsReal ==
  ASSUME Real, UNCHANGED secretOf, Live' => Live,
         client' = client \/ client' = NoClient \/ (client.id # None /\ client'.id = client.id),
         \A p \in Processes : task'[p] = task[p] \/ task'[p].at \notin Uses
  PROVE  Real'
  <1>1. client' # NoClient => client'.id # None
    BY DEF Real
  <1>2. \A p \in Processes : task'[p].at \in Uses => task'[p].id # None
    BY DEF Real
  <1> QED BY <1>1, <1>2 DEF Real

\* The scripts, admins, the clock, the Job, the collectors and failures take such
\* steps.
LEMMA OthersReal ==
  ASSUME Typed, Real,
         \/ \E p \in Attempts : Bootstrap(p) \/ Limited(p) \/ AnswerLost(p) \/ Install(p)
         \/ Sync \/ ChangeAgent \/ RevokeToken \/ Expire \/ CreateScope
         \/ \E r \in Replicas : Collect(r) \/ Crash(r)
         \/ \E p \in Processes : Fail(p)
         \/ UNCHANGED vars
  PROVE  Real'
  <1>1. Idle.at \notin Uses /\ task \in [Processes -> Task] /\ client \in Client
    BY DEF Idle, Uses, Typed, TypeOK
  <1>2. CASE \E p \in Attempts : Bootstrap(p) \/ Limited(p) \/ AnswerLost(p) \/ Install(p)
    <2>1. PICK p \in Attempts : Bootstrap(p) \/ Limited(p) \/ AnswerLost(p) \/ Install(p)
      BY <1>2
    <2>2. UNCHANGED <<status, client, secretOf>>
      BY <2>1 DEF Bootstrap, Limited, AnswerLost, Install, rows, keycloak
    <2>3. p \in Processes
      BY HandlerIs
    <2>4. \A q \in Processes : task'[q] = task[q] \/ task'[q].at \notin Uses
      <3>1. CASE Bootstrap(p)
        <4>1. PICK r \in Replicas : task' = [task EXCEPT ![p].at = "lock", ![p].on = r]
          BY <3>1 DEF Bootstrap
        <4>2. task[p] \in Task
          BY <1>1, <2>3
        <4>3. task'[p].at = "lock" /\ \A q \in Processes \ {p} : task'[q] = task[q]
          BY <1>1, <2>3, <4>1, <4>2 DEF Task
        <4> QED BY <4>3 DEF Uses
      <3>2. CASE ~Bootstrap(p)
        <4>1. task' = [task EXCEPT ![p] = Idle]
          BY <2>1, <3>2 DEF Limited, AnswerLost, Install
        <4> QED BY <1>1, <2>3, <4>1
      <3> QED BY <3>1, <3>2
    <2> QED BY <2>2, <2>4, RestsReal DEF Live
  <1>3. CASE Sync
    <2>1. PICK r \in Replicas :
            task' = [task EXCEPT ![Handler] =
              [Idle EXCEPT !.at = "resolve", !.on = r, !.row = status, !.ptr = pointer]]
      BY <1>3 DEF Sync
    <2>2. UNCHANGED <<status, client, secretOf>>
      BY <1>3 DEF Sync, rows, keycloak
    <2>3. [Idle EXCEPT !.at = "resolve", !.on = r, !.row = status, !.ptr = pointer].at \notin Uses
      BY DEF Idle, Uses
    <2>4. \A q \in Processes : task'[q] = task[q] \/ task'[q].at \notin Uses
      BY <1>1, <2>1, <2>3
    <2> QED BY <2>2, <2>4, RestsReal DEF Live
  <1>4. CASE ChangeAgent
    BY <1>4, RestsReal DEF ChangeAgent, keycloak
  <1>5. CASE RevokeToken
    BY <1>5, RestsReal DEF RevokeToken, keycloak, Live
  <1>6. CASE Expire
    BY <1>6, RestsReal DEF Expire, keycloak, Live
  <1>7. CASE UNCHANGED vars
    BY <1>7, RestsReal DEF vars, rows, keycloak, Live
  <1>8. CASE CreateScope
    <2>1. UNCHANGED <<status, task, secretOf>> /\ client' = [client EXCEPT !.scope = None]
      BY <1>8 DEF CreateScope, rows
    <2>2. client'.id = client.id
      BY <1>1, <2>1 DEF Client
    <2>3. CASE client = NoClient
      BY <2>1, <2>3, RestsReal DEF NoClient, Live
    <2>4. CASE client # NoClient
      BY <2>1, <2>2, <2>4, RestsReal DEF Live, Real
    <2> QED BY <2>3, <2>4
  <1>9. CASE \E r \in Replicas : Collect(r)
    <2>1. UNCHANGED <<status, task, secretOf>> /\ client' \in {client, NoClient}
      BY <1>9 DEF Collect, Resync, ListClients, LiveIds, OpenIds, Remove, rows, keycloak
    <2> QED BY <2>1, RestsReal DEF Live
  <1>10. CASE \E r \in Replicas : Crash(r)
    <2>1. UNCHANGED <<status, client, secretOf>>
      BY <1>10 DEF Crash, rows, keycloak
    <2>2. \A q \in Processes : task'[q] \in {task[q], Idle}
      BY <1>10 DEF Crash
    <2> QED BY <1>1, <2>1, <2>2, RestsReal DEF Live
  <1>11. CASE \E p \in Processes : Fail(p)
    <2>1. UNCHANGED <<status, client, secretOf>>
      BY <1>11 DEF Fail, rows, keycloak
    <2>2. \A q \in Processes : task'[q] \in {task[q], Idle}
      BY <1>1, <1>11 DEF Fail, Throw
    <2> QED BY <1>1, <2>1, <2>2, RestsReal DEF Live
  <1> QED BY <1>2, <1>3, <1>4, <1>5, <1>6, <1>7, <1>8, <1>9, <1>10, <1>11

\* At rest, or at work on the same row: what is left stays as it was.
LEMMA StaysLeft ==
  ASSUME Left, Real', UNCHANGED <<status, pointer>>, queued => queued',
         queued' => queued \/ Live \/ pointer # None \/ Job.at # "idle",
         Job' = Job \/ (Job' = Idle /\ queued'),
         client'.id \in {client.id, None}, client'.enabled = client.enabled \/ ~Live
  PROVE  Left'
  <1>1. Idle.at = "idle" /\ Idle.row = "absent"
    BY HandlerIs
  <1>2. Live' <=> Live
    BY DEF Live
  <1>3. CASE Job' = Job
    <2>1. Current'
      BY <1>2, <1>3 DEF Left, Current, Live
    <2>2. ~queued' /\ At(Handler, "idle")' => AsItsRow'
      BY <1>2, <1>3 DEF Left, AsItsRow, At, Job
    <2> QED BY <2>1, <2>2 DEF Left
  <1>4. CASE Job' = Idle /\ queued'
    <2>1. Current'
      BY <1>1, <1>2, <1>4 DEF Left, Current, Written, Live
    <2> QED BY <1>4, <2>1 DEF Left
  <1> QED BY <1>3, <1>4

\* As long as there is no agent nothing is to be done for it.
LEMMA AbsentLeft ==
  ASSUME Left, Real', status = "absent", UNCHANGED <<status, pointer, queued>>, Job' = Job
  PROVE  Left'
  <1>1. Job.at = "idle" /\ ~queued /\ pointer = None /\ Job.row # "revoked"
    BY DEF Left, Current
  <1>2. Current'
    BY <1>1 DEF Left, Current, Written, Live
  <1>3. AsItsRow'
    BY <1>1 DEF AsItsRow, Live
  <1> QED BY <1>2, <1>3 DEF Left

\* What the steps of an attempt leave alone.
LEMMA AttemptsLeaveIt ==
  ASSUME Typed, NEW p \in Attempts, Mirror(p) \/ Lock(p) \/ Create(p) \/ GetSecret(p),
         WorksOn(p)
  PROVE  UNCHANGED <<status, pointer, queued>> /\ Job' = Job
  <1>1. p \in Processes /\ p # Handler /\ Exchanging(p) /\ Handler \in Processes
        /\ task \in [Processes -> Task]
    BY HandlerIs DEF Typed, TypeOK, Exchanging
  <1>2. Job' = Job
    <2>1. CASE Mirror(p)
      <3>1. Others(p)
        BY <1>1, <2>1, MirrorMoves
      <3> QED BY <1>1, <3>1 DEF Others, Job
    <2>2. CASE Lock(p)
      BY <1>1, <2>2 DEF Lock, Proceed, Go, Job
    <2>3. CASE Create(p)
      BY <1>1, <2>3 DEF Create, Throw, Job
    <2>4. CASE GetSecret(p)
      BY <1>1, <2>4 DEF GetSecret, Throw, Proceed, Go, Job
    <2> QED BY <2>1, <2>2, <2>3, <2>4
  <1>3. UNCHANGED <<status, pointer, queued>>
    <2>1. CASE Mirror(p)
      <3>1. task[p].at \notin {"enable", "store", "delete", "clear"}
        BY <1>1 DEF WorksOn
      <3>2. CASE Resolve(p)
        BY <1>1, <3>2 DEF Resolve, Return, rows
      <3>3. CASE SetAttributes(p)
        BY <1>1, <3>3 DEF SetAttributes, Throw, Proceed, rows
      <3>4. CASE GetScopes(p)
        BY <1>1, <3>4 DEF GetScopes, Throw, Proceed, rows
      <3>5. CASE FindScope(p)
        BY <1>1, <3>5 DEF FindScope, Throw, Proceed, rows
      <3>6. CASE AddScope(p)
        BY <1>1, <3>6 DEF AddScope, Throw, Proceed, rows
      <3>7. CASE RemoveLegacy(p)
        BY <1>1, <3>7 DEF RemoveLegacy, Throw, Proceed, rows
      <3> QED BY <2>1, <3>1, <3>2, <3>3, <3>4, <3>5, <3>6, <3>7
               DEF Mirror, Enable, Store, Delete, Clear, At
    <2>2. CASE Lock(p)
      BY <2>2 DEF Lock, Proceed, rows
    <2>3. CASE Create(p)
      BY <1>1, <2>3 DEF Create, Throw, rows
    <2>4. CASE GetSecret(p)
      BY <1>1, <2>4 DEF GetSecret, Throw, Proceed, rows
    <2> QED BY <2>1, <2>2, <2>3, <2>4
  <1> QED BY <1>2, <1>3

\* There is no agent while one of its exchanges is under way, and the commit
\* queues it.
LEMMA AttemptLeft ==
  ASSUME Typed, Once, Kept, Left, NEW p \in Attempts,
         Mirror(p) \/ Lock(p) \/ Create(p) \/ GetSecret(p) \/ Commit(p)
  PROVE  Left'
  <1>1. p \in Processes /\ p # Handler /\ Handler \in Processes /\ WorksOn(p)
        /\ task \in [Processes -> Task]
    BY HandlerIs DEF Typed, TypeOK, Kept
  <1>2. Real'
    BY <1>1, MirrorReal, ExchangeReal DEF Left
  <1>3. CASE Lock(p)
    <2>1. UNCHANGED <<status, pointer, queued, client>> /\ Job' = Job
      BY <1>1, <1>3, AttemptsLeaveIt DEF Lock, keycloak
    <2> QED BY <1>2, <2>1, StaysLeft
  <1>4. ASSUME ~Lock(p)
        PROVE  status = "absent"
    <2>1. task[p].at \notin {"idle", "lock", "answer"}
      BY <1>4 DEF Mirror, Resolve, Enable, SetAttributes, GetScopes, FindScope, AddScope,
                  RemoveLegacy, Store, Delete, Clear, Create, GetSecret, Commit, At
    <2>2. InTransaction # {}
      BY <2>1 DEF InTransaction
    <2> QED BY <2>2, InsideNoAgent
  <1>5. CASE ~Lock(p) /\ ~Commit(p)
    BY <1>1, <1>2, <1>4, <1>5, AttemptsLeaveIt, AbsentLeft
  <1>6. CASE Commit(p)
    <2>1. status = "absent" /\ status' = "active" /\ queued' /\ Go(p, "answer")
      BY <1>4, <1>6 DEF Commit, Lock, At
    <2>2. Job' = Job
      BY <1>1, <2>1 DEF Go, Job
    <2>3. Job.at = "idle" /\ Job.row # "revoked"
      BY <2>1 DEF Left, Current
    <2>4. Current'
      BY <2>1, <2>2, <2>3 DEF Left, Current, Written
    <2> QED BY <1>2, <2>1, <2>4 DEF Left
  <1> QED BY <1>3, <1>5, <1>6

\* The handler writes on, or has written all: the client is as the row says.
LEMMA WritesOn ==
  ASSUME Left, Real', UNCHANGED <<status, pointer, queued>>, Job.at \in Written,
         Job'.at \in Written, Job'.row = Job.row, Job'.ptr = Job.ptr,
         client'.id = client.id, client'.enabled = client.enabled
  PROVE  Left'
  <1>1. Job.at # "idle" /\ Job'.at \notin {"idle", "delete", "clear", "resolve"}
        /\ Job.at \notin {"delete", "clear", "resolve"}
    BY DEF Written
  <1>2. Current'
    BY <1>1 DEF Left, Current, Live
  <1> QED BY <1>1, <1>2 DEF Left, At, Job

LEMMA HasWritten ==
  ASSUME Left, Real', UNCHANGED <<status, queued, client>>, Job.at \in Written, Job' = Idle
  PROVE  Left'
  <1>1. Job.at # "idle" /\ Job.at \notin {"delete", "clear", "resolve"}
    BY DEF Written
  <1>2. status # "absent" /\ Job'.at = "idle" /\ Job'.row = "absent"
    BY <1>1, HandlerIs DEF Left, Current
  <1>3. Current'
    BY <1>2 DEF Left, Current, Written
  <1>4. ASSUME ~queued PROVE AsItsRow'
    BY <1>1, <1>4 DEF Left, Current, AsItsRow, Live
  <1> QED BY <1>3, <1>4 DEF Left

\* A handler that throws is queued again.
LEMMA ThrowLeft ==
  ASSUME Typed, Left, Real', Job.at # "idle", Throw(Handler), UNCHANGED <<status, pointer, client>>
  PROVE  Left'
  <1>1. Job' = Idle
    BY HandlerIs, EndMoves DEF Job
  <1>2. queued' = TRUE
    BY HandlerIs DEF Throw
  <1> QED BY <1>1, <1>2, StaysLeft

LEMMA HandlerGoes ==
  ASSUME Typed, NEW step, Proceed(Handler, step)
  PROVE  /\ Job'.at = step /\ Job'.row = Job.row /\ Job'.ptr = Job.ptr /\ Job'.id = Job.id
         /\ UNCHANGED queued
  <1>1. task \in [Processes -> Task] /\ Handler \in Processes
    BY HandlerIs DEF Typed, TypeOK
  <1>2. task[Handler] \in Task /\ task' = [task EXCEPT ![Handler].at = step]
    BY <1>1 DEF Proceed, Go
  <1> QED BY <1>1, <1>2 DEF Proceed, Job, Task

LEMMA HandlerReturns ==
  ASSUME Typed, Return(Handler)
  PROVE  Job' = Idle /\ UNCHANGED queued
  BY HandlerIs, EndMoves DEF Job, Return

\* The handler looks the client up: nothing to do, or it goes on with what there is.
LEMMA ResolveLeft ==
  ASSUME Typed, Kept, Left, Real', Resolve(Handler)
  PROVE  Left'
  <1>1. /\ UNCHANGED <<status, pointer, client>> /\ Job.at = "resolve" /\ ~Exchanging(Handler)
        /\ task \in [Processes -> Task] /\ Handler \in Processes
    BY HandlerIs DEF Resolve, rows, keycloak, At, Job, Typed, TypeOK
  <1>2. status # "absent" /\ (queued \/ (Job.row = status /\ Job.ptr = pointer))
    BY <1>1 DEF Left, Current
  <1>3. CASE AfterResolve(Handler) = "idle"
    <2>1. Job' = Idle /\ UNCHANGED queued
      BY <1>3, HandlerReturns DEF Resolve
    <2>2. Current'
      BY <1>1, <1>2, <2>1, HandlerIs DEF Left, Current, Written
    <2>3. ASSUME ~queued PROVE AsItsRow'
      <3>1. client = NoClient /\ (status = "revoked" => pointer = None)
        BY <1>1, <1>2, <1>3, <2>3 DEF AfterResolve, Job
      <3>2. client.id = None /\ ~Live
        BY <3>1 DEF NoClient, Kept, AgentKeepsItsClient, Left, Real
      <3> QED BY <1>1, <3>1, <3>2 DEF AsItsRow, Live
    <2> QED BY <2>1, <2>2, <2>3 DEF Left
  <1>4. CASE AfterResolve(Handler) # "idle"
    <2> DEFINE next == AfterResolve(Handler)
    <2>1. task' = [task EXCEPT ![Handler].at = next, ![Handler].id = client.id]
          /\ UNCHANGED queued
      BY <1>4 DEF Resolve
    <2>2. task[Handler] \in Task
      BY <1>1
    <2>3. /\ Job'.at = next /\ Job'.row = Job.row /\ Job'.ptr = Job.ptr /\ Job'.id = client.id
      BY <1>1, <2>1, <2>2 DEF Job, Task
    <2>4. Job.row = "revoked" => /\ next \in {"delete", "clear"}
                                 /\ next = "clear" => client = NoClient
      BY <1>1, <1>4 DEF AfterResolve, Job
    <2>5. Job.row # "revoked" => /\ next \in {"enable", "attributes"}
                                 /\ next = "attributes" => (client.enabled <=> Job.row = "active")
      BY <1>1, <1>4 DEF AfterResolve, Job, Typed, Client
    <2>6. NoClient.id = None /\ next # "idle"
      BY <1>4 DEF NoClient
    <2> HIDE DEF next
    <2>7. Current'
      BY <1>1, <1>2, <2>1, <2>3, <2>4, <2>5, <2>6 DEF Left, Current, Written, Live
    <2>8. ~At(Handler, "idle")'
      BY <2>3, <2>6 DEF At, Job
    <2> QED BY <2>7, <2>8 DEF Left
  <1> QED BY <1>3, <1>4

\* The handler of a live agent writes its client.
LEMMA WritingLeft ==
  ASSUME Typed, Left, Real',
         \/ Enable(Handler) \/ SetAttributes(Handler) \/ GetScopes(Handler)
         \/ FindScope(Handler) \/ AddScope(Handler) \/ RemoveLegacy(Handler) \/ Store(Handler)
  PROVE  Left'
  <1>1. Mirror(Handler) /\ Handler \in Processes /\ ~Exchanging(Handler) /\ client \in Client
    BY HandlerIs DEF Mirror, Typed
  <1>2. UNCHANGED status
    BY <1>1, MirrorStepTyped
  <1>3. Job.at # "idle"
    BY DEF Enable, SetAttributes, GetScopes, FindScope, AddScope, RemoveLegacy, Store, At, Job
  <1>4. CASE Throw(Handler) /\ UNCHANGED <<pointer, client>>
    BY <1>2, <1>3, <1>4, ThrowLeft
  <1>5. CASE Enable(Handler) /\ ~(Throw(Handler) /\ UNCHANGED client)
    <2>1. /\ Job.at = "enable" /\ Proceed(Handler, "attributes") /\ UNCHANGED pointer
          /\ client' = [client EXCEPT !.enabled = task[Handler].row = "active"]
      BY <1>5 DEF Enable, At, Job, rows
    <2>2. client'.id = client.id /\ (client'.enabled <=> Job.row = "active")
      BY <1>1, <2>1 DEF Client, Job
    <2>3. /\ Job'.at = "attributes" /\ Job'.row = Job.row /\ Job'.ptr = Job.ptr /\ UNCHANGED queued
      BY <2>1, HandlerGoes
    <2>4. Current'
      BY <1>2, <2>1, <2>2, <2>3 DEF Left, Current, Written, Live
    <2> QED BY <2>3, <2>4 DEF Left, At, Job
  <1>6. CASE SetAttributes(Handler) /\ ~(Throw(Handler) /\ UNCHANGED client)
    <2>1. /\ Job.at \in Written /\ Proceed(Handler, "scopes") /\ UNCHANGED pointer
          /\ client' = [client EXCEPT !.attributes = TRUE]
      BY <1>6 DEF SetAttributes, At, Job, rows, Written
    <2>2. client'.id = client.id /\ client'.enabled = client.enabled
      BY <1>1, <2>1 DEF Client
    <2>3. "scopes" \in Written
      BY DEF Written
    <2> QED BY <1>2, <2>1, <2>2, <2>3, HandlerGoes, WritesOn
  <1>7. CASE GetScopes(Handler) /\ ~(Throw(Handler) /\ UNCHANGED client)
    <2>1. /\ Job.at \in Written /\ Proceed(Handler, AfterScopes(Handler))
          /\ UNCHANGED <<pointer, client>>
      BY <1>7 DEF GetScopes, At, Job, rows, keycloak, Written
    <2>2. AfterScopes(Handler) \in Written
      BY DEF AfterScopes, Written
    <2> QED BY <1>2, <2>1, <2>2, HandlerGoes, WritesOn
  <1>8. CASE FindScope(Handler) /\ ~(Throw(Handler) /\ UNCHANGED client)
    <2>1. /\ Job.at \in Written /\ Proceed(Handler, "addScope") /\ UNCHANGED <<pointer, client>>
      BY <1>8 DEF FindScope, At, Job, rows, keycloak, Written
    <2>2. "addScope" \in Written
      BY DEF Written
    <2> QED BY <1>2, <2>1, <2>2, HandlerGoes, WritesOn
  <1>9. CASE AddScope(Handler) /\ ~(Throw(Handler) /\ UNCHANGED client)
    <2>1. /\ Job.at \in Written /\ Proceed(Handler, "legacy") /\ UNCHANGED pointer
          /\ client' = [client EXCEPT !.scope = scope]
      BY <1>9 DEF AddScope, At, Job, rows, Written
    <2>2. client'.id = client.id /\ client'.enabled = client.enabled
      BY <1>1, <2>1 DEF Client
    <2>3. "legacy" \in Written
      BY DEF Written
    <2> QED BY <1>2, <2>1, <2>2, <2>3, HandlerGoes, WritesOn
  <1>10. CASE RemoveLegacy(Handler) /\ ~(Throw(Handler) /\ UNCHANGED client)
    <2>1. Job.at \in Written /\ UNCHANGED pointer /\ Job.at = "legacy"
      BY <1>10 DEF RemoveLegacy, At, Job, rows, Written
    <2>2. CASE HasLegacy(client)
      <3>1. client' = [client EXCEPT !.legacy = @ - 1] /\ UNCHANGED <<task, queued>>
        BY <1>10, <2>2 DEF RemoveLegacy
      <3>2. client'.id = client.id /\ client'.enabled = client.enabled /\ Job' = Job
        BY <1>1, <3>1 DEF Client, Job
      <3> QED BY <1>2, <2>1, <3>1, <3>2, WritesOn
    <2>3. CASE ~HasLegacy(client)
      <3>1. UNCHANGED client /\ (Proceed(Handler, "store") \/ Return(Handler))
        BY <1>1, <1>10, <2>3 DEF RemoveLegacy
      <3>2. "store" \in Written
        BY DEF Written
      <3> QED BY <1>2, <2>1, <3>1, <3>2, HandlerGoes, HandlerReturns, WritesOn, HasWritten
    <2> QED BY <2>2, <2>3
  <1>11. CASE Store(Handler)
    <2>1. Job.at \in Written /\ Return(Handler) /\ UNCHANGED client
      BY <1>11 DEF Store, At, Job, keycloak, Written
    <2> QED BY <1>2, <2>1, HandlerReturns, HasWritten
  <1>12. CASE ~Store(Handler) /\ Throw(Handler) /\ UNCHANGED client
    BY <1>4, <1>12 DEF Enable, SetAttributes, GetScopes, FindScope, AddScope, RemoveLegacy,
                       Proceed, Return, rows, keycloak
  <1> QED BY <1>5, <1>6, <1>7, <1>8, <1>9, <1>10, <1>11, <1>12

\* The handler of a revoked agent deletes its client and clears the pointer.
LEMMA DeletingLeft ==
  ASSUME Typed, Left, Real', Delete(Handler) \/ Clear(Handler)
  PROVE  Left'
  <1>1. Mirror(Handler) /\ Handler \in Processes /\ UNCHANGED status
    BY HandlerIs, MirrorStepTyped DEF Mirror
  <1>2. Job.at \in {"delete", "clear"} /\ NoClient.id = None
    BY DEF Delete, Clear, At, Job, NoClient
  <1>3. /\ Job.row = "revoked" /\ status # "absent"
        /\ queued \/ (status = "revoked" /\ Job.ptr = pointer)
    <2>1. status # "absent" /\ (queued \/ (Job.row = status /\ Job.ptr = pointer))
      BY <1>2 DEF Left, Current
    <2>2. Job.at = "delete" => Job.row = "revoked"
      BY DEF Left, Current
    <2> QED BY <1>2, <2>1, <2>2 DEF Left, Current
  <1>4. client'.id = None
    BY <1>2 DEF Left, Current, Delete, Clear, Gone, Job, At, keycloak
  <1>5. CASE Proceed(Handler, "clear") /\ UNCHANGED pointer
    <2>1. Job'.at = "clear" /\ Job'.row = Job.row /\ Job'.ptr = Job.ptr /\ UNCHANGED queued
      BY <1>5, HandlerGoes
    <2>2. Current'
      BY <1>1, <1>3, <1>4, <1>5, <2>1 DEF Current, Written
    <2> QED BY <2>1, <2>2 DEF Left, At, Job
  <1>6. CASE Return(Handler) /\ (queued \/ pointer' = None)
    <2>1. Job' = Idle /\ UNCHANGED queued
      BY <1>6, HandlerReturns
    <2>2. Current'
      BY <1>1, <1>3, <2>1, HandlerIs DEF Current, Written
    <2>3. ASSUME ~queued PROVE AsItsRow'
      BY <1>1, <1>3, <1>4, <1>6, <2>3 DEF AsItsRow, Live
    <2> QED BY <2>1, <2>2, <2>3 DEF Left
  <1>7. CASE Delete(Handler)
    <2>1. UNCHANGED pointer
      BY <1>7 DEF Delete, rows
    <2>2. Job.ptr = None => queued \/ pointer' = None
      BY <1>3, <2>1
    <2> QED BY <1>5, <1>6, <1>7, <2>1, <2>2 DEF Delete, Job
  <1>8. CASE Clear(Handler)
    BY <1>6, <1>8 DEF Clear
  <1> QED BY <1>7, <1>8

\* The scripts, admins, the clock, the Job, the collectors and failures.
LEMMA OthersLeft ==
  ASSUME Typed, Kept, Left,
         \/ \E p \in Attempts : Bootstrap(p) \/ Limited(p) \/ AnswerLost(p) \/ Install(p)
         \/ Sync \/ ChangeAgent \/ RevokeToken \/ Expire \/ CreateScope
         \/ \E r \in Replicas : Collect(r) \/ Crash(r)
         \/ \E p \in Processes : Fail(p)
         \/ UNCHANGED vars
  PROVE  Left'
  <1>1. Real'
    BY OthersReal DEF Left
  <1>2. task \in [Processes -> Task] /\ Handler \in Processes /\ client \in Client
    BY HandlerIs DEF Typed, TypeOK
  <1>3. CASE \E p \in Attempts : Bootstrap(p) \/ Limited(p) \/ AnswerLost(p) \/ Install(p)
    <2>1. PICK p \in Attempts : Bootstrap(p) \/ Limited(p) \/ AnswerLost(p) \/ Install(p)
      BY <1>3
    <2>2. UNCHANGED <<status, pointer, client, queued>>
      BY <2>1 DEF Bootstrap, Limited, AnswerLost, Install, rows, keycloak
    <2>3. Job' = Job
      BY <1>2, <2>1, HandlerIs DEF Bootstrap, Limited, AnswerLost, Install, Job
    <2> QED BY <1>1, <2>2, <2>3, StaysLeft
  <1>4. CASE Sync
    <2>1. PICK r \in Replicas :
            task' = [task EXCEPT ![Handler] =
              [Idle EXCEPT !.at = "resolve", !.on = r, !.row = status, !.ptr = pointer]]
      BY <1>4 DEF Sync
    <2>2. Job'.at = "resolve" /\ Job'.row = status /\ Job'.ptr = pointer
      BY <1>2, <2>1 DEF Job, Idle
    <2>3. queued /\ UNCHANGED <<status, pointer>>
      BY <1>4 DEF Sync, rows
    <2>4. Current'
      BY <2>2, <2>3 DEF Left, Current, Written
    <2> QED BY <1>1, <2>2, <2>4 DEF Left, At, Job
  <1>5. CASE ChangeAgent
    <2>1. /\ queued' = TRUE /\ Live /\ status' # "absent"
          /\ UNCHANGED <<client, task, pointer>> /\ Job' = Job
      BY <1>5 DEF ChangeAgent, keycloak, Job
    <2>2. Current'
      BY <2>1 DEF Left, Current, Written
    <2> QED BY <1>1, <2>1, <2>2 DEF Left
  <1>6. CASE RevokeToken \/ Expire \/ UNCHANGED vars
    <2>1. UNCHANGED <<status, pointer, queued, client, task>> /\ Job' = Job
      BY <1>6 DEF RevokeToken, Expire, vars, rows, keycloak, Job
    <2> QED BY <1>1, <2>1, StaysLeft
  <1>7. CASE CreateScope
    <2>1. /\ UNCHANGED <<status, pointer, queued, task>> /\ Job' = Job
          /\ client' = [client EXCEPT !.scope = None]
      BY <1>7 DEF CreateScope, rows, Job
    <2>2. client'.id = client.id /\ client'.enabled = client.enabled
      BY <1>2, <2>1 DEF Client
    <2> QED BY <1>1, <2>1, <2>2, StaysLeft
  <1>8. CASE \E r \in Replicas : Collect(r)
    <2>1. PICK r \in Replicas : Collect(r)
      BY <1>8
    <2>2. UNCHANGED <<status, pointer, task>> /\ Job' = Job
      BY <2>1 DEF Collect, Resync, ListClients, LiveIds, OpenIds, Remove, rows, Job
    <2>3. (queued => queued') /\ (queued' => queued \/ Live \/ pointer # None)
      <3>1. CASE Resync(r)
        <4>1. queued' = (queued \/ Live \/ pointer # None)
          BY <3>1 DEF Resync
        <4> QED BY <4>1, Zenon
      <3>2. CASE ~Resync(r)
        <4>1. queued' = queued
          BY <2>1, <3>2 DEF Collect, ListClients, LiveIds, OpenIds, Remove
        <4> QED BY <4>1
      <3> QED BY <3>1, <3>2
    <2>4. CASE Remove(r)
      <3>1. ~Live /\ client' \in {client, NoClient}
        BY <2>4 DEF Remove, Kept, CollectorKnows, Doomed
      <3> QED BY <1>1, <2>2, <2>3, <3>1, StaysLeft DEF NoClient
    <2>5. CASE ~Remove(r)
      <3>1. UNCHANGED client
        BY <2>1, <2>5 DEF Collect, Resync, ListClients, LiveIds, OpenIds, keycloak
      <3> QED BY <1>1, <2>2, <2>3, <3>1, StaysLeft
    <2> QED BY <2>4, <2>5
  <1>9. CASE \E r \in Replicas : Crash(r)
    <2>1. PICK r \in Replicas : Crash(r)
      BY <1>9
    <2>2. UNCHANGED <<status, pointer, client>>
      BY <2>1 DEF Crash, rows, keycloak
    <2>3. CASE Job.on = r
      <3>1. Job' = Idle /\ Job # Idle
        BY <1>2, <2>1, <2>3, EnrollmentAssumption DEF Crash, Job, Idle
      <3>2. Job.at # "idle"
        BY <3>1 DEF Left, Current
      <3>3. queued'
        <4>1. Handler \in {p \in Processes : task[p].on = r}
          BY <1>2, <2>3 DEF Job
        <4> QED BY <2>1, <4>1, Zenon DEF Crash
      <3> QED BY <1>1, <2>2, <3>1, <3>2, <3>3, StaysLeft
    <2>4. CASE Job.on # r
      <3>1. Job' = Job /\ (queued' <=> queued)
        BY <1>2, <2>1, <2>4 DEF Crash, Job
      <3> QED BY <1>1, <2>2, <3>1, StaysLeft
    <2> QED BY <2>3, <2>4
  <1>10. CASE \E p \in Processes : Fail(p)
    <2>1. PICK p \in Processes : Fail(p)
      BY <1>10
    <2>2. UNCHANGED <<status, pointer, client>> /\ Throw(p) /\ task[p].at # "idle"
      BY <2>1 DEF Fail, rows, keycloak
    <2>3. CASE p = Handler
      BY <1>1, <2>2, <2>3, ThrowLeft DEF Job
    <2>4. CASE p # Handler
      <3>1. UNCHANGED queued /\ Job' = Job
        BY <1>2, <2>2, <2>4 DEF Throw, Exchanging, Processes, Job
      <3> QED BY <1>1, <2>2, <3>1, StaysLeft
    <2> QED BY <2>3, <2>4
  <1> QED BY <1>3, <1>4, <1>5, <1>6, <1>7, <1>8, <1>9, <1>10

LEMMA InitLeft == Init => Left
  <1> USE EnrollmentAssumption
  <1> SUFFICES ASSUME Init PROVE Left
    OBVIOUS
  <1>1. Job = Idle /\ Idle.at = "idle" /\ Idle.row = "absent"
        /\ \A p \in Processes : task[p] = Idle
    BY HandlerIs DEF Init, Job, Idle
  <1>2. CASE status = "absent" /\ pointer = None /\ client = NoClient
    <2>1. ~Live
      BY <1>2 DEF Live
    <2>2. Real
      BY <1>1, <1>2, <2>1 DEF Real, Uses
    <2>3. Current /\ AsItsRow
      BY <1>1, <1>2, <2>1 DEF Init, Current, AsItsRow, Written
    <2> QED BY <2>2, <2>3 DEF Left
  <1>3. CASE /\ status = "active" /\ pointer = 1 /\ made = MaxClients
             /\ client = [NoClient EXCEPT !.id = made, !.enabled = TRUE, !.legacy = LegacyMappers]
    <2>1. client.id = made /\ client.enabled /\ made # None /\ secretOf = made
      BY <1>3 DEF Init, NoClient, None
    <2>2. Real
      BY <1>1, <2>1 DEF Real, Uses
    <2>3. Current /\ AsItsRow
      BY <1>1, <1>3, <2>1 DEF Current, AsItsRow, Written
    <2> QED BY <2>2, <2>3 DEF Left
  <1> QED BY <1>2, <1>3 DEF Init

\* The invariant is preserved by every step.
LEMMA NextLeft == Typed /\ Once /\ Kept /\ Left /\ [Next]_vars => Left'
  <1> SUFFICES ASSUME Typed, Once, Kept, Left, [Next]_vars PROVE Left'
    OBVIOUS
  <1>1. CASE \E p \in Attempts : Lock(p) \/ Create(p) \/ GetSecret(p) \/ Commit(p) \/ Mirror(p)
    BY <1>1, AttemptLeft
  <1>2. CASE Mirror(Handler)
    <2>1. Real'
      BY <1>2, HandlerIs, MirrorReal DEF Left
    <2> QED BY <1>2, <2>1, ResolveLeft, WritingLeft, DeletingLeft DEF Mirror
  <1>3. CASE \/ \E p \in Attempts : Bootstrap(p) \/ Limited(p) \/ AnswerLost(p) \/ Install(p)
             \/ Sync \/ ChangeAgent \/ RevokeToken \/ Expire \/ CreateScope
             \/ \E r \in Replicas : Collect(r) \/ Crash(r)
             \/ \E p \in Processes : Fail(p)
             \/ UNCHANGED vars
    BY <1>3, OthersLeft
  <1> QED BY <1>1, <1>2, <1>3 DEF Next, Exchange

\* An agent for which nothing is pending is in Keycloak what its row says: its
\* client gives tokens if and only if the agent is active, and a revoked agent
\* has neither a client nor a pointer to one.  Whatever failed or crashed on the
\* way, and whoever changed the agent meanwhile, queued it again
\* (keycloak-agent.mirror.ts, apply).
THEOREM RestingAgentsAreAsTheirRow ==
  Spec => [](~queued /\ At(Handler, "idle") => AsItsRow)
  <1>1. Left => (~queued /\ At(Handler, "idle") => AsItsRow)
    BY DEF Left
  <1>2. Init => Typed /\ Once /\ Kept /\ Left
    BY InitTyped, InitOnce, InitKept, InitLeft
  <1>3. Typed /\ Once /\ Kept /\ Left /\ [Next]_vars => (Typed /\ Once /\ Kept /\ Left)'
    BY NextTyped, NextOnce, NextKept, NextLeft
  <1> QED BY <1>1, <1>2, <1>3, PTL DEF Spec
=============================================================================
