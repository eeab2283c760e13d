--------------------------- MODULE KeycloakMirror ---------------------------
(***************************************************************************)
(* The mirrors of tenants and users in Keycloak and the garbage collector  *)
(* (mirrors/keycloak: keycloak-tenant.mirror.ts, keycloak-user.mirror.ts,  *)
(* keycloak-gc.ts).                                                        *)
(*                                                                         *)
(* A group mirrors a tenant and an account a user; both are objects with a *)
(* name and a marker, the id of the row they were made for.  The handlers  *)
(* of both kinds go the same way: find the object by the stored id or by   *)
(* the name, create, adopt or delete it, store its id.  A handler also     *)
(* runs inline, inside the transaction that creates the row, which nobody  *)
(* else sees before it is committed.                                       *)
(*                                                                         *)
(* Each request to Keycloak and each statement is a step.  The outbox is   *)
(* what Outbox promises: one handler per row at a time, a row asked for    *)
(* again stays queued, a handler that throws is run again.  Left out:      *)
(* password, names of persons and sessions, whose requests fail as those   *)
(* before and after them do when the account is gone; objects without a    *)
(* marker, which no handler touches.                                       *)
(***************************************************************************)
EXTENDS Naturals, FiniteSets

CONSTANTS
  Tenants, Users,
  TenantOf,      \* the tenant of a user
  NameOf,        \* the key of a tenant, the username of a user
  Present,       \* the rows there are at the start, with their objects
  Ids,           \* bound: ids Keycloak gives to objects, from 1 on
  Collectors,    \* replicas, each running the garbage collector
  AlwaysAllowed, \* ALWAYS_ALLOWED of the garbage collector
  Replicas,      \* how many handlers run at a time
  MaxChanges,    \* bound: requests of the domain services
  MaxFails       \* bound: requests that fail, replicas that die

Rows == Tenants \cup Users

ASSUME KeycloakAssumption ==
  /\ Tenants \cap Users = {} /\ "none" \notin Rows
  /\ TenantOf \in [Users -> Tenants]
  /\ \A t \in Tenants, r \in Rows : NameOf[t] = NameOf[r] => r \in Tenants
  /\ Present \subseteq Rows /\ IsFiniteSet(Present)
  /\ \A u \in Present \cap Users : TenantOf[u] \in Present
  /\ \A q, r \in Present : NameOf[q] = NameOf[r] => q = r
  /\ Ids \subseteq Nat \ {0} /\ 1..Cardinality(Present) \subseteq Ids
  /\ AlwaysAllowed \in Nat
  /\ Replicas \in Nat \ {0}
  /\ MaxChanges \in Nat
  /\ MaxFails \in Nat

VARIABLES
  status,   \* the committed status and `enabled` of each row
  pointer,  \* keycloak_group_id and keycloak_user_id, or None
  object,   \* Keycloak: the groups and accounts
  member,   \* Keycloak: pairs of an account and a group it is in
  top,      \* Keycloak: the last id it gave out
  queued,   \* rows with a pending outbox entry
  task,     \* the handler of each row
  gc,       \* the garbage collectors
  changes,  \* how often the domain services have changed something
  fails     \* how many requests have failed

database == <<status, pointer>>
keycloak == <<object, member, top>>
vars == <<database, keycloak, queued, task, gc, changes, fails>>

None == 0
\* Of a group or an account: whose it is, whether it is enabled, whose role it has.
Objects == [marker : Rows, enabled : BOOLEAN, role : Users \cup {"none"}]
NoObject == [marker |-> "none", enabled |-> FALSE, role |-> "none"]

\* absent: not inserted yet;  gone: the insert was rolled back.
Status == {"absent", "gone", "active", "disabled", "deleted"}
Live(r) == status[r] \in {"active", "disabled"}

Steps ==
  {"idle", "tenant", "stored", "byName", "owner", "create", "update", "adopt",
   "assertMarker", "groups", "leave", "join", "roles", "store", "commit", "delete", "clear"}

\* What a handler knows: the row it read, the group it wants for its user, the
\* object it found and who owned it, the groups to leave, whether to join.
Task ==
  [at : Steps, inline : BOOLEAN, row : Status, ptr : Ids \cup {None},
   group : Ids \cup {None}, id : Ids \cup {None}, owner : Rows \cup {"none"},
   others : SUBSET Ids, join : BOOLEAN]

Idle ==
  [at |-> "idle", inline |-> FALSE, row |-> "absent", ptr |-> None, group |-> None,
   id |-> None, owner |-> "none", others |-> {}, join |-> FALSE]

Collector ==
  [at : {"idle", "list", "judge", "remove"}, listed : SUBSET (Ids \X Rows),
   seen : SUBSET Ids, remove : SUBSET Ids, open : SUBSET Rows]

NotCollecting ==
  [at |-> "idle", listed |-> {}, seen |-> {}, remove |-> {}, open |-> {}]

At(r, step) == task[r].at = step
Go(r, step) == task' = [task EXCEPT ![r].at = step] /\ UNCHANGED queued
Running == {r \in Rows : ~At(r, "idle") /\ ~task[r].inline}
Inline == {r \in Rows : task[r].inline}

Exists(o) == object[o] # NoObject
Marker(o) == object[o].marker
Named(r) == {o \in Ids : Exists(o) /\ NameOf[Marker(o)] = NameOf[r]}
GroupsOf(a) == {g \in Ids : <<a, g>> \in member}
UsersOf(t) == {u \in Users : TenantOf[u] = t}
Without(o) == {m \in member : o \notin {m[1], m[2]}}

-----------------------------------------------------------------------------
(* How a handler ends                                                      *)

Return(r) ==
  /\ task' = [task EXCEPT ![r] = Idle]
  /\ UNCHANGED queued

\* A transaction is rolled back; the outbox runs another handler again.
Throw(r) ==
  /\ task' = [task EXCEPT ![r] = Idle]
  /\ IF task[r].inline
       THEN status' = [status EXCEPT ![r] = "gone"] /\ UNCHANGED queued
       ELSE queued' = queued \cup {r} /\ UNCHANGED status

Proceed(r, step) == Go(r, step) /\ UNCHANGED status

\* A request fails before it takes effect, or the replica dies here.
Fail(r) ==
  /\ fails < MaxFails
  /\ ~At(r, "idle")
  /\ Throw(r)
  /\ fails' = fails + 1
  /\ UNCHANGED <<pointer, keycloak, gc, changes>>

-----------------------------------------------------------------------------
(* Domain services                                                         *)

Bounded == changes < MaxChanges /\ changes' = changes + 1 /\ UNCHANGED fails

FirstStep(r, s) == IF r \in Users /\ s # "deleted" THEN "tenant" ELSE "stored"

\* Keys are never used again, usernames only after a delete.
Taken(r) == \E q \in Rows \ {r} :
  NameOf[q] = NameOf[r] /\ IF r \in Tenants THEN status[q] \notin {"absent", "gone"} ELSE Live(q)

\* The insert of tenants.create and users.createWithIdentity: it waits for
\* another insert of the same name; the handler runs before the commit.
Insert(r) ==
  /\ Bounded
  /\ status[r] = "absent" /\ At(r, "idle")
  /\ r \in Users => status[TenantOf[r]] = "active"
  /\ ~Taken(r) /\ \A q \in Inline : NameOf[q] # NameOf[r]
  /\ task' = [task EXCEPT ![r] =
       [Idle EXCEPT !.at = FirstStep(r, "active"), !.inline = TRUE, !.row = "active"]]
  /\ UNCHANGED <<database, keycloak, queued, gc>>

SetUser(u, from, to) ==
  /\ Bounded
  /\ status[u] \in from
  /\ status' = [status EXCEPT ![u] = to]
  /\ queued' = queued \cup {u}
  /\ UNCHANGED <<pointer, keycloak, task, gc>>

\* Mutant: the column gets the name of the request.
ChangeUserToEnabled(u) ==
  \/ SetUser(u, {"active"}, "disabled")
  \/ SetUser(u, {"disabled"}, "enabled")
  \/ SetUser(u, {"active", "disabled"}, "deleted")

ChangeUser(u) ==
  \/ SetUser(u, {"active"}, "disabled")
  \/ SetUser(u, {"disabled"}, "active")
  \/ SetUser(u, {"active", "disabled"}, "deleted")

DeleteTenant(t) ==
  /\ Bounded
  /\ status[t] = "active"
  /\ LET ended == {u \in UsersOf(t) : Live(u)}
     IN /\ status' = [r \in Rows |-> IF r \in {t} \cup ended THEN "deleted" ELSE status[r]]
        /\ queued' = queued \cup {t} \cup ended
  /\ UNCHANGED <<pointer, keycloak, task, gc>>

-----------------------------------------------------------------------------
(* Finding the object of a row                                             *)

\* findById of a row the worker claimed.
Read(r) ==
  /\ r \in queued /\ At(r, "idle")
  /\ Cardinality(Running) < Replicas
  /\ task' = [task EXCEPT ![r] =
       [Idle EXCEPT !.at = FirstStep(r, status[r]), !.row = status[r], !.ptr = pointer[r]]]
  /\ queued' = queued \ {r}
  /\ UNCHANGED <<database, keycloak, gc, changes, fails>>

\* desiredGroupId; it does not look at the status of the tenant.
DesiredGroup(u) ==
  LET g == pointer[TenantOf[u]] IN
  /\ At(u, "tenant")
  /\ IF g = None
       THEN Throw(u)
       ELSE /\ task' = [task EXCEPT ![u].at = "stored", ![u].group = g]
            /\ UNCHANGED <<status, queued>>
  /\ UNCHANGED <<pointer, keycloak, gc, changes, fails>>

Enabled(r) == task[r].row = "active"

\* What is left to do once an object is as the row says.
InPlace(r) == IF r \in Users THEN "groups" ELSE "store"

\* What to do with the object found: delete it if the row is deleted, else
\* write it where it differs.
Found(r, o) ==
  [task[r] EXCEPT !.id = o,
     !.at = IF task[r].row = "deleted" THEN "delete"
            ELSE IF Marker(o) # r THEN "adopt"
            ELSE IF object[o].enabled # Enabled(r) THEN "update"
            ELSE InPlace(r)]

\* The stored id still is this row's object.
StillMine(r) == task[r].ptr # None /\ Marker(task[r].ptr) = r

Stored(r) ==
  /\ At(r, "stored")
  /\ IF StillMine(r)
       THEN task' = [task EXCEPT ![r] = Found(r, task[r].ptr)] /\ UNCHANGED queued
       ELSE Go(r, "byName")
  /\ UNCHANGED <<database, keycloak, gc, changes, fails>>

\* The answer for a row that is deleted: only an object of its own goes.
NamedForDelete(r, o) ==
  IF Marker(o) = r THEN Found(r, o) ELSE [task[r] EXCEPT !.at = "clear"]

\* The answer for a live row: one of another row is taken if that row is not.
NamedForWrite(r, o) ==
  IF Marker(o) = r THEN Found(r, o)
  ELSE [task[r] EXCEPT !.at = "owner", !.id = o, !.owner = Marker(o)]

\* The search by name of resolveForWrite and of ownedAccount, ownedGroup.
ByName(r) ==
  LET deleted == task[r].row = "deleted" IN
  /\ At(r, "byName")
  /\ \/ /\ Named(r) = {}
        /\ Go(r, IF deleted THEN "clear" ELSE "create")
     \/ \E o \in Named(r) :
          /\ task' = [task EXCEPT ![r] =
               IF deleted THEN NamedForDelete(r, o) ELSE NamedForWrite(r, o)]
          /\ UNCHANGED queued
  /\ UNCHANGED <<database, keycloak, gc, changes, fails>>

\* findById of the marker: a row that is gone or deleted gives its object up.
Owner(r) ==
  /\ At(r, "owner")
  /\ IF Live(task[r].owner) THEN Throw(r) ELSE Proceed(r, "adopt")
  /\ UNCHANGED <<pointer, keycloak, gc, changes, fails>>

-----------------------------------------------------------------------------
(* Writing it                                                              *)

\* Keycloak refuses a name that is taken.
Create(r, next) ==
  LET new == top + 1 IN
  /\ At(r, "create")
  /\ \/ /\ Named(r) = {} /\ new \in Ids
        /\ object' = [object EXCEPT ![new] =
             [marker |-> r, enabled |-> Enabled(r), role |-> "none"]]
        /\ top' = new
        /\ task' = [task EXCEPT ![r].id = new, ![r].at = next]
        /\ UNCHANGED <<status, queued>>
     \/ /\ Named(r) # {}
        /\ Throw(r)
        /\ UNCHANGED <<object, top>>
  /\ UNCHANGED <<pointer, member, gc, changes, fails>>

CreateUser(u) == Create(u, "assertMarker")
CreateGroup(t) == Create(t, "store")

\* A PUT of the whole object, with the marker of this row; roles stay.
Update(r, step, next) ==
  /\ At(r, step)
  /\ IF Exists(task[r].id)
       THEN /\ object' = [object EXCEPT ![task[r].id] =
                 [@ EXCEPT !.marker = r, !.enabled = Enabled(r)]]
            /\ Proceed(r, next)
       ELSE Throw(r) /\ UNCHANGED object
  /\ UNCHANGED <<pointer, member, top, gc, changes, fails>>

\* An account that was another row's is looked at again.
UpdateUser(u) == Update(u, "update", "groups") \/ Update(u, "adopt", "assertMarker")
UpdateGroup(t) == Update(t, "update", "store") \/ Update(t, "adopt", "store")

\* assertMarker, of an account created or adopted.
AssertMarker(u) ==
  /\ At(u, "assertMarker")
  /\ IF Marker(task[u].id) = u THEN Proceed(u, "groups") ELSE Throw(u)
  /\ UNCHANGED <<pointer, keycloak, gc, changes, fails>>

\* getUserGroups
GetGroups(u) ==
  LET current == GroupsOf(task[u].id) IN
  /\ At(u, "groups")
  /\ IF Exists(task[u].id)
       THEN /\ task' = [task EXCEPT ![u].at = "leave", ![u].others = current \ {task[u].group},
                                    ![u].join = task[u].group \notin current]
            /\ UNCHANGED <<status, queued>>
       ELSE Throw(u)
  /\ UNCHANGED <<pointer, keycloak, gc, changes, fails>>

\* removeUserFromGroup, one by one.
Leave(u) ==
  /\ At(u, "leave")
  /\ \/ \E g \in task[u].others :
          /\ member' = member \ {<<task[u].id, g>>}
          /\ task' = [task EXCEPT ![u].others = @ \ {g}]
          /\ UNCHANGED queued
     \/ /\ task[u].others = {}
        /\ Go(u, IF task[u].join THEN "join" ELSE "roles")
        /\ UNCHANGED member
  /\ UNCHANGED <<database, object, top, gc, changes, fails>>

\* addUserToGroup
Join(u) ==
  /\ At(u, "join")
  /\ IF Exists(task[u].id) /\ Exists(task[u].group)
       THEN member' = member \cup {<<task[u].id, task[u].group>>} /\ Proceed(u, "roles")
       ELSE Throw(u) /\ UNCHANGED member
  /\ UNCHANGED <<pointer, object, top, gc, changes, fails>>

\* The realm role of the user, and none of ours besides: an adopted account
\* comes with its former owner's.
RightRoles(o, u) == [object[o] EXCEPT !.role = u]

\* getUserRealmRoles, then the requests that add and remove; one step, for
\* only the row's own handler does this.
SyncRoles(u) ==
  /\ At(u, "roles")
  /\ IF Exists(task[u].id)
       THEN /\ object' = [object EXCEPT ![task[u].id] = RightRoles(task[u].id, u)]
            /\ Proceed(u, "store")
       ELSE Throw(u) /\ UNCHANGED object
  /\ UNCHANGED <<pointer, member, top, gc, changes, fails>>

\* The columns are UNIQUE, and a value that an open transaction has stored is
\* waited for.
StoreIn(r, table) ==
  LET o == task[r].id IN
  /\ At(r, "store")
  /\ \A q \in Inline \ {r} : ~(At(q, "commit") /\ task[q].id = o)
  /\ \/ /\ \E q \in table \ {r} : pointer[q] = o
        /\ Throw(r)
        /\ UNCHANGED pointer
     \/ /\ \A q \in table \ {r} : pointer[q] # o
        /\ IF task[r].inline
             THEN Go(r, "commit") /\ UNCHANGED pointer
             ELSE Return(r) /\ pointer' = [pointer EXCEPT ![r] = o]
        /\ UNCHANGED status
  /\ UNCHANGED <<keycloak, gc, changes, fails>>

SetKeycloakUserId(u) == StoreIn(u, Users)
SetKeycloakGroupId(t) == StoreIn(t, Tenants)

\* The row becomes visible, its outbox entry with it.
Commit(r) ==
  /\ At(r, "commit")
  /\ status' = [status EXCEPT ![r] = "active"]
  /\ pointer' = [pointer EXCEPT ![r] = task[r].id]
  /\ queued' = queued \cup {r}
  /\ task' = [task EXCEPT ![r] = Idle]
  /\ UNCHANGED <<keycloak, gc, changes, fails>>

-----------------------------------------------------------------------------
(* Removing it                                                             *)

Delete(r) ==
  /\ At(r, "delete")
  /\ object' = [object EXCEPT ![task[r].id] = NoObject]
  /\ member' = Without(task[r].id)
  /\ Go(r, "clear")
  /\ UNCHANGED <<database, top, gc, changes, fails>>

Clear(r) ==
  /\ At(r, "clear")
  /\ pointer' = [pointer EXCEPT ![r] = None]
  /\ Return(r)
  /\ UNCHANGED <<status, keycloak, gc, changes, fails>>

RemoveUser(u) == Delete(u) \/ Clear(u)
RemoveGroup(t) == Delete(t) \/ Clear(t)

-----------------------------------------------------------------------------
(* Resync and garbage collector.  Users and groups are listed and judged  *)
(* together, though the code does one after the other.  A run less than    *)
(* GC_CONFIRM_MS after another only repeats what that one saw and is left  *)
(* out; an inline creation is shorter than GC_CONFIRM_MS, so one that was  *)
(* open when a run looked at its row is over when the next one starts.     *)

\* findIdsForResync: live rows, and others that still hold a pointer.
Resynced == {r \in Rows : Live(r) \/ pointer[r] # None}

\* run of the resync enqueues them, in one step here, and then collects.
Resync(c) ==
  /\ gc[c].at = "idle"
  /\ gc[c].open \cap Inline = {}
  /\ queued' = queued \cup Resynced
  /\ gc' = [gc EXCEPT ![c] = [@ EXCEPT !.at = "list", !.open = {}]]
  /\ UNCHANGED <<database, keycloak, task, changes, fails>>

\* listUsers, listGroups: the objects with a marker of ours.
Marked == {e \in Ids \X Rows : Marker(e[1]) = e[2]}

List(c) ==
  /\ gc[c].at = "list"
  /\ gc' = [gc EXCEPT ![c].at = "judge",
                      ![c].listed = Marked]
  /\ UNCHANGED <<database, keycloak, queued, task, changes, fails>>

\* Mutant: the share alone decides.
SaneShare(orphans, listed) ==
  IF 2 * Cardinality(orphans) > Cardinality(listed) THEN {} ELSE orphans

\* MAX_ORPHAN_SHARE is one half.
Sane(orphans, listed) ==
  IF Cardinality(orphans) > AlwaysAllowed /\ 2 * Cardinality(orphans) > Cardinality(listed)
    THEN {} ELSE orphans

\* Mutant: an orphan is removed when it is seen for the first time.
Unconfirmed(c, orphans) == orphans

\* Only what an earlier run has seen as well is removed.
Confirmed(c, orphans) == orphans \cap gc[c].seen

\* The orphans among the listed objects of one kind.
Orphans(c, kind) ==
  LET listed == {e \in gc[c].listed : e[2] \in kind}
  IN Sane({e \in listed : ~Live(e[2])}, listed)

OrphanUsers(c) == Orphans(c, Users)
OrphanGroups(c) == Orphans(c, Tenants)

\* findActiveIds of both kinds, then what is seen and what is removed.
Judge(c) ==
  LET orphans == {e[1] : e \in OrphanUsers(c) \cup OrphanGroups(c)}
  IN /\ gc[c].at = "judge"
     /\ gc' = [gc EXCEPT ![c] =
          [at |-> "remove", listed |-> {}, seen |-> orphans,
           remove |-> Confirmed(c, orphans), open |-> Inline]]
     /\ UNCHANGED <<database, keycloak, queued, task, changes, fails>>

Remove(c) ==
  /\ gc[c].at = "remove"
  /\ \/ \E o \in gc[c].remove :
          /\ object' = [object EXCEPT ![o] = NoObject]
          /\ member' = Without(o)
          /\ gc' = [gc EXCEPT ![c].remove = @ \ {o}, ![c].seen = @ \ {o}]
     \/ /\ gc[c].remove = {}
        /\ gc' = [gc EXCEPT ![c].at = "idle"]
        /\ UNCHANGED <<object, member>>
  /\ UNCHANGED <<database, top, queued, task, changes, fails>>

\* A request of the collector fails, or its replica dies and forgets.
CollectionFails(c) ==
  /\ fails < MaxFails
  /\ gc[c].at # "idle"
  /\ \E seen \in {gc[c].seen, {}} :
       gc' = [gc EXCEPT ![c] = [NotCollecting EXCEPT !.seen = seen, !.open = gc[c].open]]
  /\ fails' = fails + 1
  /\ UNCHANGED <<database, keycloak, queued, task, changes>>

-----------------------------------------------------------------------------
\* The present rows are settled; ids have been given out in some order.
Init ==
  \E id \in {f \in [Present -> 1..Cardinality(Present)] :
             \A q, r \in Present : f[q] = f[r] => q = r} :
    /\ status = [r \in Rows |-> IF r \in Present THEN "active" ELSE "absent"]
    /\ pointer = [r \in Rows |-> IF r \in Present THEN id[r] ELSE None]
    /\ object = [o \in Ids |->
         IF \E r \in Present : id[r] = o
           THEN LET r == CHOOSE r \in Present : id[r] = o
                IN [marker |-> r, enabled |-> TRUE, role |-> IF r \in Users THEN r ELSE "none"]
           ELSE NoObject]
    /\ member = {<<id[u], id[TenantOf[u]]>> : u \in Present \cap Users}
    /\ top = Cardinality(Present)
    /\ queued = {}
    /\ task = [r \in Rows |-> Idle]
    /\ gc = [c \in Collectors |-> NotCollecting]
    /\ changes = 0
    /\ fails = 0

\* A step of the handler of row r.
Handle(r) ==
  \/ Read(r) \/ Stored(r) \/ ByName(r) \/ Owner(r) \/ Commit(r)
  \/ /\ r \in Users
     /\ \/ DesiredGroup(r) \/ CreateUser(r) \/ UpdateUser(r) \/ AssertMarker(r)
        \/ GetGroups(r) \/ Leave(r) \/ Join(r) \/ SyncRoles(r)
        \/ SetKeycloakUserId(r) \/ RemoveUser(r)
  \/ /\ r \in Tenants
     /\ \/ CreateGroup(r) \/ UpdateGroup(r) \/ SetKeycloakGroupId(r) \/ RemoveGroup(r)

Collect(c) == Resync(c) \/ List(c) \/ Judge(c) \/ Remove(c)

Next ==
  \/ \E r \in Rows : Insert(r) \/ Handle(r) \/ Fail(r)
  \/ \E u \in Users : ChangeUser(u)
  \/ \E t \in Tenants : DeleteTenant(t)
  \/ \E c \in Collectors : Collect(c) \/ CollectionFails(c)

Spec == Init /\ [][Next]_vars

\* What is queued gets its turn, requests are sent, and the resync runs every
\* hour.
FairSpec ==
  /\ Spec
  /\ \A r \in Rows : SF_vars(Handle(r))
  /\ \A c \in Collectors : WF_vars(Collect(c))

-----------------------------------------------------------------------------
(* Properties                                                              *)

\* Every variable has its type.
TypeOK ==
  /\ status \in [Rows -> Status]
  /\ pointer \in [Rows -> Ids \cup {None}]
  /\ object \in [Ids -> Objects \cup {NoObject}]
  /\ member \subseteq Ids \X Ids
  /\ top \in Ids \cup {0}
  /\ queued \subseteq Rows
  /\ task \in [Rows -> Task]
  /\ gc \in [Collectors -> Collector]
  /\ changes \in 0..MaxChanges
  /\ fails \in 0..MaxFails

\* The name of a row has been another's before.
NameReused(r) == \E q \in Rows \ {r} : NameOf[q] = NameOf[r] /\ status[q] # "absent"

\* As long as its name is its own, a live row keeps its group or account: the
\* collector, which sees an inline creation before its row, does not take it
\* for an orphan, and no handler deletes it ("an inline create still inside
\* its DB transaction is invisible for a moment", keycloak-gc.ts:48-51).
KeepsLive ==
  [][\A o \in Ids :
       Exists(o) /\ ~Exists(o)' /\ Live(Marker(o)) => NameReused(Marker(o))]_vars

UserSettled(u) ==
  Live(u) /\ status[TenantOf[u]] = "active" =>
    /\ pointer[u] # None
    /\ object[pointer[u]] = [marker |-> u, enabled |-> status[u] = "active", role |-> u]
    /\ GroupsOf(pointer[u]) = {pointer[TenantOf[u]]}

TenantSettled(t) ==
  status[t] = "active" => pointer[t] # None /\ Marker(pointer[t]) = t

AllSettled ==
  /\ \A u \in Users : UserSettled(u)
  /\ \A t \in Tenants : TenantSettled(t)
  /\ \A o \in Ids : Exists(o) => Live(Marker(o))

\* However creations are rolled back, names reused and handlers, collector
\* and domain services interleaved, Keycloak ends up with an enabled or
\* disabled account in exactly its tenant's group and with its own role for
\* every user, and with nothing of ours that has no live row
\* (keycloak-gc.ts:41-46).
Settles == <>[]AllSettled
=============================================================================
