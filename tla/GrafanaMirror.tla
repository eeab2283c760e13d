---------------------------- MODULE GrafanaMirror ----------------------------
(***************************************************************************)
(* The mirrors of tenants and users in Grafana: orgs, accounts and         *)
(* memberships (mirrors/grafana, integrations/grafana/grafana.client.ts).  *)
(*                                                                         *)
(* A handler is a sequence of requests to the database and to Grafana; the *)
(* domain services, other handlers and Grafana itself may act before each  *)
(* of them.  The outbox appears as what it promises in Outbox: one handler *)
(* per row at a time, a row asked for again stays queued, and a handler    *)
(* that throws or dies is run again from its start.                        *)
(*                                                                         *)
(* Grafana knows an org by its name, the tenant's key or "[deleted] key",  *)
(* and an account by its login and email, which one user after the other   *)
(* may have.  Of an org's content the model knows whether its datasources  *)
(* and its dashboards are there.  Roles, and platform admins (see          *)
(* SupportAccess), are left out.                                           *)
(***************************************************************************)
EXTENDS Naturals, FiniteSets

CONSTANTS
  Tenants, Users,
  TenantOf,    \* the tenant of a user
  NameOf,      \* the login and the email of a user
  Provisioned, \* the tenant, if any, that has its org at the start
  OrgIds,      \* bound: ids Grafana gives to orgs, from 1 on
  AccountIds,  \* bound: ids Grafana gives to accounts, from 1 on
  Replicas,    \* how many handlers run at a time
  MaxChanges,  \* bound: requests of the domain services
  MaxFails     \* bound: requests that fail, replicas that die

ASSUME GrafanaAssumption ==
  /\ TenantOf \in [Users -> Tenants]
  /\ Tenants \cap Users = {}
  /\ Provisioned \subseteq Tenants /\ \A s, t \in Provisioned : s = t
  /\ OrgIds \subseteq Nat \ {0} /\ (Provisioned # {} => 1 \in OrgIds)
  /\ AccountIds \subseteq Nat \ {0}
  /\ Replicas \in Nat \ {0}
  /\ MaxChanges \in Nat
  /\ MaxFails \in Nat

VARIABLES
  tenant,     \* tenants.status
  user,       \* users.status and enabled
  orgOf,      \* tenants.grafana_org_id, or None
  accountOf,  \* users.grafana_user_id, or None
  org,        \* Grafana: the name of each org
  account,    \* Grafana: the name of each account
  member,     \* Grafana: the members of the orgs
  content,    \* Grafana: what the orgs hold, as <<org, item>>
  top,        \* Grafana: the last ids it gave out
  queued,     \* rows with a pending outbox entry
  task,       \* the handler of each row
  changes,    \* how often the domain services have changed something
  fails       \* how many requests have failed

rows == <<tenant, user>>
pointers == <<orgOf, accountOf>>
grafana == <<org, account, member, content, top>>
bounds == <<changes, fails>>
vars == <<rows, pointers, grafana, queued, task, bounds>>

None == 0
NoName == <<"none">>
LiveName(t) == <<"live", t>>
RetiredName(t) == <<"deleted", t>>
Login(n) == <<"login", n>>

OrgNames == {LiveName(t) : t \in Tenants} \cup {RetiredName(t) : t \in Tenants}
Logins == {Login(NameOf[u]) : u \in Users}

\* The two datasources, and the default dashboards with their folders.
Items == {"datasources", "dashboards"}

UserStatus == {"absent", "active", "disabled", "deleted"}

Steps ==
  {"idle", "readTenant", "deleteAccount", "clearAccount", "getAccount", "lookup",
   "create", "storeAccount", "getOrgs", "addOrg", "removeOrgs",
   "ensureOrg", "provision", "storeOrg", "deleteOrg",
   "retireOrg", "emptyOrg", "renameOrg", "clearOrg", "fanOut"}

\* What a handler remembers: the pointer it read, the org it wants, the id it
\* found, and the orgs or members it is to remove.
Task ==
  [at : Steps, ptr : OrgIds \cup AccountIds \cup {None}, want : OrgIds \cup {None},
   id : OrgIds \cup AccountIds \cup {None}, others : SUBSET (OrgIds \cup AccountIds)]

Idle == [at |-> "idle", ptr |-> None, want |-> None, id |-> None, others |-> {}]

At(k, step) == task[k].at = step
Go(k, step) == task' = [task EXCEPT ![k].at = step]
Running == {k \in Tenants \cup Users : ~At(k, "idle")}

UsersOf(t) == {u \in Users : TenantOf[u] = t}
OrgsNamed(name) == {o \in OrgIds : org[o] = name}
AccountsNamed(name) == {a \in AccountIds : account[a] = name}
MyName(u) == Login(NameOf[u])

\* The account of a user may exist.
Wanted(u) == user[u] = "active" /\ tenant[TenantOf[u]] = "active"

-----------------------------------------------------------------------------
(* How a handler ends                                                      *)

Return(k) ==
  /\ task' = [task EXCEPT ![k] = Idle]
  /\ UNCHANGED queued

\* The outbox runs the row again.
Throw(k) ==
  /\ task' = [task EXCEPT ![k] = Idle]
  /\ queued' = queued \cup {k}

\* A request fails before it takes effect, or the replica dies here.
Fail(k) ==
  /\ fails < MaxFails
  /\ ~At(k, "idle")
  /\ Throw(k)
  /\ fails' = fails + 1
  /\ UNCHANGED <<rows, pointers, grafana, changes>>

Claim(k, next) ==
  /\ k \in queued /\ At(k, "idle")
  /\ Cardinality(Running) < Replicas
  /\ task' = [task EXCEPT ![k] = next]
  /\ queued' = queued \ {k}

-----------------------------------------------------------------------------
(* Domain services and resync                                              *)

Bounded == changes < MaxChanges /\ changes' = changes + 1 /\ UNCHANGED <<fails>>

\* Names are unique among active and disabled users.
CreateUser(u) ==
  /\ Bounded
  /\ user[u] = "absent" /\ tenant[TenantOf[u]] = "active"
  /\ \A v \in Users : NameOf[v] = NameOf[u] => user[v] \in {"absent", "deleted"}
  /\ user' = [user EXCEPT ![u] = "active"]
  /\ queued' = queued \cup {u}
  /\ UNCHANGED <<tenant, pointers, grafana, task>>

SetUser(u, from, to) ==
  /\ Bounded
  /\ user[u] \in from
  /\ user' = [user EXCEPT ![u] = to]
  /\ queued' = queued \cup {u}
  /\ UNCHANGED <<tenant, pointers, grafana, task>>

ChangeUser(u) ==
  \/ SetUser(u, {"active"}, "disabled")
  \/ SetUser(u, {"disabled"}, "active")
  \/ SetUser(u, {"active", "disabled"}, "deleted")

DeleteTenant(t) ==
  /\ Bounded
  /\ tenant[t] = "active"
  /\ tenant' = [tenant EXCEPT ![t] = "deleted"]
  /\ user' = [u \in Users |->
       IF u \in UsersOf(t) /\ user[u] # "absent" THEN "deleted" ELSE user[u]]
  /\ queued' = queued \cup {t} \cup {u \in UsersOf(t) : user[u] \in {"active", "disabled"}}
  /\ UNCHANGED <<pointers, grafana, task>>

\* findIdsForResync: live rows, and others that still hold a pointer.
ResyncedTenants == {t \in Tenants : tenant[t] = "active" \/ orgOf[t] # None}
ResyncedUsers == {u \in Users : user[u] \in {"active", "disabled"} \/ accountOf[u] # None}

Resync(k) ==
  /\ k \in (ResyncedTenants \cup ResyncedUsers) \ queued
  /\ queued' = queued \cup {k}
  /\ UNCHANGED <<rows, pointers, grafana, task, bounds>>

-----------------------------------------------------------------------------
(* Handler of a user                                                       *)

\* Mutant: an unwanted account stays.
UnwantedStays(u) == "idle"

\* What sync does of an account that must not exist.
Unwanted(u) == IF accountOf[u] = None THEN "idle" ELSE "deleteAccount"

\* users.findById; desiredMemberships looks at the row first.
ReadUser(u) ==
  /\ Claim(u, [Idle EXCEPT !.at = IF user[u] = "active" THEN "readTenant" ELSE Unwanted(u),
                           !.ptr = accountOf[u]])
  /\ UNCHANGED <<rows, pointers, grafana, bounds>>

\* tenants.findById.  An active tenant without org: try again later.
ReadTenant(u) ==
  LET t == TenantOf[u] IN
  /\ At(u, "readTenant")
  /\ \/ /\ tenant[t] = "active" /\ orgOf[t] # None
        /\ task' = [task EXCEPT ![u] = [@ EXCEPT !.at = "getAccount", !.want = orgOf[t]]]
        /\ UNCHANGED queued
     \/ /\ tenant[t] = "active" /\ orgOf[t] = None
        /\ Throw(u)
     \/ /\ tenant[t] # "active"
        /\ IF task[u].ptr = None THEN Return(u) ELSE Go(u, "deleteAccount") /\ UNCHANGED queued
  /\ UNCHANGED <<rows, pointers, grafana, bounds>>

\* deleteUser of the client: the account and its memberships, if it is there.
DeleteAccount(u) ==
  /\ At(u, "deleteAccount")
  /\ account' = [account EXCEPT ![task[u].ptr] = NoName]
  /\ member' = {m \in member : m[1] # task[u].ptr}
  /\ Go(u, "clearAccount")
  /\ UNCHANGED <<rows, pointers, org, content, top, queued, bounds>>

ClearAccount(u) ==
  /\ At(u, "clearAccount")
  /\ accountOf' = [accountOf EXCEPT ![u] = None]
  /\ Return(u)
  /\ UNCHANGED <<rows, orgOf, grafana, bounds>>

\* A stored id is trusted while the account has this user's name.
Trusted(u) == task[u].ptr # None /\ account[task[u].ptr] = MyName(u)

GetAccount(u) ==
  /\ At(u, "getAccount")
  /\ task' = [task EXCEPT ![u] =
       IF Trusted(u) THEN [@ EXCEPT !.at = "getOrgs", !.id = task[u].ptr]
                     ELSE [@ EXCEPT !.at = "lookup"]]
  /\ UNCHANGED <<rows, pointers, grafana, queued, bounds>>

\* Where ensureGrafanaUser goes with the id it has found.
Ensured(u, a) ==
  [task[u] EXCEPT !.at = IF a = task[u].ptr THEN "getOrgs" ELSE "storeAccount", !.id = a]

\* lookupUser by email, then by login.
Lookup(u) ==
  /\ At(u, "lookup")
  /\ \/ \E a \in AccountsNamed(MyName(u)) : task' = [task EXCEPT ![u] = Ensured(u, a)]
     \/ AccountsNamed(MyName(u)) = {} /\ Go(u, "create")
  /\ UNCHANGED <<rows, pointers, grafana, queued, bounds>>

\* createUser puts the account into its first org; Grafana refuses a name
\* that is taken and an org that is gone.
Create(u) ==
  LET new == top.account + 1 IN
  /\ At(u, "create")
  /\ \/ /\ AccountsNamed(MyName(u)) = {} /\ org[task[u].want] # NoName
        /\ new \in AccountIds
        /\ account' = [account EXCEPT ![new] = MyName(u)]
        /\ member' = member \cup {<<new, task[u].want>>}
        /\ top' = [top EXCEPT !.account = new]
        /\ task' = [task EXCEPT ![u] = Ensured(u, new)]
        /\ UNCHANGED queued
     \/ /\ AccountsNamed(MyName(u)) # {} \/ org[task[u].want] = NoName
        /\ Throw(u)
        /\ UNCHANGED <<account, member, top>>
  /\ UNCHANGED <<rows, pointers, org, content, bounds>>

\* Mutant: the column is not UNIQUE.
StoreShared(u) ==
  /\ At(u, "storeAccount")
  /\ accountOf' = [accountOf EXCEPT ![u] = task[u].id]
  /\ Go(u, "getOrgs")
  /\ UNCHANGED <<rows, orgOf, grafana, queued, bounds>>

\* setGrafanaUserId; the column is UNIQUE.
StoreAccount(u) ==
  /\ At(u, "storeAccount")
  /\ IF \E v \in Users \ {u} : accountOf[v] = task[u].id
       THEN Throw(u) /\ UNCHANGED accountOf
       ELSE /\ accountOf' = [accountOf EXCEPT ![u] = task[u].id]
            /\ Go(u, "getOrgs")
            /\ UNCHANGED queued
  /\ UNCHANGED <<rows, orgOf, grafana, bounds>>

\* Mutant: nothing is removed.
GetOrgsToAdd(u) ==
  /\ At(u, "getOrgs")
  /\ IF account[task[u].id] = NoName
       THEN Throw(u)
       ELSE Go(u, "addOrg") /\ UNCHANGED queued
  /\ UNCHANGED <<rows, pointers, grafana, bounds>>

\* getUserOrgs: the memberships to add and to remove.
GetOrgs(u) ==
  LET current == {o \in OrgIds : <<task[u].id, o>> \in member} IN
  /\ At(u, "getOrgs")
  /\ IF account[task[u].id] = NoName
       THEN Throw(u)
       ELSE /\ task' = [task EXCEPT ![u] =
                 [@ EXCEPT !.at = IF task[u].want \in current THEN "removeOrgs" ELSE "addOrg",
                           !.others = current \ {task[u].want}]]
            /\ UNCHANGED queued
  /\ UNCHANGED <<rows, pointers, grafana, bounds>>

\* addOrgUser names the account by its email.
AddOrg(u) ==
  /\ At(u, "addOrg")
  /\ \/ \E a \in AccountsNamed(MyName(u)) :
          /\ org[task[u].want] # NoName
          /\ member' = member \cup {<<a, task[u].want>>}
          /\ Go(u, "removeOrgs")
          /\ UNCHANGED queued
     \/ /\ AccountsNamed(MyName(u)) = {} \/ org[task[u].want] = NoName
        /\ Throw(u)
        /\ UNCHANGED member
  /\ UNCHANGED <<rows, pointers, org, account, content, top, bounds>>

RemoveOrgs(u) ==
  /\ At(u, "removeOrgs")
  /\ \/ \E o \in task[u].others :
          /\ member' = member \ {<<task[u].id, o>>}
          /\ task' = [task EXCEPT ![u].others = @ \ {o}]
          /\ UNCHANGED queued
     \/ /\ task[u].others = {}
        /\ Return(u)
        /\ UNCHANGED member
  /\ UNCHANGED <<rows, pointers, org, account, content, top, bounds>>

-----------------------------------------------------------------------------
(* Handler of a tenant                                                     *)

\* removeOrg has nothing to do for a tenant without org.
RemovedFrom(t) == IF orgOf[t] = None THEN "fanOut" ELSE "deleteOrg"

\* tenants.findById
ReadTenantRow(t) ==
  /\ Claim(t, [Idle EXCEPT !.ptr = orgOf[t],
                           !.at = IF tenant[t] = "active" THEN "ensureOrg" ELSE RemovedFrom(t)])
  /\ UNCHANGED <<rows, pointers, grafana, bounds>>

\* ensureOrg of the client.  Finding the org and creating it is one step:
\* nobody else makes an org of this name.
EnsureOrg(t) ==
  LET new == top.org + 1
      found == OrgsNamed(LiveName(t))
  IN /\ At(t, "ensureOrg")
     /\ \/ \E o \in found :
             /\ task' = [task EXCEPT ![t] = [@ EXCEPT !.at = "provision", !.id = o]]
             /\ UNCHANGED <<org, top>>
        \/ /\ found = {} /\ new \in OrgIds
           /\ org' = [org EXCEPT ![new] = LiveName(t)]
           /\ top' = [top EXCEPT !.org = new]
           /\ task' = [task EXCEPT ![t] = [@ EXCEPT !.at = "provision", !.id = new]]
     /\ UNCHANGED <<rows, pointers, account, member, content, queued, bounds>>

\* Where provisionOrg goes once the org has all it needs.
Provided(t) == IF task[t].id = task[t].ptr THEN "fanOut" ELSE "storeOrg"

\* What upsertDatasource and ensureDashboard leave in an org.
Datasources(o) == {<<o, "datasources">>}
Dashboards(o) == {<<o, "dashboards">>}

\* Their requests, one step here: nobody else fills or empties this org.  A
\* failure leaves what was done before it.
ProvisionOrg(t) ==
  LET o == task[t].id IN
  /\ At(t, "provision")
  /\ \/ /\ content' = content \cup Datasources(o) \cup Dashboards(o)
        /\ Go(t, Provided(t))
        /\ UNCHANGED <<queued, fails>>
     \/ /\ fails < MaxFails /\ fails' = fails + 1
        /\ content' = content \cup Datasources(o)
        /\ Throw(t)
  /\ UNCHANGED <<rows, pointers, org, account, member, top, changes>>

\* setGrafanaOrgId; the column is UNIQUE.
StoreOrg(t) ==
  /\ At(t, "storeOrg")
  /\ IF \E s \in Tenants \ {t} : orgOf[s] = task[t].id
       THEN Throw(t) /\ UNCHANGED orgOf
       ELSE /\ orgOf' = [orgOf EXCEPT ![t] = task[t].id]
            /\ Go(t, "fanOut")
            /\ UNCHANGED queued
  /\ UNCHANGED <<rows, accountOf, grafana, bounds>>

\* The org that is this tenant's by its name, the stored id first.
OwnOrgs(t) ==
  LET names == {LiveName(t), RetiredName(t)}
      stored == {o \in {task[t].ptr} \ {None} : org[o] \in names}
  IN IF stored # {} THEN stored
     ELSE IF OrgsNamed(LiveName(t)) # {} THEN OrgsNamed(LiveName(t))
     ELSE OrgsNamed(RetiredName(t))

\* findOwnOrg and deleteOrg: some versions of Grafana refuse.
DeleteOrg(t) ==
  /\ At(t, "deleteOrg")
  /\ \/ \E o \in OwnOrgs(t) :
          \/ /\ org' = [org EXCEPT ![o] = NoName]
             /\ member' = {m \in member : m[2] # o}
             /\ content' = {c \in content : c[1] # o}
             /\ Go(t, "clearOrg")
          \/ /\ task' = [task EXCEPT ![t] = [@ EXCEPT !.at = "retireOrg", !.id = o]]
             /\ UNCHANGED <<org, member, content>>
     \/ /\ OwnOrgs(t) = {}
        /\ Go(t, "clearOrg")
        /\ UNCHANGED <<org, member, content>>
  /\ UNCHANGED <<rows, pointers, account, top, queued, bounds>>

\* retireOrg lists the members, then removes them one by one.
RetireOrg(t) ==
  /\ At(t, "retireOrg")
  /\ IF org[task[t].id] = NoName THEN Throw(t)
     ELSE /\ task' = [task EXCEPT ![t].at = "emptyOrg",
               ![t].others = {a \in AccountIds : <<a, task[t].id>> \in member}]
          /\ UNCHANGED queued
  /\ UNCHANGED <<rows, pointers, grafana, bounds>>

\* Datasources, dashboards and folders, each as listed; gone is fine.
Dropped(t) == content \ (Datasources(task[t].id) \cup Dashboards(task[t].id))

EmptyOrg(t) ==
  /\ At(t, "emptyOrg")
  /\ \/ \E a \in task[t].others :
          /\ member' = member \ {<<a, task[t].id>>}
          /\ task' = [task EXCEPT ![t].others = @ \ {a}]
          /\ UNCHANGED content
     \/ /\ task[t].others = {}
        /\ content' = Dropped(t)
        /\ Go(t, "renameOrg")
        /\ UNCHANGED member
  /\ UNCHANGED <<rows, pointers, org, account, top, queued, bounds>>

\* Mutant: the org is named by the row's id.
RenameToId(t) ==
  /\ At(t, "renameOrg")
  /\ org' = [org EXCEPT ![task[t].id] = IF @ = NoName THEN @ ELSE t]
  /\ Go(t, "fanOut")
  /\ UNCHANGED <<rows, pointers, account, member, content, top, queued, bounds>>

RenameOrg(t) ==
  /\ At(t, "renameOrg")
  /\ org' = [org EXCEPT ![task[t].id] = IF @ = NoName THEN @ ELSE RetiredName(t)]
  /\ Go(t, "fanOut")
  /\ UNCHANGED <<rows, pointers, account, member, content, top, queued, bounds>>

ClearOrg(t) ==
  /\ At(t, "clearOrg")
  /\ orgOf' = [orgOf EXCEPT ![t] = None]
  /\ Go(t, "fanOut")
  /\ UNCHANGED <<rows, accountOf, grafana, queued, bounds>>

\* The rows of the tenant's users, deleted ones too.
Dependents(t) == {u \in UsersOf(t) : user[u] # "absent"}

\* The loop of enqueues; a failure in it may leave some of them done.
FanOut(t) ==
  /\ At(t, "fanOut")
  /\ task' = [task EXCEPT ![t] = Idle]
  /\ \/ /\ queued' = queued \cup Dependents(t)
        /\ UNCHANGED fails
     \/ /\ fails < MaxFails
        /\ fails' = fails + 1
        /\ \E done \in SUBSET Dependents(t) : queued' = queued \cup done \cup {t}
  /\ UNCHANGED <<rows, pointers, grafana, changes>>

-----------------------------------------------------------------------------
\* The provisioned tenant has org 1; the others have just been created.
Init ==
  /\ tenant = [t \in Tenants |-> "active"]
  /\ user = [u \in Users |-> "absent"]
  /\ orgOf = [t \in Tenants |-> IF t \in Provisioned THEN 1 ELSE None]
  /\ accountOf = [u \in Users |-> None]
  /\ org = [o \in OrgIds |->
       IF o <= Cardinality(Provisioned) THEN LiveName(CHOOSE t \in Provisioned : TRUE) ELSE NoName]
  /\ account = [a \in AccountIds |-> NoName]
  /\ member = {}
  /\ content = {1} \X {i \in Items : Provisioned # {}}
  /\ top = [org |-> Cardinality(Provisioned), account |-> 0]
  /\ queued = Tenants \ Provisioned
  /\ task = [k \in Tenants \cup Users |-> Idle]
  /\ changes = 0
  /\ fails = 0

SyncUser(u) ==
  \/ ReadUser(u) \/ ReadTenant(u) \/ DeleteAccount(u) \/ ClearAccount(u)
  \/ GetAccount(u) \/ Lookup(u) \/ Create(u) \/ StoreAccount(u)
  \/ GetOrgs(u) \/ AddOrg(u) \/ RemoveOrgs(u)

SyncTenant(t) ==
  \/ ReadTenantRow(t) \/ EnsureOrg(t) \/ ProvisionOrg(t) \/ StoreOrg(t)
  \/ DeleteOrg(t) \/ RetireOrg(t) \/ EmptyOrg(t) \/ RenameOrg(t)
  \/ ClearOrg(t) \/ FanOut(t)

Next ==
  \/ \E u \in Users : CreateUser(u) \/ ChangeUser(u) \/ SyncUser(u)
  \/ \E t \in Tenants : DeleteTenant(t) \/ SyncTenant(t)
  \/ \E k \in Tenants \cup Users : Resync(k) \/ Fail(k)

Spec == Init /\ [][Next]_vars

\* What is queued gets its turn, and a request that is ready is sent.
Fairness ==
  /\ \A u \in Users : SF_vars(SyncUser(u))
  /\ \A t \in Tenants : SF_vars(SyncTenant(t))

FairSpec == Spec /\ Fairness

-----------------------------------------------------------------------------
(* Properties                                                              *)

\* Every variable has its type.
TypeOK ==
  /\ tenant \in [Tenants -> {"active", "deleted"}]
  /\ user \in [Users -> UserStatus]
  /\ orgOf \in [Tenants -> OrgIds \cup {None}]
  /\ accountOf \in [Users -> AccountIds \cup {None}]
  /\ org \in [OrgIds -> OrgNames \cup {NoName}]
  /\ account \in [AccountIds -> Logins \cup {NoName}]
  /\ member \subseteq AccountIds \X OrgIds
  /\ content \subseteq OrgIds \X Items
  /\ top \in [org : OrgIds \cup {0}, account : AccountIds \cup {0}]
  /\ queued \subseteq Tenants \cup Users
  /\ task \in [Tenants \cup Users -> Task]
  /\ changes \in 0..MaxChanges
  /\ fails \in 0..MaxFails

Recorded(a) == \E u \in Users : accountOf[u] = a

\* Work on the row, or on its tenant, which leads to work on it.
Pending(u) == {u, TenantOf[u]} \cap (queued \cup Running) # {}

\* An account the database knows of, while it is a member of an org, belongs
\* to somebody who may be in it, or a sync that looks at it is still to come:
\* through reuse of a name, disabling and deletes, in whatever order handlers
\* of users and tenants run and fail (grafana-user.mirror.ts:31-41).
MembersAreEntitled ==
  \A a \in AccountIds, o \in OrgIds :
    <<a, o>> \in member /\ Recorded(a) =>
      \E u \in Users :
        /\ MyName(u) = account[a]
        /\ Pending(u) \/ (Wanted(u) /\ org[o] = LiveName(TenantOf[u]))

\* A handler never deletes an account that the database gives to another user,
\* although names, and with them accounts, pass from one user to the next
\* between what a handler reads and what it deletes.
DeletesOwn ==
  [][\A a \in AccountIds, u \in Users :
       /\ account[a] # NoName /\ account'[a] = NoName
       /\ accountOf[u] = a
       => At(u, "deleteAccount")]_vars

UserSettled(u) ==
  IF Wanted(u)
    THEN /\ accountOf[u] # None /\ account[accountOf[u]] = MyName(u)
         /\ {o \in OrgIds : <<accountOf[u], o>> \in member} = {orgOf[TenantOf[u]]}
    ELSE accountOf[u] = None

ContentOf(o) == {i \in Items : <<o, i>> \in content}

TenantSettled(t) ==
  IF tenant[t] = "active"
    THEN /\ orgOf[t] # None
         /\ org[orgOf[t]] = LiveName(t) /\ ContentOf(orgOf[t]) = Items
    ELSE orgOf[t] # None => org[orgOf[t]] = RetiredName(t) /\ ContentOf(orgOf[t]) = {}

AllSettled == (\A t \in Tenants : TenantSettled(t)) /\ (\A u \in Users : UserSettled(u))

\* Grafana ends up as the database wants it: every active user has the
\* account its row names and is in exactly its tenant's org, others have no
\* account on record; active tenants have a whole org, and one that could not
\* be deleted is renamed and empty.
Settles == <>[]AllSettled
=============================================================================
