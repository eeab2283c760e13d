------------------------- MODULE GrafanaMirrorProofs -------------------------
(***************************************************************************)
(* Theorems about the mirrors of tenants and users in Grafana: who is a    *)
(* member of an org, and whose account a handler deletes, for any number   *)
(* of tenants, users, handlers, changes and failures.                      *)
(***************************************************************************)
EXTENDS GrafanaMirror, FiniteSetTheorems, TLAPS

Keys == Tenants \cup Users

\* TypeOK without the bounds.
TaskTyped == task \in [Keys -> Task] /\ queued \subseteq Keys
Typed ==
  /\ tenant \in [Tenants -> {"active", "deleted"}]
  /\ user \in [Users -> UserStatus]
  /\ orgOf \in [Tenants -> OrgIds \cup {None}]
  /\ accountOf \in [Users -> AccountIds \cup {None}]
  /\ org \in [OrgIds -> OrgNames \cup {NoName}]
  /\ account \in [AccountIds -> Logins \cup {NoName}]
  /\ member \subseteq AccountIds \X OrgIds
  /\ content \subseteq OrgIds \X Items
  /\ top \in [org : OrgIds \cup {0}, account : AccountIds \cup {0}]
  /\ TaskTyped
BoundsTyped == changes \in 0..MaxChanges /\ fails \in 0..MaxFails

LEMMA TypeParts == (TypeOK <=> Typed /\ BoundsTyped) /\ (TypeOK' <=> Typed' /\ BoundsTyped')
  BY DEF TypeOK, Typed, BoundsTyped, TaskTyped, Keys

-----------------------------------------------------------------------------
(* The inductive invariant                                                 *)

UserSteps ==
  {"idle", "readTenant", "deleteAccount", "clearAccount", "getAccount", "lookup",
   "create", "storeAccount", "getOrgs", "addOrg", "removeOrgs"}
TenantSteps ==
  {"idle", "ensureOrg", "provision", "storeOrg", "deleteOrg",
   "retireOrg", "emptyOrg", "renameOrg", "clearOrg", "fanOut"}

\* The handler of a user still knows the id its row has,
KnowsPointer(u) ==
  /\ task[u].at \in UserSteps
  /\ task[u].ptr \in AccountIds \cup {None} /\ task[u].id \in AccountIds \cup {None}
  /\ task[u].at \in UserSteps \ {"idle", "getOrgs", "addOrg", "removeOrgs"} =>
       task[u].ptr = accountOf[u]
  /\ task[u].at = "deleteAccount" => task[u].ptr # None

\* and the account it works on is the user's own,
OwnAccount(u) ==
  /\ task[u].at \in {"storeAccount", "getOrgs"} =>
       task[u].id # None /\ account[task[u].id] \in {MyName(u), NoName}
  /\ task[u].at \in {"getOrgs", "addOrg", "removeOrgs"} => task[u].id = accountOf[u]
  /\ task[u].at \in {"addOrg", "removeOrgs"} =>
       /\ task[u].id # None /\ account[task[u].id] = MyName(u)
       /\ {o \in OrgIds : <<task[u].id, o>> \in member} \subseteq task[u].others \cup {task[u].want}

\* which may be in the org it has read, or the row is queued again.
WantsItsOrg(u) ==
  /\ task[u].at = "readTenant" => u \in queued \/ user[u] = "active"
  /\ task[u].at \in {"getAccount", "lookup", "create", "storeAccount", "getOrgs", "addOrg", "removeOrgs"} =>
       /\ task[u].want \in OrgIds
       /\ u \in queued \/ (Wanted(u) /\ org[task[u].want] = LiveName(TenantOf[u]))

\* The row of a user points to its own account or to none that is there.
OwnPointer(u) == accountOf[u] # None => account[accountOf[u]] \in {MyName(u), NoName}

\* A user whose row nobody has yet inserted has nothing.
NothingYet(u) == user[u] = "absent" => accountOf[u] = None /\ u \notin queued /\ task[u].at = "idle"

\* Its memberships are those of an active user, or looked at again.
Entitled(u) ==
  accountOf[u] # None =>
    \A o \in OrgIds : <<accountOf[u], o>> \in member =>
      Pending(u) \/ (Wanted(u) /\ org[o] = LiveName(TenantOf[u]))

UserInv(u) ==
  KnowsPointer(u) /\ OwnAccount(u) /\ WantsItsOrg(u) /\ OwnPointer(u) /\ NothingYet(u) /\ Entitled(u)

\* The handler of a tenant works on an org of its name, and takes an org away
\* from a deleted tenant only.
TenantInv(t) ==
  /\ task[t].at \in TenantSteps
  /\ task[t].ptr \in OrgIds \cup {None} /\ task[t].id \in OrgIds \cup {None}
  /\ task[t].at \in {"provision", "storeOrg"} => task[t].id # None /\ org[task[t].id] = LiveName(t)
  /\ task[t].at \in {"deleteOrg", "retireOrg", "emptyOrg", "renameOrg", "clearOrg"} => tenant[t] = "deleted"
  /\ task[t].at \in {"retireOrg", "emptyOrg", "renameOrg"} =>
       task[t].id # None /\ org[task[t].id] \in {LiveName(t), RetiredName(t)}
  /\ tenant[t] = "active" /\ orgOf[t] # None => org[orgOf[t]] = LiveName(t)

\* One account has a name, one row has an id, and ids are given out in order.
Apart ==
  /\ \A a, b \in AccountIds : account[a] = account[b] /\ account[a] # NoName => a = b
  /\ \A u, v \in Users : accountOf[u] = accountOf[v] /\ accountOf[u] # None => u = v
  /\ \A a \in AccountIds : account[a] # NoName => a <= top.account
  /\ \A u \in Users : accountOf[u] <= top.account /\ task[u].id <= top.account
  /\ \A o \in OrgIds : org[o] # NoName => o <= top.org
  /\ \A m \in member : account[m[1]] # NoName

Inv ==
  /\ Typed
  /\ \A u \in Users : UserInv(u)
  /\ \A t \in Tenants : TenantInv(t)
  /\ Apart

-----------------------------------------------------------------------------
(* Names, tasks and what a step may do to them                             *)

LEMMA NamesApart ==
  /\ \A s, t \in Tenants : LiveName(s) = LiveName(t) => s = t
  /\ \A s, t \in Tenants : RetiredName(s) = RetiredName(t) => s = t
  /\ \A s, t \in Tenants : LiveName(s) # RetiredName(t)
  /\ \A t \in Tenants : LiveName(t) # NoName /\ RetiredName(t) # NoName
  /\ \A u \in Users : MyName(u) # NoName /\ MyName(u) \in Logins
  BY DEF LiveName, RetiredName, NoName, MyName, Login, Logins

LEMMA Ids == /\ OrgIds \subseteq Nat \ {0} /\ AccountIds \subseteq Nat \ {0} /\ None = 0
             /\ \A u \in Users : TenantOf[u] \in Tenants
             /\ \A t \in Tenants, u \in Users : t # u
  BY GrafanaAssumption DEF None

LEMMA IdleTask ==
  /\ Idle \in Task /\ Idle.at = "idle" /\ Idle.ptr = None /\ Idle.id = None
  BY DEF Idle, Task, Steps

LEMMA PendingIs ==
  ASSUME Typed, NEW u \in Users
  PROVE  Pending(u) <=> \/ u \in queued \/ TenantOf[u] \in queued
                        \/ task[u].at # "idle" \/ task[TenantOf[u]].at # "idle"
  BY Ids DEF Pending, Running, At

LEMMA PendingThen ==
  ASSUME NEW u \in Users
  PROVE  Pending(u)' <=> \/ u \in queued' \/ TenantOf[u] \in queued'
                         \/ task'[u].at # "idle" \/ task'[TenantOf[u]].at # "idle"
  BY Ids DEF Pending, Running, At

\* Handlers of other rows stay where they are.
Others(k) == \A j \in Keys \ {k} : task'[j] = task[j]

\* A handler gets another task,
LEMMA TaskSet ==
  ASSUME TaskTyped, NEW k \in Keys, NEW r \in Task, task' = [task EXCEPT ![k] = r],
         queued' \subseteq Keys
  PROVE  TaskTyped' /\ Others(k) /\ task'[k] = r
  BY DEF TaskTyped, Others

\* or goes on with the one it has,
LEMMA TaskGoes ==
  ASSUME TaskTyped, NEW k \in Keys, NEW step \in Steps, Go(k, step), queued' \subseteq Keys
  PROVE  /\ TaskTyped' /\ Others(k) /\ task'[k].at = step
         /\ task'[k].ptr = task[k].ptr /\ task'[k].want = task[k].want
         /\ task'[k].id = task[k].id /\ task'[k].others = task[k].others
  BY DEF TaskTyped, Others, Go, Task

\* or ends.
LEMMA TaskEnds ==
  ASSUME TaskTyped, NEW k \in Keys, Return(k) \/ Throw(k)
  PROVE  /\ TaskTyped' /\ Others(k) /\ task'[k] = Idle
         /\ queued' = queued \/ queued' = queued \cup {k}
  BY IdleTask DEF TaskTyped, Others, Return, Throw

\* The ids of accounts and orgs are numbers, which nobody has yet above the last
\* one given out.
LEMMA Numbers ==
  ASSUME Inv
  PROVE  /\ OrgIds \subseteq Nat \ {0} /\ AccountIds \subseteq Nat \ {0} /\ None = 0
         /\ top.account \in Nat /\ top.org \in Nat
         /\ \A u \in Users : /\ accountOf[u] \in AccountIds \cup {None}
                            /\ accountOf[u] \in Nat /\ ~(accountOf[u] > top.account)
                            /\ task[u].id \in AccountIds \cup {None}
                            /\ task[u].id \in Nat /\ ~(task[u].id > top.account)
                            /\ task[u].ptr \in AccountIds \cup {None}
                            /\ user[u] \in UserStatus /\ TenantOf[u] \in Tenants
         /\ \A t \in Tenants : orgOf[t] \in OrgIds \cup {None}
  <1>1. OrgIds \subseteq Nat \ {0} /\ AccountIds \subseteq Nat \ {0} /\ None = 0
    BY Ids
  <1>2. top.account \in Nat /\ top.org \in Nat
    <2>1. top.account \in AccountIds \cup {0} /\ top.org \in OrgIds \cup {0}
      BY DEF Inv, Typed
    <2>2. \A i \in OrgIds \cup AccountIds \cup {0} : i \in Nat
      BY <1>1
    <2>3. top.account \in OrgIds \cup AccountIds \cup {0} /\ top.org \in OrgIds \cup AccountIds \cup {0}
      BY <2>1
    <2> QED BY <2>2, <2>3
  <1>3. ASSUME NEW u \in Users
        PROVE  /\ accountOf[u] \in AccountIds \cup {None} /\ task[u].id \in AccountIds \cup {None}
               /\ accountOf[u] <= top.account /\ task[u].id <= top.account
               /\ user[u] \in UserStatus /\ task[u].ptr \in AccountIds \cup {None}
    BY DEF Inv, Typed, Apart, UserInv, KnowsPointer
  <1>4. \A t \in Tenants : orgOf[t] \in OrgIds \cup {None}
    BY DEF Inv, Typed
  <1>5. ASSUME NEW u \in Users
        PROVE  /\ accountOf[u] \in Nat /\ ~(accountOf[u] > top.account)
               /\ task[u].id \in Nat /\ ~(task[u].id > top.account)
    <2>1. \A i \in AccountIds \cup {None} : i \in Nat
      BY <1>1
    <2>2. accountOf[u] \in Nat /\ task[u].id \in Nat
      BY <1>3, <2>1
    <2>3. \A i, j \in Nat : i <= j => ~(i > j)
      OBVIOUS
    <2> QED BY <1>2, <1>3, <2>2, <2>3
  <1>6. \A u \in Users : TenantOf[u] \in Tenants
    BY Ids
  <1> QED BY <1>1, <1>2, <1>3, <1>4, <1>5, <1>6

-----------------------------------------------------------------------------
(* What a step of one row leaves alone of the others                       *)

\* An account stays, goes by the handler of the row that has it, or is new.
AccountStep ==
  \A a \in AccountIds :
    \/ account'[a] = account[a]
    \/ account'[a] = NoName /\ \E w \in Users : task[w].at = "deleteAccount" /\ accountOf[w] = a
    \/ a > top.account

\* Nobody becomes a member but a new account, and the one of a handler that
\* adds it and goes on.
MemberStep ==
  \A m \in member' :
    \/ m \in member
    \/ m[1] > top.account
    \/ \E w \in Users : /\ task[w].at = "addOrg" /\ task'[w].at # "addOrg"
                        /\ accountOf[w] = m[1]

\* An org stays, is new, or is taken from its deleted tenant by that handler.
OrgStep ==
  \A o \in OrgIds :
    \/ org'[o] = org[o]
    \/ org[o] = NoName
    \/ \E s \in Tenants : /\ tenant[s] = "deleted" /\ task'[s] # task[s]
                          /\ org[o] \in {LiveName(s), RetiredName(s)}

\* What may happen to the row of a user: a change is enqueued for it or for its
\* tenant.
RowStep(u) ==
  /\ user[u] # "absent" => user'[u] # "absent"
  /\ user'[u] = "absent" => (u \in queued' => u \in queued)
  /\ u \in queued => u \in queued'
  /\ user[u] = "active" => user'[u] = "active" \/ u \in queued'
  /\ Wanted(u) => Wanted(u)' \/ u \in queued'
  /\ accountOf[u] # None => (Pending(u) => Pending(u)')

LEMMA LiveOrgsStay ==
  ASSUME Inv, OrgStep
  PROVE  \A t \in Tenants, o \in OrgIds :
           tenant[t] = "active" /\ org[o] = LiveName(t) => org'[o] = LiveName(t)
  BY NamesApart DEF OrgStep

\* A user whose handler does nothing keeps its invariant.
LEMMA UserRests ==
  ASSUME Inv, NEW u \in Users, task'[u] = task[u], accountOf'[u] = accountOf[u], RowStep(u),
         AccountStep, MemberStep, OrgStep
  PROVE  UserInv(u)'
  <1>1. /\ KnowsPointer(u) /\ OwnAccount(u) /\ WantsItsOrg(u) /\ OwnPointer(u)
        /\ NothingYet(u) /\ Entitled(u)
    BY DEF Inv, UserInv
  <1>2. /\ TenantOf[u] \in Tenants /\ None = 0
        /\ accountOf[u] \in AccountIds \cup {None} /\ task[u].id \in AccountIds \cup {None}
        /\ ~(accountOf[u] > top.account) /\ ~(task[u].id > top.account)
    BY Numbers
  <1>3. \A w \in Users : accountOf[w] = accountOf[u] /\ accountOf[u] # None => w = u
    BY DEF Inv, Apart
  <1>4. ASSUME accountOf[u] # None
        PROVE  \/ account'[accountOf[u]] = account[accountOf[u]]
               \/ account'[accountOf[u]] = NoName /\ task[u].at = "deleteAccount"
    BY <1>2, <1>3, <1>4 DEF AccountStep
  <1>5. ASSUME accountOf[u] # None, NEW o \in OrgIds, <<accountOf[u], o>> \in member'
        PROVE  <<accountOf[u], o>> \in member
    <2> DEFINE m == <<accountOf[u], o>>
    <2>1. \/ m \in member \/ m[1] > top.account
          \/ \E w \in Users : /\ task[w].at = "addOrg" /\ task'[w].at # "addOrg"
                              /\ accountOf[w] = m[1]
      BY <1>5 DEF MemberStep
    <2> QED BY <1>2, <1>3, <1>5, <2>1
  <1>6. KnowsPointer(u)'
    BY <1>1 DEF KnowsPointer
  <1>7. OwnAccount(u)'
    <2>1. task[u].id # None =>
            account'[task[u].id] = account[task[u].id] \/ account'[task[u].id] = NoName
      BY <1>2 DEF AccountStep
    <2>2. task[u].at \in {"addOrg", "removeOrgs"} => account'[task[u].id] = account[task[u].id]
      BY <1>1, <1>4 DEF OwnAccount
    <2>3. task[u].at \in {"addOrg", "removeOrgs"} =>
            {o \in OrgIds : <<task[u].id, o>> \in member'} \subseteq task[u].others \cup {task[u].want}
      BY <1>1, <1>5 DEF OwnAccount
    <2>4. MyName(u)' = MyName(u)
      BY DEF MyName
    <2> QED BY <1>1, <2>1, <2>2, <2>3, <2>4 DEF OwnAccount
  <1>8. WantsItsOrg(u)'
    <2>1. Wanted(u) => tenant[TenantOf[u]] = "active"
      BY DEF Wanted
    <2>2. Wanted(u) /\ task[u].want \in OrgIds /\ org[task[u].want] = LiveName(TenantOf[u])
            => org'[task[u].want] = LiveName(TenantOf[u])
      BY <1>2, <2>1, LiveOrgsStay
    <2> QED BY <1>1, <2>2 DEF WantsItsOrg, RowStep
  <1>9. OwnPointer(u)'
    BY <1>1, <1>4 DEF OwnPointer, MyName
  <1>10. NothingYet(u)'
    BY <1>1 DEF NothingYet, RowStep
  <1>11. Entitled(u)'
    <2> SUFFICES ASSUME accountOf[u] # None, NEW o \in OrgIds, <<accountOf[u], o>> \in member'
                 PROVE  Pending(u)' \/ (Wanted(u)' /\ org'[o] = LiveName(TenantOf[u]))
      BY DEF Entitled
    <2>1. Pending(u) \/ (Wanted(u) /\ org[o] = LiveName(TenantOf[u]))
      BY <1>1, <1>5 DEF Entitled
    <2>2. Wanted(u) /\ org[o] = LiveName(TenantOf[u]) => org'[o] = LiveName(TenantOf[u])
      BY <1>2, LiveOrgsStay DEF Wanted
    <2> QED BY <2>1, <2>2, PendingThen DEF RowStep
  <1> QED BY <1>6, <1>7, <1>8, <1>9, <1>10, <1>11 DEF UserInv

\* So does a tenant: no other handler takes its org.
LEMMA TenantRests ==
  ASSUME Inv, NEW t \in Tenants, task'[t] = task[t], orgOf'[t] = orgOf[t],
         tenant'[t] \in {tenant[t], "deleted"}, OrgStep
  PROVE  TenantInv(t)'
  <1>1. TenantInv(t) /\ orgOf[t] \in OrgIds \cup {None}
    BY DEF Inv, Typed
  <1>2. \A o \in OrgIds : org[o] \in {LiveName(t), RetiredName(t)} => org'[o] = org[o]
    BY NamesApart DEF OrgStep
  <1> QED BY <1>1, <1>2 DEF TenantInv

\* What is apart stays apart while nobody gets an account or an org.
LEMMA ApartRests ==
  ASSUME Inv, UNCHANGED <<accountOf, account, org, top>>,
         \A u \in Users : task'[u].id = task[u].id \/ task'[u].id <= top.account,
         \A m \in member' : account[m[1]] # NoName
  PROVE  Apart'
  BY DEF Inv, Apart
LEMMA NothingMoves ==
  /\ UNCHANGED org => OrgStep
  /\ UNCHANGED account => AccountStep
  /\ member' \subseteq member => MemberStep
  BY DEF OrgStep, AccountStep, MemberStep

\* A step of the handler of a user is nobody else's.
LEMMA UserMoves ==
  ASSUME Inv, NEW u \in Users, Others(u), Typed', Apart', UserInv(u)',
         UNCHANGED <<rows, orgOf, org>>, \A k \in Keys \ {u} : k \in queued' <=> k \in queued,
         \A v \in Users \ {u} : accountOf'[v] = accountOf[v],
         AccountStep, MemberStep
  PROVE  Inv'
  <1>1. OrgStep /\ tenant' = tenant /\ user' = user /\ orgOf' = orgOf
    BY NothingMoves DEF rows
  <1>2. ASSUME NEW v \in Users \ {u}
        PROVE  UserInv(v)'
    <2>1. task'[v] = task[v] /\ TenantOf[v] \in Tenants /\ TenantOf[v] # u
      BY Ids DEF Others, Keys
    <2>2. task'[TenantOf[v]] = task[TenantOf[v]] /\ (TenantOf[v] \in queued' <=> TenantOf[v] \in queued)
      BY <2>1 DEF Others, Keys
    <2>3. v \in queued' <=> v \in queued
      BY DEF Keys
    <2>4. Typed
      BY DEF Inv
    <2>5. Pending(v) => Pending(v)'
      BY <2>1, <2>2, <2>3, <2>4, PendingIs, PendingThen
    <2>6. RowStep(v)
      BY <1>1, <2>3, <2>5 DEF RowStep, Wanted
    <2> QED BY <1>1, <2>1, <2>6, UserRests
  <1>3. ASSUME NEW t \in Tenants
        PROVE  TenantInv(t)'
    <2>1. task'[t] = task[t]
      BY Ids DEF Others, Keys
    <2> QED BY <1>1, <2>1, TenantRests
  <1> QED BY <1>2, <1>3 DEF Inv

-----------------------------------------------------------------------------
(* Steps of the handler of a user                                          *)

\* What holds of a user whose handler runs.
LEMMA Works ==
  ASSUME Inv, NEW u \in Users, task[u].at # "idle" \/ u \in queued
  PROVE  user[u] # "absent" /\ u \in Keys /\ TaskTyped /\ task[u] \in Task
  BY DEF Inv, UserInv, NothingYet, Keys, Typed, TaskTyped

LEMMA UserThrows ==
  ASSUME Inv, NEW u \in Users, task[u].at # "idle", Throw(u), UNCHANGED <<rows, pointers, grafana>>
  PROVE  Inv'
  <1>1. user[u] # "absent" /\ u \in Keys /\ TaskTyped
    BY Works
  <1>2. TaskTyped' /\ Others(u) /\ task'[u] = Idle /\ queued' = queued \cup {u}
    BY <1>1, TaskEnds DEF Throw
  <1>3. Typed'
    BY <1>2 DEF Inv, Typed, rows, pointers, grafana
  <1>4. AccountStep /\ MemberStep
    BY NothingMoves DEF grafana
  <1>5. Apart'
    <2>1. \A v \in Users : task'[v].id = task[v].id \/ task'[v].id <= top.account
      BY <1>2, Numbers, IdleTask DEF Others, Keys
    <2> QED BY <2>1, ApartRests DEF pointers, grafana, Inv, Apart
  <1>6. UserInv(u)'
    <2>1. KnowsPointer(u)'
      BY <1>2, IdleTask DEF KnowsPointer, UserSteps
    <2>2. OwnAccount(u)' /\ WantsItsOrg(u)' /\ NothingYet(u)'
      BY <1>1, <1>2, IdleTask DEF OwnAccount, WantsItsOrg, NothingYet, rows
    <2>3. OwnPointer(u)'
      BY DEF Inv, UserInv, OwnPointer, pointers, grafana, MyName
    <2>4. Entitled(u)'
      BY <1>2, PendingThen DEF Entitled
    <2> QED BY <2>1, <2>2, <2>3, <2>4 DEF UserInv
  <1> QED BY <1>2, <1>3, <1>4, <1>5, <1>6, UserMoves DEF pointers, grafana

LEMMA ReadUserInv ==
  ASSUME Inv, NEW u \in Users, ReadUser(u)
  PROVE  Inv'
  <1> DEFINE step == IF user[u] = "active" THEN "readTenant" ELSE Unwanted(u)
  <1> DEFINE r == [Idle EXCEPT !.at = step, !.ptr = accountOf[u]]
  <1>1. /\ u \in queued /\ queued' = queued \ {u} /\ task' = [task EXCEPT ![u] = r]
        /\ UNCHANGED <<rows, pointers, grafana>>
    BY DEF ReadUser, Claim
  <1>2. user[u] # "absent" /\ u \in Keys /\ TaskTyped
    BY <1>1, Works
  <1>3. step \in {"readTenant", "idle", "deleteAccount"} /\ accountOf[u] \in AccountIds \cup {None}
    BY Numbers DEF Unwanted
  <1>4. r \in Task /\ r.at = step /\ r.ptr = accountOf[u] /\ r.id = None
    BY <1>3 DEF Idle, Task, Steps
  <1>5. /\ step = "readTenant" => user[u] = "active"
        /\ step = "deleteAccount" => accountOf[u] # None
        /\ step = "idle" => accountOf[u] = None
    BY DEF Unwanted
  <1>6. \E k : k = r
    OBVIOUS
  <1>7. PICK k : k = r
    BY <1>6
  <1> HIDE DEF r, step
  <1>8. TaskTyped' /\ Others(u) /\ task'[u] = k
    BY <1>1, <1>2, <1>4, <1>7, TaskSet DEF TaskTyped
  <1>9. Typed'
    BY <1>1, <1>8 DEF Inv, Typed, rows, pointers, grafana
  <1>10. AccountStep /\ MemberStep
    BY <1>1, NothingMoves DEF grafana
  <1>11. Apart'
    <2>1. \A v \in Users : task'[v].id = task[v].id \/ task'[v].id <= top.account
      BY <1>4, <1>7, <1>8, Numbers DEF Others, Keys
    <2> QED BY <1>1, <2>1, ApartRests DEF pointers, grafana, Inv, Apart
  <1>12. UserInv(u)'
    <2>0. accountOf' = accountOf /\ user' = user /\ account' = account
      BY <1>1 DEF rows, pointers, grafana
    <2>1. KnowsPointer(u)'
      BY <1>3, <1>4, <1>5, <1>7, <1>8, <2>0 DEF KnowsPointer, UserSteps
    <2>2. OwnAccount(u)' /\ WantsItsOrg(u)' /\ NothingYet(u)'
      BY <1>2, <1>3, <1>4, <1>5, <1>7, <1>8, <2>0 DEF OwnAccount, WantsItsOrg, NothingYet
    <2>3. OwnPointer(u)'
      BY <2>0 DEF Inv, UserInv, OwnPointer, MyName
    <2>4. Entitled(u)'
      BY <1>4, <1>5, <1>7, <1>8, <2>0, PendingThen DEF Entitled
    <2> QED BY <2>1, <2>2, <2>3, <2>4 DEF UserInv
  <1> QED BY <1>1, <1>8, <1>9, <1>10, <1>11, <1>12, UserMoves DEF pointers, grafana
\* A handler that only looks, and goes on.
LEMMA UserGoes ==
  ASSUME Inv, NEW u \in Users, NEW r \in Task, task[u].at # "idle", r.at # "idle",
         task' = [task EXCEPT ![u] = r], r.id = task[u].id \/ r.id <= top.account,
         UNCHANGED <<rows, pointers, grafana, queued>>,
         TaskTyped' /\ Others(u) /\ task'[u] = r =>
           KnowsPointer(u)' /\ OwnAccount(u)' /\ WantsItsOrg(u)'
  PROVE  Inv'
  <1>1. user[u] # "absent" /\ u \in Keys /\ TaskTyped
    BY Works
  <1>2. TaskTyped' /\ Others(u) /\ task'[u] = r
    BY <1>1, TaskSet DEF TaskTyped
  <1>3. Typed'
    BY <1>2 DEF Inv, Typed, rows, pointers, grafana
  <1>4. AccountStep /\ MemberStep
    BY NothingMoves DEF grafana
  <1>5. Apart'
    <2>1. \A v \in Users : task'[v].id = task[v].id \/ task'[v].id <= top.account
      BY <1>2 DEF Others, Keys
    <2> QED BY <2>1, ApartRests DEF pointers, grafana, Inv, Apart
  <1>6. UserInv(u)'
    <2>1. NothingYet(u)'
      BY <1>1 DEF NothingYet, rows
    <2>2. OwnPointer(u)'
      BY DEF Inv, UserInv, OwnPointer, pointers, grafana, MyName
    <2>3. Entitled(u)'
      BY <1>2, PendingThen DEF Entitled
    <2> QED BY <1>2, <2>1, <2>2, <2>3 DEF UserInv
  <1> QED BY <1>2, <1>3, <1>4, <1>5, <1>6, UserMoves DEF pointers, grafana

LEMMA ReadTenantInv ==
  ASSUME Inv, NEW u \in Users, ReadTenant(u)
  PROVE  Inv'
  <1> DEFINE t == TenantOf[u]
  <1>1. task[u].at = "readTenant" /\ UNCHANGED <<rows, pointers, grafana>>
    BY DEF ReadTenant, At
  <1>2. /\ user[u] # "absent" /\ u \in Keys /\ TaskTyped /\ task[u] \in Task
        /\ t \in Tenants /\ tenant[t] \in {"active", "deleted"}
    BY <1>1, Works, Ids DEF Inv, Typed
  <1>3. KnowsPointer(u) /\ OwnAccount(u) /\ WantsItsOrg(u)
    BY DEF Inv, UserInv
  <1>4. task[u].ptr = accountOf[u]
    BY <1>1, <1>3 DEF KnowsPointer, UserSteps
  <1>5. accountOf' = accountOf /\ account' = account /\ user' = user /\ tenant' = tenant
        /\ org' = org /\ member' = member
    BY <1>1 DEF rows, pointers, grafana
  <1>6. CASE /\ tenant[t] = "active" /\ orgOf[t] # None
             /\ task' = [task EXCEPT ![u] = [@ EXCEPT !.at = "getAccount", !.want = orgOf[t]]]
             /\ UNCHANGED queued
    <2> DEFINE r == [task[u] EXCEPT !.at = "getAccount", !.want = orgOf[t]]
    <2>1. orgOf[t] \in OrgIds /\ org[orgOf[t]] = LiveName(t)
      BY <1>2, <1>6, Numbers DEF Inv, TenantInv
    <2>2. r \in Task /\ r.at = "getAccount" /\ r.want = orgOf[t] /\ r.ptr = task[u].ptr /\ r.id = task[u].id
      BY <1>2, <2>1 DEF Task, Steps
    <2>3. task' = [task EXCEPT ![u] = r]
      BY <1>2, <1>6 DEF TaskTyped
    <2>4. \E k : k = r
      OBVIOUS
    <2>5. PICK k : k = r
      BY <2>4
    <2> HIDE DEF r
    <2>6. ASSUME task'[u] = k
          PROVE  KnowsPointer(u)' /\ OwnAccount(u)' /\ WantsItsOrg(u)'
      <3>1. KnowsPointer(u)'
        BY <1>3, <1>4, <1>5, <2>2, <2>5, <2>6 DEF KnowsPointer, UserSteps
      <3>2. OwnAccount(u)'
        BY <2>2, <2>5, <2>6 DEF OwnAccount
      <3>3. WantsItsOrg(u)'
        <4>1. u \in queued \/ Wanted(u)
          BY <1>1, <1>3, <1>6 DEF WantsItsOrg, Wanted
        <4> QED BY <1>5, <1>6, <2>1, <2>2, <2>5, <2>6, <4>1 DEF WantsItsOrg, Wanted
      <3> QED BY <3>1, <3>2, <3>3
    <2> QED BY <1>1, <1>6, <2>2, <2>3, <2>5, <2>6, UserGoes
  <1>7. CASE Throw(u)
    BY <1>1, <1>7, UserThrows
  <1>8. CASE tenant[t] # "active" /\ task[u].ptr = None /\ Return(u)
    <2>1. TaskTyped' /\ Others(u) /\ task'[u] = Idle /\ queued' = queued
      BY <1>2, <1>8, TaskEnds DEF Return
    <2>2. Typed'
      BY <1>1, <2>1 DEF Inv, Typed, rows, pointers, grafana
    <2>3. AccountStep /\ MemberStep
      BY <1>5, NothingMoves
    <2>4. Apart'
      <3>1. \A v \in Users : task'[v].id = task[v].id \/ task'[v].id <= top.account
        BY <2>1, Numbers, IdleTask DEF Others, Keys
      <3> QED BY <1>1, <3>1, ApartRests DEF pointers, grafana, Inv, Apart
    <2>5. UserInv(u)'
      <3>1. KnowsPointer(u)'
        BY <2>1, IdleTask DEF KnowsPointer, UserSteps
      <3>2. OwnAccount(u)' /\ WantsItsOrg(u)' /\ NothingYet(u)'
        BY <1>2, <1>5, <2>1, IdleTask DEF OwnAccount, WantsItsOrg, NothingYet
      <3>3. OwnPointer(u)' /\ Entitled(u)'
        BY <1>4, <1>5, <1>8 DEF OwnPointer, Entitled
      <3> QED BY <3>1, <3>2, <3>3 DEF UserInv
    <2> QED BY <1>1, <2>1, <2>2, <2>3, <2>4, <2>5, UserMoves DEF pointers, grafana
  <1>9. CASE tenant[t] # "active" /\ task[u].ptr # None /\ Go(u, "deleteAccount") /\ UNCHANGED queued
    <2> DEFINE r == [task[u] EXCEPT !.at = "deleteAccount"]
    <2>1. r \in Task /\ r.at = "deleteAccount" /\ r.ptr = task[u].ptr /\ r.id = task[u].id
      BY <1>2 DEF Task, Steps
    <2>2. task' = [task EXCEPT ![u] = r]
      BY <1>2, <1>9 DEF TaskTyped, Go
    <2>3. \E k : k = r
      OBVIOUS
    <2>4. PICK k : k = r
      BY <2>3
    <2> HIDE DEF r
    <2>5. ASSUME task'[u] = k
          PROVE  KnowsPointer(u)' /\ OwnAccount(u)' /\ WantsItsOrg(u)'
      BY <1>3, <1>4, <1>5, <1>9, <2>1, <2>4, <2>5 DEF KnowsPointer, UserSteps, OwnAccount, WantsItsOrg
    <2> QED BY <1>1, <1>9, <2>1, <2>2, <2>4, <2>5, UserGoes
  <1> QED BY <1>6, <1>7, <1>8, <1>9 DEF ReadTenant
\* A handler that changes something, and goes on.
LEMMA UserWorks ==
  ASSUME Inv, NEW u \in Users, task[u].at # "idle", task'[u].at # "idle", Others(u),
         UNCHANGED <<rows, orgOf, org, queued>>, \A v \in Users \ {u} : accountOf'[v] = accountOf[v],
         AccountStep, MemberStep, Typed', Apart',
         KnowsPointer(u)', OwnAccount(u)', WantsItsOrg(u)', OwnPointer(u)'
  PROVE  Inv'
  <1>1. NothingYet(u)'
    BY Works DEF NothingYet, rows
  <1>2. Entitled(u)'
    BY PendingThen DEF Entitled
  <1> QED BY <1>1, <1>2, UserMoves DEF UserInv

LEMMA GetAccountInv ==
  ASSUME Inv, NEW u \in Users, GetAccount(u)
  PROVE  Inv'
  <1> DEFINE r == IF Trusted(u) THEN [task[u] EXCEPT !.at = "getOrgs", !.id = task[u].ptr]
                                ELSE [task[u] EXCEPT !.at = "lookup"]
  <1>1. task[u].at = "getAccount" /\ UNCHANGED <<rows, pointers, grafana, queued>>
    BY DEF GetAccount, At
  <1>2. u \in Keys /\ TaskTyped /\ task[u] \in Task
    BY <1>1, Works
  <1>3. KnowsPointer(u) /\ WantsItsOrg(u) /\ task[u].ptr = accountOf[u] /\ accountOf[u] <= top.account
    BY <1>1 DEF Inv, UserInv, KnowsPointer, UserSteps, Apart
  <1>4. /\ r \in Task /\ r.at = (IF Trusted(u) THEN "getOrgs" ELSE "lookup") /\ r.ptr = task[u].ptr
        /\ r.want = task[u].want /\ r.id = (IF Trusted(u) THEN task[u].ptr ELSE task[u].id)
    BY <1>2 DEF Task, Steps
  <1>5. task' = [task EXCEPT ![u] = r]
    BY <1>2 DEF TaskTyped, GetAccount
  <1>6. accountOf' = accountOf /\ account' = account /\ user' = user /\ tenant' = tenant
        /\ org' = org /\ member' = member /\ queued' = queued
    BY <1>1 DEF rows, pointers, grafana
  <1>7. \E k : k = r
    OBVIOUS
  <1>8. PICK k : k = r
    BY <1>7
  <1> HIDE DEF r
  <1>9. ASSUME task'[u] = k
        PROVE  KnowsPointer(u)' /\ OwnAccount(u)' /\ WantsItsOrg(u)'
    <2>1. KnowsPointer(u)'
      BY <1>1, <1>3, <1>4, <1>6, <1>8, <1>9 DEF KnowsPointer, UserSteps
    <2>2. OwnAccount(u)'
      BY <1>3, <1>4, <1>6, <1>8, <1>9 DEF OwnAccount, Trusted, MyName
    <2>3. WantsItsOrg(u)'
      BY <1>1, <1>3, <1>4, <1>6, <1>8, <1>9 DEF WantsItsOrg, Wanted
    <2> QED BY <2>1, <2>2, <2>3
  <1> QED BY <1>1, <1>3, <1>4, <1>5, <1>8, <1>9, UserGoes

LEMMA EnsuredIs ==
  ASSUME NEW u \in Users, task[u] \in Task, NEW a \in AccountIds
  PROVE  /\ Ensured(u, a) \in Task
         /\ Ensured(u, a).at = (IF a = task[u].ptr THEN "getOrgs" ELSE "storeAccount")
         /\ Ensured(u, a).ptr = task[u].ptr /\ Ensured(u, a).id = a /\ Ensured(u, a).want = task[u].want
  BY DEF Ensured, Task, Steps

LEMMA LookupInv ==
  ASSUME Inv, NEW u \in Users, Lookup(u)
  PROVE  Inv'
  <1>1. task[u].at = "lookup" /\ UNCHANGED <<rows, pointers, grafana, queued>>
    BY DEF Lookup, At
  <1>2. u \in Keys /\ TaskTyped /\ task[u] \in Task
    BY <1>1, Works
  <1>3. KnowsPointer(u) /\ WantsItsOrg(u) /\ task[u].ptr = accountOf[u]
    BY <1>1 DEF Inv, UserInv, KnowsPointer, UserSteps
  <1>4. accountOf' = accountOf /\ account' = account /\ user' = user /\ tenant' = tenant
        /\ org' = org /\ member' = member /\ queued' = queued
    BY <1>1 DEF rows, pointers, grafana
  <1>5. ASSUME NEW a \in AccountsNamed(MyName(u)), task' = [task EXCEPT ![u] = Ensured(u, a)]
        PROVE  Inv'
    <2>1. a \in AccountIds /\ account[a] = MyName(u) /\ a <= top.account /\ a # None
      BY NamesApart, Numbers DEF AccountsNamed, Inv, Apart
    <2>2. \E k : k = Ensured(u, a)
      OBVIOUS
    <2>3. PICK k : k = Ensured(u, a)
      BY <2>2
    <2>4. /\ k \in Task /\ k.at = (IF a = task[u].ptr THEN "getOrgs" ELSE "storeAccount")
          /\ k.ptr = task[u].ptr /\ k.id = a /\ k.want = task[u].want
      BY <1>2, <2>1, <2>3, EnsuredIs
    <2>5. ASSUME task'[u] = k
          PROVE  KnowsPointer(u)' /\ OwnAccount(u)' /\ WantsItsOrg(u)'
      <3>1. KnowsPointer(u)'
        BY <1>1, <1>3, <1>4, <2>1, <2>4, <2>5 DEF KnowsPointer, UserSteps
      <3>2. OwnAccount(u)'
        BY <1>3, <1>4, <2>1, <2>4, <2>5 DEF OwnAccount, MyName
      <3>3. WantsItsOrg(u)'
        BY <1>1, <1>3, <1>4, <2>4, <2>5 DEF WantsItsOrg, Wanted
      <3> QED BY <3>1, <3>2, <3>3
    <2> QED BY <1>1, <1>5, <2>1, <2>3, <2>4, <2>5, UserGoes
  <1>6. ASSUME Go(u, "create")
        PROVE  Inv'
    <2> DEFINE r == [task[u] EXCEPT !.at = "create"]
    <2>1. r \in Task /\ r.at = "create" /\ r.ptr = task[u].ptr /\ r.id = task[u].id /\ r.want = task[u].want
      BY <1>2 DEF Task, Steps
    <2>2. task' = [task EXCEPT ![u] = r]
      BY <1>2, <1>6 DEF TaskTyped, Go
    <2>3. \E k : k = r
      OBVIOUS
    <2>4. PICK k : k = r
      BY <2>3
    <2> HIDE DEF r
    <2>5. ASSUME task'[u] = k
          PROVE  KnowsPointer(u)' /\ OwnAccount(u)' /\ WantsItsOrg(u)'
      <3>1. KnowsPointer(u)' /\ OwnAccount(u)'
        BY <1>3, <1>4, <2>1, <2>4, <2>5 DEF KnowsPointer, UserSteps, OwnAccount
      <3>2. WantsItsOrg(u)'
        BY <1>1, <1>3, <1>4, <2>1, <2>4, <2>5 DEF WantsItsOrg, Wanted
      <3> QED BY <3>1, <3>2
    <2> QED BY <1>1, <1>6, <2>1, <2>2, <2>4, <2>5, UserGoes
  <1> QED BY <1>5, <1>6 DEF Lookup

LEMMA GetOrgsInv ==
  ASSUME Inv, NEW u \in Users, GetOrgs(u)
  PROVE  Inv'
  <1> DEFINE current == {o \in OrgIds : <<task[u].id, o>> \in member}
  <1> DEFINE r == [task[u] EXCEPT !.at = IF task[u].want \in current THEN "removeOrgs" ELSE "addOrg",
                                  !.others = current \ {task[u].want}]
  <1>1. task[u].at = "getOrgs" /\ UNCHANGED <<rows, pointers, grafana>>
    BY DEF GetOrgs, At
  <1>2. u \in Keys /\ TaskTyped /\ task[u] \in Task
    BY <1>1, Works
  <1>3. KnowsPointer(u) /\ WantsItsOrg(u) /\ OwnAccount(u)
    BY DEF Inv, UserInv
  <1>4. accountOf' = accountOf /\ account' = account /\ user' = user /\ tenant' = tenant
        /\ org' = org /\ member' = member
    BY <1>1 DEF rows, pointers, grafana
  <1>5. CASE account[task[u].id] = NoName
    <2>1. Throw(u)
      BY <1>5 DEF GetOrgs
    <2> QED BY <1>1, <2>1, UserThrows
  <1>6. CASE account[task[u].id] # NoName
    <2>1. UNCHANGED queued /\ task' = [task EXCEPT ![u] = r]
      BY <1>2, <1>6 DEF GetOrgs, TaskTyped
    <2>2. /\ r \in Task /\ r.at = (IF task[u].want \in current THEN "removeOrgs" ELSE "addOrg")
          /\ r.ptr = task[u].ptr /\ r.id = task[u].id /\ r.want = task[u].want
          /\ r.others = current \ {task[u].want}
      BY <1>2 DEF Task, Steps
    <2>3. \E k : k = r
      OBVIOUS
    <2>4. PICK k : k = r
      BY <2>3
    <2> HIDE DEF r
    <2>5. ASSUME task'[u] = k
          PROVE  KnowsPointer(u)' /\ OwnAccount(u)' /\ WantsItsOrg(u)'
      <3>1. KnowsPointer(u)'
        BY <1>3, <1>4, <2>2, <2>4, <2>5 DEF KnowsPointer, UserSteps
      <3>2. OwnAccount(u)'
        <4>1. task[u].id # None /\ account[task[u].id] = MyName(u) /\ task[u].id = accountOf[u]
          BY <1>1, <1>3, <1>6 DEF OwnAccount
        <4>2. {o \in OrgIds : <<k.id, o>> \in member'} \subseteq k.others \cup {k.want}
          BY <1>4, <2>2, <2>4
        <4> QED BY <1>4, <2>2, <2>4, <2>5, <4>1, <4>2 DEF OwnAccount, MyName
      <3>3. WantsItsOrg(u)'
        BY <1>1, <1>3, <1>4, <2>1, <2>2, <2>4, <2>5 DEF WantsItsOrg, Wanted
      <3> QED BY <3>1, <3>2, <3>3
    <2> QED BY <1>1, <2>1, <2>2, <2>4, <2>5, UserGoes
  <1> QED BY <1>5, <1>6
LEMMA DeleteAccountInv ==
  ASSUME Inv, NEW u \in Users, DeleteAccount(u)
  PROVE  Inv'
  <1> DEFINE p == task[u].ptr
  <1>1. /\ task[u].at = "deleteAccount" /\ Go(u, "clearAccount")
        /\ account' = [account EXCEPT ![p] = NoName] /\ member' = {m \in member : m[1] # p}
        /\ UNCHANGED <<rows, pointers, org, content, top, queued>>
    BY DEF DeleteAccount, At
  <1>2. u \in Keys /\ TaskTyped /\ queued \subseteq Keys
    BY <1>1, Works DEF TaskTyped
  <1>3. p = accountOf[u] /\ p \in AccountIds
    BY <1>1 DEF Inv, UserInv, KnowsPointer, UserSteps
  <1>4. /\ TaskTyped' /\ Others(u) /\ task'[u].at = "clearAccount"
        /\ task'[u].ptr = task[u].ptr /\ task'[u].id = task[u].id
    BY <1>1, <1>2, TaskGoes DEF Steps
  <1>5. /\ account \in [AccountIds -> Logins \cup {NoName}] /\ account'[p] = NoName
        /\ \A a \in AccountIds \ {p} : account'[a] = account[a]
        /\ account' \in [AccountIds -> Logins \cup {NoName}]
    BY <1>1, <1>3 DEF Inv, Typed
  <1>6. Typed'
    BY <1>1, <1>4, <1>5 DEF Inv, Typed, rows, pointers
  <1>7. AccountStep /\ MemberStep
    <2>1. AccountStep
      BY <1>1, <1>3, <1>5 DEF AccountStep
    <2> QED BY <1>1, <2>1, NothingMoves
  <1>8. Apart'
    <2>1. \A m \in member' : m[1] \in AccountIds \ {p} /\ m \in member
      BY <1>1 DEF Inv, Typed
    <2>2. \A m \in member' : account'[m[1]] # NoName
      BY <1>5, <2>1 DEF Inv, Apart
    <2>3. \A v \in Users : task'[v].id = task[v].id
      BY <1>4 DEF Others, Keys
    <2> QED BY <1>1, <1>5, <2>2, <2>3 DEF Inv, Apart, pointers
  <1>9. KnowsPointer(u)' /\ OwnAccount(u)' /\ WantsItsOrg(u)'
    BY <1>1, <1>3, <1>4 DEF Inv, UserInv, KnowsPointer, UserSteps, OwnAccount, WantsItsOrg, pointers
  <1>10. OwnPointer(u)'
    BY <1>1, <1>3, <1>5 DEF OwnPointer, pointers
  <1> QED BY <1>1, <1>4, <1>6, <1>7, <1>8, <1>9, <1>10, UserWorks DEF pointers

LEMMA ClearAccountInv ==
  ASSUME Inv, NEW u \in Users, ClearAccount(u)
  PROVE  Inv'
  <1>1. /\ task[u].at = "clearAccount" /\ Return(u)
        /\ accountOf' = [accountOf EXCEPT ![u] = None]
        /\ UNCHANGED <<rows, orgOf, grafana>>
    BY DEF ClearAccount, At
  <1>2. user[u] # "absent" /\ u \in Keys /\ TaskTyped
    BY <1>1, Works
  <1>3. TaskTyped' /\ Others(u) /\ task'[u] = Idle /\ queued' = queued
    BY <1>1, <1>2, TaskEnds DEF Return
  <1>4. /\ accountOf' \in [Users -> AccountIds \cup {None}] /\ accountOf'[u] = None
        /\ \A v \in Users \ {u} : accountOf'[v] = accountOf[v]
    BY <1>1 DEF Inv, Typed
  <1>5. Typed'
    BY <1>1, <1>3, <1>4 DEF Inv, Typed, rows, grafana
  <1>6. AccountStep /\ MemberStep
    BY <1>1, NothingMoves DEF grafana
  <1>7. Apart'
    <2>1. \A v \in Users : task'[v].id = task[v].id \/ task'[v].id = None
      BY <1>3, IdleTask DEF Others, Keys
    <2>2. None <= top.account
      BY Numbers
    <2>3. \A v \in Users : accountOf'[v] <= top.account /\ task'[v].id <= top.account
      BY <1>4, <2>1, <2>2 DEF Inv, Apart
    <2>4. \A v, w \in Users : accountOf'[v] = accountOf'[w] /\ accountOf'[v] # None => v = w
      BY <1>4 DEF Inv, Apart
    <2> QED BY <1>1, <2>3, <2>4 DEF Inv, Apart, grafana
  <1>8. UserInv(u)'
    <2>1. KnowsPointer(u)'
      BY <1>3, IdleTask DEF KnowsPointer, UserSteps
    <2>2. OwnAccount(u)' /\ WantsItsOrg(u)' /\ NothingYet(u)' /\ OwnPointer(u)' /\ Entitled(u)'
      BY <1>1, <1>2, <1>3, <1>4, IdleTask DEF OwnAccount, WantsItsOrg, NothingYet, OwnPointer, Entitled, rows
    <2> QED BY <2>1, <2>2 DEF UserInv
  <1> QED BY <1>1, <1>3, <1>4, <1>5, <1>6, <1>7, <1>8, UserMoves DEF grafana

LEMMA CreateInv ==
  ASSUME Inv, NEW u \in Users, Create(u)
  PROVE  Inv'
  <1> DEFINE new == top.account + 1
  <1>1. task[u].at = "create" /\ UNCHANGED <<rows, pointers, org, content>>
    BY DEF Create, At
  <1>2. u \in Keys /\ TaskTyped /\ task[u] \in Task
    BY <1>1, Works
  <1>3. KnowsPointer(u) /\ WantsItsOrg(u) /\ OwnPointer(u) /\ task[u].ptr = accountOf[u] /\ task[u].want \in OrgIds
    BY <1>1 DEF Inv, UserInv, KnowsPointer, UserSteps, WantsItsOrg
  <1>4. CASE Throw(u) /\ UNCHANGED <<account, member, top>>
    BY <1>1, <1>4, UserThrows DEF grafana
  <1>5. CASE /\ AccountsNamed(MyName(u)) = {} /\ new \in AccountIds
             /\ account' = [account EXCEPT ![new] = MyName(u)]
             /\ member' = member \cup {<<new, task[u].want>>}
             /\ top' = [top EXCEPT !.account = new]
             /\ task' = [task EXCEPT ![u] = Ensured(u, new)]
             /\ UNCHANGED queued
    <2>1. \E i : i = new
      OBVIOUS
    <2>2. PICK i : i = new
      BY <2>1
    <2>3. i \in AccountIds /\ i > top.account /\ i # accountOf[u] /\ i # None /\ top.account \in Nat
      BY <1>5, <2>2, Numbers
    <2>4. \A j \in Nat : j <= top.account => j <= i
      BY <2>2, <2>3
    <2> HIDE DEF new
    <2>5. /\ account \in [AccountIds -> Logins \cup {NoName}] /\ account'[i] = MyName(u)
          /\ \A a \in AccountIds \ {i} : account'[a] = account[a]
          /\ account' \in [AccountIds -> Logins \cup {NoName}]
      BY <1>5, <2>2, <2>3, NamesApart DEF Inv, Typed
    <2>6. top \in [org : OrgIds \cup {0}, account : AccountIds \cup {0}]
      BY DEF Inv, Typed
    <2>7. /\ top' \in [org : OrgIds \cup {0}, account : AccountIds \cup {0}]
          /\ top'.account = i /\ top'.org = top.org
      BY <1>5, <2>2, <2>3, <2>6
    <2>8. \E k : k = Ensured(u, i)
      OBVIOUS
    <2>9. PICK k : k = Ensured(u, i)
      BY <2>8
    <2>10. k \in Task /\ k.at = "storeAccount" /\ k.ptr = task[u].ptr /\ k.id = i /\ k.want = task[u].want
      BY <1>2, <1>3, <2>3, <2>9, EnsuredIs
    <2>11. TaskTyped' /\ Others(u) /\ task'[u] = k
      BY <1>2, <1>5, <2>2, <2>9, <2>10, TaskSet DEF TaskTyped
    <2>12. member' \subseteq AccountIds \X OrgIds /\ member' = member \cup {<<i, task[u].want>>}
      BY <1>3, <1>5, <2>2, <2>3 DEF Inv, Typed
    <2>13. Typed'
      BY <1>1, <2>5, <2>7, <2>11, <2>12 DEF Inv, Typed, rows, pointers
    <2>14. AccountStep /\ MemberStep
      <3>1. AccountStep
        BY <2>3, <2>5 DEF AccountStep
      <3>2. MemberStep
        BY <2>3, <2>12 DEF MemberStep
      <3> QED BY <3>1, <3>2
    <2>15. Apart'
      <3>1. \A a \in AccountIds : account[a] # MyName(u)
        BY <1>5 DEF AccountsNamed
      <3>2. \A a, b \in AccountIds : account'[a] = account'[b] /\ account'[a] # NoName => a = b
        BY <2>5, <3>1 DEF Inv, Apart
      <3>3. \A a \in AccountIds : account'[a] # NoName => a <= i
        <4>1. \A a \in AccountIds : a \in Nat
          BY Numbers
        <4> QED BY <2>2, <2>4, <2>5, <4>1 DEF Inv, Apart
      <3>4. \A v \in Users : accountOf[v] <= i /\ task'[v].id <= i
        <4>1. \A v \in Users : accountOf[v] <= i /\ task[v].id <= i
          BY <2>4, Numbers DEF Inv, Apart
        <4>2. i <= i
          BY <2>3, Numbers
        <4> QED BY <2>10, <2>11, <4>1, <4>2 DEF Others, Keys
      <3>5. \A m \in member' : account'[m[1]] # NoName
        <4>1. \A m \in member : m[1] \in AccountIds /\ account[m[1]] # NoName
          BY DEF Inv, Typed, Apart
        <4> QED BY <2>5, <2>12, <4>1, NamesApart
      <3> QED BY <1>1, <2>7, <3>2, <3>3, <3>4, <3>5 DEF Inv, Apart, pointers
    <2>16. KnowsPointer(u)'
      BY <1>1, <1>3, <2>3, <2>10, <2>11 DEF KnowsPointer, UserSteps, pointers
    <2>17. OwnAccount(u)'
      BY <2>3, <2>5, <2>10, <2>11 DEF OwnAccount, MyName
    <2>18. WantsItsOrg(u)'
      BY <1>1, <1>3, <1>5, <2>10, <2>11 DEF WantsItsOrg, Wanted, rows
    <2>19. OwnPointer(u)'
      BY <1>1, <1>3, <2>3, <2>5, Numbers DEF OwnPointer, MyName, pointers
    <2> QED BY <1>1, <1>5, <2>10, <2>11, <2>13, <2>14, <2>15, <2>16, <2>17, <2>18, <2>19, UserWorks DEF pointers
  <1> QED BY <1>4, <1>5 DEF Create

LEMMA StoreAccountInv ==
  ASSUME Inv, NEW u \in Users, StoreAccount(u)
  PROVE  Inv'
  <1>1. task[u].at = "storeAccount" /\ UNCHANGED <<rows, orgOf, grafana>>
    BY DEF StoreAccount, At
  <1>2. u \in Keys /\ TaskTyped /\ task[u] \in Task /\ queued \subseteq Keys
    BY <1>1, Works DEF TaskTyped
  <1>3. KnowsPointer(u) /\ WantsItsOrg(u) /\ OwnAccount(u)
    BY DEF Inv, UserInv
  <1>4. CASE \E v \in Users \ {u} : accountOf[v] = task[u].id
    <2>1. Throw(u) /\ UNCHANGED accountOf
      BY <1>4 DEF StoreAccount
    <2> QED BY <1>1, <2>1, UserThrows DEF pointers
  <1>5. CASE ~(\E v \in Users \ {u} : accountOf[v] = task[u].id)
    <2>1. accountOf' = [accountOf EXCEPT ![u] = task[u].id] /\ Go(u, "getOrgs") /\ UNCHANGED queued
      BY <1>5 DEF StoreAccount
    <2>2. /\ TaskTyped' /\ Others(u) /\ task'[u].at = "getOrgs" /\ task'[u].ptr = task[u].ptr
          /\ task'[u].id = task[u].id /\ task'[u].want = task[u].want
      BY <1>2, <2>1, TaskGoes DEF Steps
    <2>3. task[u].id \in AccountIds /\ account[task[u].id] \in {MyName(u), NoName} /\ task[u].id # None
      BY <1>1, <1>3 DEF KnowsPointer, OwnAccount
    <2>4. /\ accountOf' \in [Users -> AccountIds \cup {None}] /\ accountOf'[u] = task[u].id
          /\ \A v \in Users \ {u} : accountOf'[v] = accountOf[v]
      BY <2>1, <2>3 DEF Inv, Typed
    <2>5. Typed'
      BY <1>1, <2>2, <2>4 DEF Inv, Typed, rows, grafana
    <2>6. AccountStep /\ MemberStep
      BY <1>1, NothingMoves DEF grafana
    <2>7. Apart'
      <3>1. \A v \in Users : accountOf'[v] <= top.account /\ task'[v].id <= top.account
        BY <2>2, <2>4 DEF Inv, Apart, Others, Keys
      <3>2. \A v, w \in Users : accountOf'[v] = accountOf'[w] /\ accountOf'[v] # None => v = w
        BY <1>5, <2>4 DEF Inv, Apart
      <3> QED BY <1>1, <3>1, <3>2 DEF Inv, Apart, grafana
    <2>8. KnowsPointer(u)'
      BY <1>3, <2>2 DEF KnowsPointer, UserSteps
    <2>9. OwnAccount(u)' /\ OwnPointer(u)'
      BY <1>1, <2>2, <2>3, <2>4 DEF OwnAccount, OwnPointer, MyName, grafana
    <2>10. WantsItsOrg(u)'
      BY <1>1, <1>3, <2>1, <2>2 DEF WantsItsOrg, Wanted, rows, grafana
    <2> QED BY <1>1, <2>1, <2>2, <2>4, <2>5, <2>6, <2>7, <2>8, <2>9, <2>10, UserWorks DEF grafana
  <1> QED BY <1>4, <1>5
LEMMA AddOrgInv ==
  ASSUME Inv, NEW u \in Users, AddOrg(u)
  PROVE  Inv'
  <1>1. task[u].at = "addOrg" /\ UNCHANGED <<rows, pointers, org, account, content, top>>
    BY DEF AddOrg, At
  <1>2. u \in Keys /\ TaskTyped /\ task[u] \in Task /\ queued \subseteq Keys
    BY <1>1, Works DEF TaskTyped
  <1>3. KnowsPointer(u) /\ WantsItsOrg(u) /\ OwnAccount(u) /\ OwnPointer(u)
    BY DEF Inv, UserInv
  <1>4. CASE Throw(u) /\ UNCHANGED member
    BY <1>1, <1>4, UserThrows DEF grafana
  <1>5. ASSUME NEW a \in AccountsNamed(MyName(u)),
               member' = member \cup {<<a, task[u].want>>}, Go(u, "removeOrgs"), UNCHANGED queued
        PROVE  Inv'
    <2>1. /\ task[u].id = accountOf[u] /\ task[u].id \in AccountIds /\ task[u].id # None
          /\ account[task[u].id] = MyName(u) /\ task[u].want \in OrgIds
          /\ {o \in OrgIds : <<task[u].id, o>> \in member} \subseteq task[u].others \cup {task[u].want}
      BY <1>1, <1>3 DEF KnowsPointer, OwnAccount, WantsItsOrg
    <2>2. a = task[u].id /\ account[a] # NoName
      BY <2>1, NamesApart DEF AccountsNamed, Inv, Apart
    <2>3. /\ TaskTyped' /\ Others(u) /\ task'[u].at = "removeOrgs" /\ task'[u].ptr = task[u].ptr
          /\ task'[u].id = task[u].id /\ task'[u].want = task[u].want /\ task'[u].others = task[u].others
      BY <1>2, <1>5, TaskGoes DEF Steps
    <2>4. Typed'
      BY <1>1, <1>5, <2>1, <2>2, <2>3 DEF Inv, Typed, rows, pointers
    <2>5. AccountStep /\ MemberStep
      BY <1>1, <1>5, <2>1, <2>2, <2>3, NothingMoves DEF MemberStep
    <2>6. Apart'
      <3>1. \A v \in Users : task'[v].id = task[v].id
        BY <2>3 DEF Others, Keys
      <3>2. \A m \in member' : account[m[1]] # NoName
        BY <1>5, <2>2 DEF Inv, Apart
      <3> QED BY <1>1, <3>1, <3>2, ApartRests DEF pointers
    <2>7. KnowsPointer(u)'
      BY <1>3, <2>3 DEF KnowsPointer, UserSteps
    <2>8. OwnAccount(u)'
      BY <1>1, <1>5, <2>1, <2>2, <2>3 DEF OwnAccount, MyName, pointers
    <2>9. WantsItsOrg(u)'
      BY <1>1, <1>3, <1>5, <2>3 DEF WantsItsOrg, Wanted, rows
    <2>10. OwnPointer(u)'
      BY <1>1, <1>3 DEF OwnPointer, MyName, pointers
    <2> QED BY <1>1, <1>5, <2>3, <2>4, <2>5, <2>6, <2>7, <2>8, <2>9, <2>10, UserWorks DEF pointers
  <1> QED BY <1>4, <1>5 DEF AddOrg

LEMMA RemoveOrgsInv ==
  ASSUME Inv, NEW u \in Users, RemoveOrgs(u)
  PROVE  Inv'
  <1>1. task[u].at = "removeOrgs" /\ UNCHANGED <<rows, pointers, org, account, content, top>>
    BY DEF RemoveOrgs, At
  <1>2. user[u] # "absent" /\ u \in Keys /\ TaskTyped /\ task[u] \in Task /\ queued \subseteq Keys
    BY <1>1, Works DEF TaskTyped
  <1>3. KnowsPointer(u) /\ WantsItsOrg(u) /\ OwnAccount(u) /\ OwnPointer(u)
    BY DEF Inv, UserInv
  <1>4. /\ task[u].id = accountOf[u] /\ task[u].id \in AccountIds /\ task[u].id # None
        /\ account[task[u].id] = MyName(u) /\ task[u].want \in OrgIds
        /\ {o \in OrgIds : <<task[u].id, o>> \in member} \subseteq task[u].others \cup {task[u].want}
        /\ u \in queued \/ (Wanted(u) /\ org[task[u].want] = LiveName(TenantOf[u]))
    BY <1>1, <1>3 DEF KnowsPointer, OwnAccount, WantsItsOrg
  <1>5. ASSUME NEW o \in task[u].others, member' = member \ {<<task[u].id, o>>},
               task' = [task EXCEPT ![u].others = @ \ {o}], UNCHANGED queued
        PROVE  Inv'
    <2> DEFINE r == [task[u] EXCEPT !.others = task[u].others \ {o}]
    <2>1. /\ r \in Task /\ r.at = "removeOrgs" /\ r.ptr = task[u].ptr /\ r.id = task[u].id
          /\ r.want = task[u].want /\ r.others = task[u].others \ {o}
      BY <1>1, <1>2 DEF Task, Steps
    <2>2. task' = [task EXCEPT ![u] = r]
      BY <1>2, <1>5 DEF TaskTyped
    <2>3. \E k : k = r
      OBVIOUS
    <2>4. PICK k : k = r
      BY <2>3
    <2> HIDE DEF r
    <2>5. TaskTyped' /\ Others(u) /\ task'[u] = k
      BY <1>2, <1>5, <2>1, <2>2, <2>4, TaskSet DEF TaskTyped
    <2>6. member' \subseteq member
      BY <1>5
    <2>7. Typed'
      BY <1>1, <2>5, <2>6 DEF Inv, Typed, rows, pointers
    <2>8. AccountStep /\ MemberStep
      BY <1>1, <2>6, NothingMoves
    <2>9. Apart'
      <3>1. \A v \in Users : task'[v].id = task[v].id
        BY <2>1, <2>4, <2>5 DEF Others, Keys
      <3>2. \A m \in member' : account[m[1]] # NoName
        BY <2>6 DEF Inv, Apart
      <3> QED BY <1>1, <3>1, <3>2, ApartRests DEF pointers
    <2>10. KnowsPointer(u)'
      BY <1>1, <1>3, <2>1, <2>4, <2>5 DEF KnowsPointer, UserSteps
    <2>11. OwnAccount(u)'
      <3>1. {q \in OrgIds : <<k.id, q>> \in member'} \subseteq k.others \cup {k.want}
        BY <1>4, <1>5, <2>1, <2>4
      <3> QED BY <1>1, <1>4, <2>1, <2>4, <2>5, <3>1 DEF OwnAccount, MyName, pointers
    <2>12. WantsItsOrg(u)'
      BY <1>1, <1>4, <1>5, <2>1, <2>4, <2>5 DEF WantsItsOrg, Wanted, rows
    <2>13. OwnPointer(u)'
      BY <1>1, <1>3 DEF OwnPointer, MyName, pointers
    <2> QED BY <1>1, <1>5, <2>1, <2>4, <2>5, <2>7, <2>8, <2>9, <2>10, <2>11, <2>12, <2>13, UserWorks DEF pointers
  <1>6. ASSUME task[u].others = {}, Return(u), UNCHANGED member
        PROVE  Inv'
    <2>1. TaskTyped' /\ Others(u) /\ task'[u] = Idle /\ queued' = queued
      BY <1>2, <1>6, TaskEnds DEF Return
    <2>2. Typed'
      BY <1>1, <1>6, <2>1 DEF Inv, Typed, rows, pointers
    <2>3. AccountStep /\ MemberStep
      BY <1>1, <1>6, NothingMoves
    <2>4. Apart'
      <3>1. \A v \in Users : task'[v].id = task[v].id \/ task'[v].id <= top.account
        BY <2>1, Numbers, IdleTask DEF Others, Keys
      <3> QED BY <1>1, <1>6, <3>1, ApartRests DEF pointers, Inv, Apart
    <2>5. UserInv(u)'
      <3>1. KnowsPointer(u)'
        BY <2>1, IdleTask DEF KnowsPointer, UserSteps
      <3>2. OwnAccount(u)' /\ WantsItsOrg(u)' /\ NothingYet(u)'
        BY <1>1, <1>2, <2>1, IdleTask DEF OwnAccount, WantsItsOrg, NothingYet, rows
      <3>3. OwnPointer(u)'
        BY <1>1, <1>3 DEF OwnPointer, MyName, pointers
      <3>4. Entitled(u)'
        <4> SUFFICES ASSUME NEW o \in OrgIds, <<accountOf[u], o>> \in member
                     PROVE  Pending(u)' \/ (Wanted(u)' /\ org[o] = LiveName(TenantOf[u]))
          BY <1>1, <1>6 DEF Entitled, pointers
        <4>1. o = task[u].want
          BY <1>4, <1>6
        <4>2. Wanted(u)' <=> Wanted(u)
          BY <1>1 DEF Wanted, rows
        <4> QED BY <1>4, <2>1, <4>1, <4>2, PendingThen
      <3> QED BY <3>1, <3>2, <3>3, <3>4 DEF UserInv
    <2> QED BY <1>1, <2>1, <2>2, <2>3, <2>4, <2>5, UserMoves DEF pointers
  <1> QED BY <1>5, <1>6 DEF RemoveOrgs
-----------------------------------------------------------------------------
(* Steps of the handler of a tenant                                        *)

\* A step of the handler of a tenant leaves work on its users pending.
LEMMA TenantMoves ==
  ASSUME Inv, NEW t \in Tenants, Others(t), Typed', Apart', TenantInv(t)',
         UNCHANGED <<rows, accountOf, account>>, OrgStep, member' \subseteq member,
         \A s \in Tenants \ {t} : orgOf'[s] = orgOf[s],
         \A k \in Keys \ {t} : k \in queued => k \in queued',
         \A u \in Users : user[u] = "absent" /\ u \in queued' => u \in queued,
         \/ task'[t].at # "idle" \/ t \in queued'
         \/ \A u \in UsersOf(t) : user[u] # "absent" => u \in queued'
  PROVE  Inv'
  <1>1. AccountStep /\ MemberStep /\ tenant' = tenant /\ user' = user /\ accountOf' = accountOf
    BY NothingMoves DEF rows
  <1>2. ASSUME NEW u \in Users
        PROVE  UserInv(u)'
    <2>1. task'[u] = task[u] /\ (u \in queued => u \in queued') /\ TenantOf[u] \in Tenants
      BY Ids DEF Others, Keys
    <2>2. accountOf[u] # None => user[u] # "absent"
      BY DEF Inv, UserInv, NothingYet
    <2>3. TenantOf[u] # t => task'[TenantOf[u]] = task[TenantOf[u]]
                             /\ (TenantOf[u] \in queued => TenantOf[u] \in queued')
      BY <2>1 DEF Others, Keys
    <2>4. Typed
      BY DEF Inv
    <2>5. TenantOf[u] = t => u \in UsersOf(t)
      BY DEF UsersOf
    <2>6. accountOf[u] # None => (Pending(u) => Pending(u)')
      BY <2>1, <2>2, <2>3, <2>4, <2>5, PendingIs, PendingThen
    <2>7. RowStep(u)
      BY <1>1, <2>1, <2>6 DEF RowStep, Wanted
    <2> QED BY <1>1, <2>1, <2>7, UserRests
  <1>3. ASSUME NEW s \in Tenants \ {t}
        PROVE  TenantInv(s)'
    <2>1. task'[s] = task[s]
      BY DEF Others, Keys
    <2> QED BY <1>1, <2>1, TenantRests
  <1> QED BY <1>2, <1>3 DEF Inv

\* What is known of a tenant and its handler.
LEMMA TenantKnown ==
  ASSUME Inv, NEW t \in Tenants
  PROVE  /\ t \in Keys /\ TaskTyped /\ task[t] \in Task /\ queued \subseteq Keys
         /\ TenantInv(t) /\ tenant[t] \in {"active", "deleted"} /\ orgOf[t] \in OrgIds \cup {None}
         /\ \A u \in Users : u \in Keys \ {t}
         /\ \A o \in OrgIds : org[o] \in OrgNames \cup {NoName}
  BY Ids DEF Inv, Typed, TaskTyped, Keys

\* A handler that changes no org, and goes on or ends with work pending.
LEMMA TenantWorks ==
  ASSUME Inv, NEW t \in Tenants, TaskTyped', Others(t), TenantInv(t)',
         UNCHANGED <<rows, accountOf, org, account, top>>, member' \subseteq member,
         content' \subseteq OrgIds \X Items,
         orgOf' \in [Tenants -> OrgIds \cup {None}],
         \A s \in Tenants \ {t} : orgOf'[s] = orgOf[s],
         \A k \in Keys \ {t} : k \in queued => k \in queued',
         \A u \in Users : user[u] = "absent" /\ u \in queued' => u \in queued,
         \/ task'[t].at # "idle" \/ t \in queued'
         \/ \A u \in UsersOf(t) : user[u] # "absent" => u \in queued'
  PROVE  Inv'
  <1>1. Typed'
    BY DEF Inv, Typed, rows
  <1>2. Apart'
    <2>1. \A u \in Users : task'[u].id = task[u].id
      BY Ids DEF Others, Keys
    <2>2. \A m \in member' : account[m[1]] # NoName
      BY DEF Inv, Apart
    <2> QED BY <2>1, <2>2, ApartRests
  <1> QED BY <1>1, <1>2, NothingMoves, TenantMoves

LEMMA TenantThrows ==
  ASSUME Inv, NEW t \in Tenants, Throw(t), UNCHANGED <<rows, pointers, org, account, member, top>>,
         content' \subseteq OrgIds \X Items
  PROVE  Inv'
  <1>1. TaskTyped' /\ Others(t) /\ task'[t] = Idle /\ queued' = queued \cup {t}
    BY TenantKnown, TaskEnds DEF Throw
  <1>2. TenantInv(t)'
    BY <1>1, TenantKnown, IdleTask DEF TenantInv, TenantSteps, rows, pointers
  <1>3. \A u \in Users : u \in queued' => u \in queued
    BY <1>1, Ids
  <1> QED BY <1>1, <1>2, <1>3, TenantWorks DEF pointers, Inv, Typed

LEMMA ReadTenantRowInv ==
  ASSUME Inv, NEW t \in Tenants, ReadTenantRow(t)
  PROVE  Inv'
  <1> DEFINE step == IF tenant[t] = "active" THEN "ensureOrg" ELSE RemovedFrom(t)
  <1> DEFINE r == [Idle EXCEPT !.ptr = orgOf[t], !.at = step]
  <1>1. /\ t \in queued /\ queued' = queued \ {t} /\ task' = [task EXCEPT ![t] = r]
        /\ UNCHANGED <<rows, pointers, grafana>>
    BY DEF ReadTenantRow, Claim
  <1>2. /\ step \in {"ensureOrg", "fanOut", "deleteOrg"}
        /\ step = "deleteOrg" => tenant[t] = "deleted"
    BY TenantKnown DEF RemovedFrom
  <1>3. r \in Task /\ r.at = step /\ r.ptr = orgOf[t] /\ r.id = None
    BY <1>2, TenantKnown DEF Idle, Task, Steps
  <1>4. \E k : k = r
    OBVIOUS
  <1>5. PICK k : k = r
    BY <1>4
  <1> HIDE DEF r, step
  <1>6. TaskTyped' /\ Others(t) /\ task'[t] = k
    BY <1>1, <1>3, <1>5, TenantKnown, TaskSet DEF TaskTyped
  <1>7. TenantInv(t)'
    BY <1>1, <1>2, <1>3, <1>5, <1>6, TenantKnown DEF TenantInv, TenantSteps, rows, pointers, grafana
  <1>8. task'[t].at # "idle"
    BY <1>2, <1>3, <1>5, <1>6
  <1> QED BY <1>1, <1>6, <1>7, <1>8, TenantWorks DEF pointers, grafana, Inv, Typed

\* A handler that only looks, and goes on.
LEMMA TenantGoes ==
  ASSUME Inv, NEW t \in Tenants, NEW r \in Task, task' = [task EXCEPT ![t] = r], r.at # "idle",
         UNCHANGED <<rows, pointers, grafana, queued>>, task'[t] = r => TenantInv(t)'
  PROVE  Inv'
  <1>1. TaskTyped' /\ Others(t) /\ task'[t] = r
    BY TenantKnown, TaskSet
  <1> QED BY <1>1, TenantWorks DEF pointers, grafana, Inv, Typed
LEMMA EnsureOrgInv ==
  ASSUME Inv, NEW t \in Tenants, EnsureOrg(t)
  PROVE  Inv'
  <1> DEFINE new == top.org + 1
  <1>1. /\ task[t].at = "ensureOrg"
        /\ UNCHANGED <<rows, pointers, account, member, content, queued>>
    BY DEF EnsureOrg, At
  <1>2. ASSUME NEW o \in OrgIds
        PROVE  \E r \in Task : /\ r = [task[t] EXCEPT !.at = "provision", !.id = o]
                               /\ r.at = "provision" /\ r.id = o /\ r.ptr = task[t].ptr
    <2> DEFINE q == [task[t] EXCEPT !.at = "provision", !.id = o]
    <2>1. task[t] \in Task /\ o \in OrgIds \cup AccountIds \cup {None} /\ "provision" \in Steps
      BY TenantKnown DEF Steps
    <2>2. q \in Task
      BY <2>1 DEF Task
    <2>3. q.at = "provision" /\ q.id = o /\ q.ptr = task[t].ptr
      BY <2>1 DEF Task
    <2> QED BY <2>2, <2>3
  <1>3. ASSUME NEW o \in OrgsNamed(LiveName(t)), UNCHANGED <<org, top>>,
               task' = [task EXCEPT ![t] = [@ EXCEPT !.at = "provision", !.id = o]]
        PROVE  Inv'
    <2>1. o \in OrgIds /\ org[o] = LiveName(t) /\ o # None
      BY Numbers DEF OrgsNamed
    <2>2. PICK r \in Task : /\ r = [task[t] EXCEPT !.at = "provision", !.id = o]
                            /\ r.at = "provision" /\ r.id = o /\ r.ptr = task[t].ptr
      BY <1>2, <2>1
    <2>3. task' = [task EXCEPT ![t] = r]
      BY <1>3, <2>2, TenantKnown DEF TaskTyped
    <2>4. ASSUME task'[t] = r
          PROVE  TenantInv(t)'
      BY <1>1, <1>3, <2>1, <2>2, <2>4, TenantKnown DEF TenantInv, TenantSteps, rows, pointers
    <2> QED BY <1>1, <1>3, <2>2, <2>3, <2>4, TenantGoes DEF grafana
  <1>4. ASSUME new \in OrgIds, org' = [org EXCEPT ![new] = LiveName(t)], top' = [top EXCEPT !.org = new],
               task' = [task EXCEPT ![t] = [@ EXCEPT !.at = "provision", !.id = new]]
        PROVE  Inv'
    <2>1. \E i : i = new
      OBVIOUS
    <2>2. PICK i : i = new
      BY <2>1
    <2>3. i \in OrgIds /\ i > top.org /\ i # None /\ top.org \in Nat
      BY <1>4, <2>2, Numbers
    <2>4. \A j \in Nat : j <= top.org => j <= i
      BY <2>2, <2>3
    <2>5. org[i] = NoName
      BY <2>2, <2>3 DEF Inv, Apart
    <2> HIDE DEF new
    <2>6. PICK r \in Task : /\ r = [task[t] EXCEPT !.at = "provision", !.id = i]
                            /\ r.at = "provision" /\ r.id = i /\ r.ptr = task[t].ptr
      BY <1>2, <2>3
    <2>7. task' = [task EXCEPT ![t] = r]
      BY <1>4, <2>2, <2>6, TenantKnown DEF TaskTyped
    <2>8. TaskTyped' /\ Others(t) /\ task'[t] = r
      BY <1>1, <2>7, TenantKnown, TaskSet
    <2>9. /\ org' \in [OrgIds -> OrgNames \cup {NoName}] /\ org'[i] = LiveName(t)
          /\ \A o \in OrgIds \ {i} : org'[o] = org[o]
      BY <1>4, <2>2, <2>3 DEF Inv, Typed, OrgNames
    <2>10. top \in [org : OrgIds \cup {0}, account : AccountIds \cup {0}]
      BY DEF Inv, Typed
    <2>11. /\ top' \in [org : OrgIds \cup {0}, account : AccountIds \cup {0}]
           /\ top'.org = i /\ top'.account = top.account
      BY <1>4, <2>2, <2>3, <2>10
    <2>12. Typed'
      BY <1>1, <2>8, <2>9, <2>11 DEF Inv, Typed, rows, pointers
    <2>13. OrgStep
      BY <2>5, <2>9 DEF OrgStep
    <2>14. Apart'
      <3>1. \A o \in OrgIds : o \in Nat
        BY Numbers
      <3>2. \A o \in OrgIds : org'[o] # NoName => o <= i
        BY <2>2, <2>4, <2>9, <3>1 DEF Inv, Apart
      <3>3. \A u \in Users : task'[u].id = task[u].id
        BY <2>8, Ids DEF Others, Keys
      <3> QED BY <1>1, <2>11, <3>2, <3>3 DEF Inv, Apart, pointers
    <2>15. TenantInv(t)'
      <3>1. tenant[t] = "active" /\ orgOf[t] # None => org'[orgOf[t]] = LiveName(t)
        BY <2>13, LiveOrgsStay, TenantKnown DEF TenantInv
      <3> QED BY <1>1, <2>3, <2>6, <2>8, <2>9, <3>1, TenantKnown DEF TenantInv, TenantSteps, rows, pointers
    <2> QED BY <1>1, <2>6, <2>8, <2>12, <2>13, <2>14, <2>15, TenantMoves DEF pointers
  <1> QED BY <1>3, <1>4 DEF EnsureOrg

LEMMA ProvisionOrgInv ==
  ASSUME Inv, NEW t \in Tenants, ProvisionOrg(t)
  PROVE  Inv'
  <1>1. task[t].at = "provision" /\ UNCHANGED <<rows, pointers, org, account, member, top>>
    BY DEF ProvisionOrg, At
  <1>2. task[t].id \in OrgIds /\ org[task[t].id] = LiveName(t) /\ task[t].id # None
    BY <1>1, TenantKnown DEF TenantInv
  <1>3. content' \subseteq OrgIds \X Items
    BY <1>2 DEF ProvisionOrg, Datasources, Dashboards, Items, Inv, Typed
  <1>4. CASE Throw(t)
    BY <1>1, <1>3, <1>4, TenantThrows
  <1>5. CASE Go(t, Provided(t)) /\ UNCHANGED queued
    <2>1. Provided(t) \in {"fanOut", "storeOrg"} /\ Provided(t) \in Steps
      BY DEF Provided, Steps
    <2>2. /\ TaskTyped' /\ Others(t) /\ task'[t].at = Provided(t)
          /\ task'[t].ptr = task[t].ptr /\ task'[t].id = task[t].id
      BY <1>5, <2>1, TenantKnown, TaskGoes
    <2>3. TenantInv(t)'
      BY <1>1, <1>2, <2>1, <2>2, TenantKnown DEF TenantInv, TenantSteps, rows, pointers
    <2> QED BY <1>1, <1>3, <1>5, <2>1, <2>2, <2>3, TenantWorks DEF pointers, Inv, Typed
  <1> QED BY <1>4, <1>5 DEF ProvisionOrg

LEMMA StoreOrgInv ==
  ASSUME Inv, NEW t \in Tenants, StoreOrg(t)
  PROVE  Inv'
  <1>1. task[t].at = "storeOrg" /\ UNCHANGED <<rows, accountOf, grafana>>
    BY DEF StoreOrg, At
  <1>2. task[t].id \in OrgIds /\ org[task[t].id] = LiveName(t) /\ task[t].id # None
    BY <1>1, TenantKnown DEF TenantInv
  <1>3. CASE Throw(t) /\ UNCHANGED orgOf
    BY <1>1, <1>3, TenantThrows DEF pointers, grafana, Inv, Typed
  <1>4. CASE orgOf' = [orgOf EXCEPT ![t] = task[t].id] /\ Go(t, "fanOut") /\ UNCHANGED queued
    <2>1. /\ TaskTyped' /\ Others(t) /\ task'[t].at = "fanOut"
          /\ task'[t].ptr = task[t].ptr /\ task'[t].id = task[t].id
      BY <1>4, TenantKnown, TaskGoes DEF Steps
    <2>2. /\ orgOf' \in [Tenants -> OrgIds \cup {None}] /\ orgOf'[t] = task[t].id
          /\ \A s \in Tenants \ {t} : orgOf'[s] = orgOf[s]
      BY <1>2, <1>4 DEF Inv, Typed
    <2>3. TenantInv(t)'
      BY <1>1, <1>2, <2>1, <2>2, TenantKnown DEF TenantInv, TenantSteps, rows, grafana
    <2> QED BY <1>1, <1>4, <2>1, <2>2, <2>3, TenantWorks DEF grafana, Inv, Typed
  <1> QED BY <1>3, <1>4 DEF StoreOrg

LEMMA ClearOrgInv ==
  ASSUME Inv, NEW t \in Tenants, ClearOrg(t)
  PROVE  Inv'
  <1>1. /\ task[t].at = "clearOrg" /\ UNCHANGED <<rows, accountOf, grafana, queued>>
        /\ orgOf' = [orgOf EXCEPT ![t] = None] /\ Go(t, "fanOut")
    BY DEF ClearOrg, At
  <1>2. /\ TaskTyped' /\ Others(t) /\ task'[t].at = "fanOut"
        /\ task'[t].ptr = task[t].ptr /\ task'[t].id = task[t].id
    BY <1>1, TenantKnown, TaskGoes DEF Steps
  <1>3. /\ orgOf' \in [Tenants -> OrgIds \cup {None}] /\ orgOf'[t] = None
        /\ \A s \in Tenants \ {t} : orgOf'[s] = orgOf[s]
    BY <1>1 DEF Inv, Typed
  <1>4. TenantInv(t)'
    BY <1>1, <1>2, <1>3, TenantKnown DEF TenantInv, TenantSteps
  <1> QED BY <1>1, <1>2, <1>3, <1>4, TenantWorks DEF grafana, Inv, Typed

LEMMA FanOutInv ==
  ASSUME Inv, NEW t \in Tenants, FanOut(t)
  PROVE  Inv'
  <1>1. /\ UNCHANGED <<rows, pointers, grafana>> /\ task' = [task EXCEPT ![t] = Idle]
    BY DEF FanOut
  <1>2. PICK done \in SUBSET Dependents(t) :
          \/ queued' = queued \cup done /\ done = Dependents(t)
          \/ queued' = queued \cup done \cup {t}
    BY DEF FanOut
  <1>3. \A u \in done : u \in Users /\ user[u] # "absent"
    BY <1>2 DEF Dependents, UsersOf
  <1>4. TaskTyped' /\ Others(t) /\ task'[t] = Idle
    <2>1. queued' \subseteq Keys
      BY <1>2, <1>3, TenantKnown DEF Keys
    <2> QED BY <1>1, <2>1, TenantKnown, IdleTask, TaskSet
  <1>5. TenantInv(t)'
    BY <1>1, <1>4, TenantKnown, IdleTask DEF TenantInv, TenantSteps, rows, pointers, grafana
  <1>6. \A u \in Users : user[u] = "absent" /\ u \in queued' => u \in queued
    BY <1>2, <1>3, Ids
  <1>7. \/ t \in queued'
        \/ \A u \in UsersOf(t) : user[u] # "absent" => u \in queued'
    BY <1>2 DEF Dependents
  <1>8. \A k \in Keys \ {t} : k \in queued => k \in queued'
    BY <1>2
  <1> QED BY <1>1, <1>4, <1>5, <1>6, <1>7, <1>8, TenantWorks DEF pointers, grafana, Inv, Typed
LEMMA DeleteOrgInv ==
  ASSUME Inv, NEW t \in Tenants, DeleteOrg(t)
  PROVE  Inv'
  <1>1. task[t].at = "deleteOrg" /\ UNCHANGED <<rows, pointers, account, top, queued>>
    BY DEF DeleteOrg, At
  <1>2. tenant[t] = "deleted"
    BY <1>1, TenantKnown DEF TenantInv
  <1>3. ASSUME Go(t, "clearOrg")
        PROVE  /\ TaskTyped' /\ Others(t) /\ task'[t].at = "clearOrg" /\ task'[t] # task[t]
               /\ task'[t].ptr = task[t].ptr /\ task'[t].id = task[t].id
    BY <1>1, <1>3, TenantKnown, TaskGoes DEF Steps
  <1>4. ASSUME Go(t, "clearOrg")
        PROVE  TenantInv(t)'
    BY <1>1, <1>2, <1>3, <1>4, TenantKnown DEF TenantInv, TenantSteps, rows
  <1>5. ASSUME Go(t, "clearOrg"), UNCHANGED <<org, member, content>>
        PROVE  Inv'
    BY <1>1, <1>3, <1>4, <1>5, TenantWorks DEF pointers, Inv, Typed
  <1>6. ASSUME NEW o \in OwnOrgs(t)
        PROVE  o \in OrgIds /\ org[o] \in {LiveName(t), RetiredName(t)}
    <2>1. task[t].ptr \in OrgIds \cup {None}
      BY TenantKnown DEF TenantInv
    <2> QED BY <1>6, <2>1 DEF OwnOrgs, OrgsNamed
  <1>7. ASSUME NEW o \in OwnOrgs(t), org' = [org EXCEPT ![o] = NoName],
               member' = {m \in member : m[2] # o}, content' = {c \in content : c[1] # o},
               Go(t, "clearOrg")
        PROVE  Inv'
    <2>1. /\ org' \in [OrgIds -> OrgNames \cup {NoName}]
          /\ \A p \in OrgIds \ {o} : org'[p] = org[p] /\ org'[o] = NoName
      BY <1>6, <1>7 DEF Inv, Typed
    <2>2. OrgStep
      BY <1>2, <1>3, <1>6, <1>7, <2>1 DEF OrgStep
    <2>3. Typed'
      BY <1>1, <1>3, <1>7, <2>1 DEF Inv, Typed, rows, pointers
    <2>4. Apart'
      <3>1. \A p \in OrgIds : org'[p] # NoName => p <= top.org
        BY <1>6, <2>1, <1>7 DEF Inv, Apart, Typed
      <3>2. \A u \in Users : task'[u].id = task[u].id
        BY <1>3, <1>7, Ids DEF Others, Keys
      <3> QED BY <1>1, <1>7, <3>1, <3>2 DEF Inv, Apart, pointers
    <2> QED BY <1>1, <1>3, <1>4, <1>7, <2>2, <2>3, <2>4, TenantMoves DEF pointers
  <1>8. ASSUME NEW o \in OwnOrgs(t), UNCHANGED <<org, member, content>>,
               task' = [task EXCEPT ![t] = [@ EXCEPT !.at = "retireOrg", !.id = o]]
        PROVE  Inv'
    <2> DEFINE r == [task[t] EXCEPT !.at = "retireOrg", !.id = o]
    <2>1. task[t] \in Task /\ o \in OrgIds \cup AccountIds \cup {None} /\ "retireOrg" \in Steps
      BY <1>6, TenantKnown DEF Steps
    <2>2. r \in Task
      BY <2>1 DEF Task
    <2>3. r.at = "retireOrg" /\ r.id = o /\ r.ptr = task[t].ptr
      BY <2>1 DEF Task
    <2>4. task' = [task EXCEPT ![t] = r]
      BY <1>8, TenantKnown DEF TaskTyped
    <2>5. \E k : k = r
      OBVIOUS
    <2>6. PICK k : k = r
      BY <2>5
    <2> HIDE DEF r
    <2>7. ASSUME task'[t] = k
          PROVE  TenantInv(t)'
      <3>1. o \in OrgIds /\ o # None
        BY <1>6, Numbers
      <3> QED BY <1>1, <1>2, <1>6, <1>8, <2>3, <2>6, <2>7, <3>1, TenantKnown
           DEF TenantInv, TenantSteps, rows, pointers
    <2> QED BY <1>1, <1>8, <2>2, <2>3, <2>4, <2>6, <2>7, TenantGoes DEF grafana
  <1> QED BY <1>1, <1>5, <1>7, <1>8 DEF DeleteOrg

LEMMA RetireOrgInv ==
  ASSUME Inv, NEW t \in Tenants, RetireOrg(t)
  PROVE  Inv'
  <1> DEFINE found == {a \in AccountIds : <<a, task[t].id>> \in member}
  <1> DEFINE r == [task[t] EXCEPT !.at = "emptyOrg", !.others = found]
  <1>1. task[t].at = "retireOrg" /\ UNCHANGED <<rows, pointers, grafana>>
    BY DEF RetireOrg, At
  <1>2. CASE Throw(t)
    BY <1>1, <1>2, TenantThrows DEF grafana, Inv, Typed
  <1>3. CASE /\ UNCHANGED queued
             /\ task' = [task EXCEPT ![t].at = "emptyOrg", ![t].others = found]
    <2>1. r \in Task /\ r.at = "emptyOrg" /\ r.ptr = task[t].ptr /\ r.id = task[t].id
      <3>1. found \in SUBSET (OrgIds \cup AccountIds) /\ task[t] \in Task /\ "emptyOrg" \in Steps
        BY TenantKnown DEF Steps
      <3> HIDE DEF found
      <3> QED BY <3>1 DEF Task
    <2>2. task' = [task EXCEPT ![t] = r]
      BY <1>3, TenantKnown DEF TaskTyped
    <2>3. \E k : k = r
      OBVIOUS
    <2>4. PICK k : k = r
      BY <2>3
    <2> HIDE DEF r, found
    <2>5. ASSUME task'[t] = k
          PROVE  TenantInv(t)'
      BY <1>1, <2>1, <2>4, <2>5, TenantKnown DEF TenantInv, TenantSteps, rows, pointers, grafana
    <2> QED BY <1>1, <1>3, <2>1, <2>2, <2>4, <2>5, TenantGoes
  <1> QED BY <1>2, <1>3 DEF RetireOrg

LEMMA EmptyOrgInv ==
  ASSUME Inv, NEW t \in Tenants, EmptyOrg(t)
  PROVE  Inv'
  <1>1. task[t].at = "emptyOrg" /\ UNCHANGED <<rows, pointers, org, account, top, queued>>
    BY DEF EmptyOrg, At
  <1>2. CASE UNCHANGED member /\ Go(t, "renameOrg") /\ content' = Dropped(t)
    <2>1. /\ TaskTyped' /\ Others(t) /\ task'[t].at = "renameOrg"
          /\ task'[t].ptr = task[t].ptr /\ task'[t].id = task[t].id
      BY <1>1, <1>2, TenantKnown, TaskGoes DEF Steps
    <2>2. TenantInv(t)'
      BY <1>1, <2>1, TenantKnown DEF TenantInv, TenantSteps, rows, pointers
    <2>3. content' \subseteq OrgIds \X Items
      BY <1>2 DEF Dropped, Inv, Typed
    <2> QED BY <1>1, <1>2, <2>1, <2>2, <2>3, TenantWorks DEF pointers, Inv, Typed
  <1>3. ASSUME NEW a \in task[t].others, member' = member \ {<<a, task[t].id>>},
               task' = [task EXCEPT ![t].others = @ \ {a}], UNCHANGED content
        PROVE  Inv'
    <2> DEFINE r == [task[t] EXCEPT !.others = task[t].others \ {a}]
    <2>1. r \in Task /\ r.at = "emptyOrg" /\ r.ptr = task[t].ptr /\ r.id = task[t].id
      BY <1>1, TenantKnown DEF Task, Steps
    <2>2. task' = [task EXCEPT ![t] = r]
      BY <1>3, TenantKnown DEF TaskTyped
    <2>3. \E k : k = r
      OBVIOUS
    <2>4. PICK k : k = r
      BY <2>3
    <2> HIDE DEF r
    <2>5. TaskTyped' /\ Others(t) /\ task'[t] = k
      BY <1>1, <2>1, <2>2, <2>4, TenantKnown, TaskSet
    <2>6. TenantInv(t)'
      BY <1>1, <2>1, <2>4, <2>5, TenantKnown DEF TenantInv, TenantSteps, rows, pointers
    <2> QED BY <1>1, <1>3, <2>1, <2>4, <2>5, <2>6, TenantWorks DEF pointers, Inv, Typed
  <1> QED BY <1>2, <1>3 DEF EmptyOrg

LEMMA RenameOrgInv ==
  ASSUME Inv, NEW t \in Tenants, RenameOrg(t)
  PROVE  Inv'
  <1> DEFINE o == task[t].id
  <1>1. /\ task[t].at = "renameOrg" /\ Go(t, "fanOut")
        /\ org' = [org EXCEPT ![o] = IF org[o] = NoName THEN org[o] ELSE RetiredName(t)]
        /\ UNCHANGED <<rows, pointers, account, member, content, top, queued>>
    <2>1. /\ task[t].at = "renameOrg" /\ Go(t, "fanOut")
          /\ UNCHANGED <<rows, pointers, account, member, content, top, queued>>
      BY DEF RenameOrg, At
    <2>2. org' = [org EXCEPT ![o] = IF org[o] = NoName THEN org[o] ELSE RetiredName(t)]
      BY DEF RenameOrg
    <2> QED BY <2>1, <2>2
  <1>2. /\ tenant[t] = "deleted" /\ o \in OrgIds /\ org[o] \in {LiveName(t), RetiredName(t)}
        /\ org[o] # NoName
    BY <1>1, TenantKnown, NamesApart DEF TenantInv
  <1>3. /\ TaskTyped' /\ Others(t) /\ task'[t].at = "fanOut" /\ task'[t] # task[t]
        /\ task'[t].ptr = task[t].ptr /\ task'[t].id = task[t].id
    BY <1>1, TenantKnown, TaskGoes DEF Steps
  <1>4. /\ org' \in [OrgIds -> OrgNames \cup {NoName}] /\ org'[o] = RetiredName(t)
        /\ \A p \in OrgIds \ {o} : org'[p] = org[p]
    BY <1>1, <1>2 DEF Inv, Typed, OrgNames
  <1>5. OrgStep
    BY <1>2, <1>3, <1>4 DEF OrgStep
  <1>6. Typed'
    BY <1>1, <1>3, <1>4 DEF Inv, Typed, rows, pointers
  <1>7. Apart'
    <2>1. \A p \in OrgIds : org'[p] # NoName => p <= top.org
      BY <1>2, <1>4 DEF Inv, Apart
    <2>2. \A u \in Users : task'[u].id = task[u].id
      BY <1>3, Ids DEF Others, Keys
    <2> QED BY <1>1, <2>1, <2>2 DEF Inv, Apart, pointers
  <1>8. TenantInv(t)'
    BY <1>1, <1>2, <1>3, TenantKnown DEF TenantInv, TenantSteps, rows, pointers
  <1> QED BY <1>1, <1>3, <1>5, <1>6, <1>7, <1>8, TenantMoves DEF pointers
-----------------------------------------------------------------------------
(* Steps of the domain services, resync and failures                       *)

\* What the domain services do is enqueued for every row it is about.
LEMMA RowsMove ==
  ASSUME Inv, UNCHANGED <<pointers, grafana, task>>, queued' \subseteq Keys,
         tenant' \in [Tenants -> {"active", "deleted"}], user' \in [Users -> UserStatus],
         \A t \in Tenants : tenant'[t] \in {tenant[t], "deleted"},
         queued \subseteq queued',
         \A u \in Users : /\ user[u] # "absent" => user'[u] # "absent"
                          /\ user'[u] = "absent" => (u \in queued' => u \in queued)
                          /\ user[u] = "active" => user'[u] = "active" \/ u \in queued'
                          /\ Wanted(u) => Wanted(u)' \/ u \in queued'
  PROVE  Inv'
  <1>1. AccountStep /\ MemberStep /\ OrgStep /\ accountOf' = accountOf /\ orgOf' = orgOf
    BY NothingMoves DEF grafana, pointers
  <1>2. Typed'
    BY DEF Inv, Typed, TaskTyped, pointers, grafana
  <1>3. ASSUME NEW u \in Users
        PROVE  UserInv(u)'
    <2>1. Pending(u) => Pending(u)'
      <3>1. Typed
        BY DEF Inv
      <3> QED BY <3>1, PendingIs, PendingThen
    <2>2. RowStep(u)
      BY <2>1 DEF RowStep
    <2> QED BY <1>1, <2>2, UserRests
  <1>4. \A t \in Tenants : TenantInv(t)'
    BY <1>1, TenantRests
  <1>5. Apart'
    BY ApartRests DEF pointers, grafana, Inv, Apart
  <1> QED BY <1>2, <1>3, <1>4, <1>5 DEF Inv

LEMMA CreateUserInv ==
  ASSUME Inv, NEW u \in Users, CreateUser(u)
  PROVE  Inv'
  <1>1. /\ user[u] = "absent" /\ user' = [user EXCEPT ![u] = "active"]
        /\ queued' = queued \cup {u} /\ UNCHANGED <<tenant, pointers, grafana, task>>
    BY DEF CreateUser
  <1>2. /\ user' \in [Users -> UserStatus] /\ user'[u] = "active"
        /\ \A v \in Users \ {u} : user'[v] = user[v]
    BY <1>1 DEF Inv, Typed, UserStatus
  <1>3. queued' \subseteq Keys /\ tenant' \in [Tenants -> {"active", "deleted"}]
    BY <1>1 DEF Inv, Typed, TaskTyped, Keys
  <1>4. \A v \in Users : Wanted(v) => Wanted(v)'
    BY <1>1, <1>2 DEF Wanted
  <1> QED BY <1>1, <1>2, <1>3, <1>4, RowsMove

LEMMA SetUserInv ==
  ASSUME Inv, NEW u \in Users, NEW from, NEW to \in UserStatus \ {"absent"}, SetUser(u, from, to)
  PROVE  Inv'
  <1>1. /\ user' = [user EXCEPT ![u] = to]
        /\ queued' = queued \cup {u} /\ UNCHANGED <<tenant, pointers, grafana, task>>
    BY DEF SetUser
  <1>2. /\ user' \in [Users -> UserStatus] /\ user'[u] = to
        /\ \A v \in Users \ {u} : user'[v] = user[v]
    BY <1>1 DEF Inv, Typed
  <1>3. queued' \subseteq Keys /\ tenant' \in [Tenants -> {"active", "deleted"}]
    BY <1>1 DEF Inv, Typed, TaskTyped, Keys
  <1>4. \A v \in Users : Wanted(v) => Wanted(v)' \/ v \in queued'
    BY <1>1, <1>2 DEF Wanted
  <1> QED BY <1>1, <1>2, <1>3, <1>4, RowsMove

LEMMA ChangeUserInv ==
  ASSUME Inv, NEW u \in Users, ChangeUser(u)
  PROVE  Inv'
  BY SetUserInv DEF ChangeUser, UserStatus

LEMMA DeleteTenantInv ==
  ASSUME Inv, NEW t \in Tenants, DeleteTenant(t)
  PROVE  Inv'
  <1>1. /\ tenant' = [tenant EXCEPT ![t] = "deleted"]
        /\ user' = [u \in Users |->
             IF u \in UsersOf(t) /\ user[u] # "absent" THEN "deleted" ELSE user[u]]
        /\ queued' = queued \cup {t} \cup {u \in UsersOf(t) : user[u] \in {"active", "disabled"}}
        /\ UNCHANGED <<pointers, grafana, task>>
    BY DEF DeleteTenant
  <1>2. /\ tenant \in [Tenants -> {"active", "deleted"}] /\ user \in [Users -> UserStatus]
        /\ queued \subseteq Keys
    BY DEF Inv, Typed, TaskTyped
  <1>3. /\ tenant' \in [Tenants -> {"active", "deleted"}]
        /\ \A s \in Tenants : tenant'[s] \in {tenant[s], "deleted"} /\ (s # t => tenant'[s] = tenant[s])
    BY <1>1, <1>2
  <1>4. /\ user' \in [Users -> UserStatus]
        /\ \A u \in Users : /\ u \in UsersOf(t) /\ user[u] # "absent" => user'[u] = "deleted"
                            /\ ~(u \in UsersOf(t) /\ user[u] # "absent") => user'[u] = user[u]
    BY <1>1, <1>2 DEF UserStatus
  <1>5. queued' \subseteq Keys /\ queued \subseteq queued'
    BY <1>1, <1>2 DEF Keys, UsersOf
  <1>6. ASSUME NEW u \in Users
        PROVE  /\ user[u] # "absent" => user'[u] # "absent"
               /\ user'[u] = "absent" => (u \in queued' => u \in queued)
               /\ user[u] = "active" => user'[u] = "active" \/ u \in queued'
               /\ Wanted(u) => Wanted(u)' \/ u \in queued'
    <2>1. CASE TenantOf[u] = t
      <3>1. u \in UsersOf(t) /\ u # t
        BY <2>1, Ids DEF UsersOf
      <3>2. user[u] = "active" => u \in queued'
        BY <1>1, <3>1
      <3>3. user'[u] = "absent" => user[u] = "absent"
        BY <1>4, <3>1
      <3>4. user[u] = "absent" => (u \in queued' => u \in queued)
        BY <1>1, <3>1
      <3>5. Wanted(u) => user[u] = "active"
        BY DEF Wanted
      <3> QED BY <3>2, <3>3, <3>4, <3>5
    <2>2. CASE TenantOf[u] # t
      <3>1. u \notin UsersOf(t) /\ u # t /\ TenantOf[u] \in Tenants
        BY <2>2, Ids DEF UsersOf
      <3>2. user'[u] = user[u] /\ tenant'[TenantOf[u]] = tenant[TenantOf[u]] /\ (u \in queued' => u \in queued)
        BY <1>1, <1>3, <1>4, <2>2, <3>1
      <3> QED BY <3>2 DEF Wanted
    <2> QED BY <2>1, <2>2
  <1> QED BY <1>1, <1>3, <1>4, <1>5, <1>6, RowsMove

LEMMA ResyncInv ==
  ASSUME Inv, NEW k \in Keys, Resync(k)
  PROVE  Inv'
  <1>1. /\ k \in ResyncedTenants \cup ResyncedUsers /\ queued' = queued \cup {k}
        /\ UNCHANGED <<rows, pointers, grafana, task>>
    BY DEF Resync
  <1>2. tenant' = tenant /\ user' = user
    BY <1>1 DEF rows
  <1>3. ASSUME NEW u \in Users, u = k
        PROVE  user[u] # "absent"
    <2>1. u \in ResyncedUsers
      BY <1>1, <1>3, Ids DEF ResyncedTenants
    <2> QED BY <2>1 DEF ResyncedUsers, Inv, UserInv, NothingYet
  <1>4. \A u \in Users : Wanted(u) => Wanted(u)'
    BY <1>2 DEF Wanted
  <1>5. /\ queued' \subseteq Keys /\ queued \subseteq queued'
        /\ tenant' \in [Tenants -> {"active", "deleted"}] /\ user' \in [Users -> UserStatus]
    BY <1>1, <1>2 DEF Inv, Typed, TaskTyped
  <1>6. \A u \in Users : user[u] = "absent" => (u \in queued' => u \in queued)
    BY <1>1, <1>3
  <1> QED BY <1>1, <1>2, <1>4, <1>5, <1>6, RowsMove

LEMMA FailInv ==
  ASSUME Inv, NEW k \in Keys, Fail(k)
  PROVE  Inv'
  <1>1. task[k].at # "idle" /\ Throw(k) /\ UNCHANGED <<rows, pointers, grafana>>
    BY DEF Fail, At
  <1>2. CASE k \in Users
    BY <1>1, <1>2, UserThrows
  <1>3. CASE k \in Tenants
    BY <1>1, <1>3, TenantThrows DEF grafana, Inv, Typed
  <1> QED BY <1>2, <1>3 DEF Keys

-----------------------------------------------------------------------------
(* The invariant holds                                                     *)

LEMMA StutterInv ==
  ASSUME Inv, UNCHANGED vars
  PROVE  Inv'
  <1>1. tenant' = tenant /\ user' = user /\ queued' = queued
    BY DEF vars, rows
  <1>2. \A u \in Users : Wanted(u) => Wanted(u)'
    BY <1>1 DEF Wanted
  <1>3. queued' \subseteq Keys
    BY <1>1 DEF Inv, Typed, TaskTyped
  <1> QED BY <1>1, <1>2, <1>3, RowsMove DEF vars, Inv, Typed

LEMMA NextInv == Inv /\ [Next]_vars => Inv'
  <1> SUFFICES ASSUME Inv, [Next]_vars PROVE Inv'
    OBVIOUS
  <1>1. ASSUME NEW u \in Users, CreateUser(u) \/ ChangeUser(u)
        PROVE  Inv'
    BY <1>1, CreateUserInv, ChangeUserInv
  <1>2. ASSUME NEW u \in Users, SyncUser(u)
        PROVE  Inv'
    BY <1>2, ReadUserInv, ReadTenantInv, DeleteAccountInv, ClearAccountInv, GetAccountInv, LookupInv,
       CreateInv, StoreAccountInv, GetOrgsInv, AddOrgInv, RemoveOrgsInv DEF SyncUser
  <1>3. ASSUME NEW t \in Tenants, DeleteTenant(t)
        PROVE  Inv'
    BY <1>3, DeleteTenantInv
  <1>4. ASSUME NEW t \in Tenants, SyncTenant(t)
        PROVE  Inv'
    BY <1>4, ReadTenantRowInv, EnsureOrgInv, ProvisionOrgInv, StoreOrgInv, DeleteOrgInv, RetireOrgInv,
       EmptyOrgInv, RenameOrgInv, ClearOrgInv, FanOutInv DEF SyncTenant
  <1>5. ASSUME NEW k \in Keys, Resync(k) \/ Fail(k)
        PROVE  Inv'
    BY <1>5, ResyncInv, FailInv
  <1>6. CASE UNCHANGED vars
    BY <1>6, StutterInv
  <1> QED BY <1>1, <1>2, <1>3, <1>4, <1>5, <1>6 DEF Next, Keys
\* At most one tenant has its org at the start.
LEMMA OneProvisioned ==
  LET n == Cardinality(Provisioned)
      chosen == CHOOSE t \in Provisioned : TRUE
  IN \/ n = 0 /\ Provisioned = {}
     \/ n = 1 /\ Provisioned # {} /\ 1 \in OrgIds /\ chosen \in Tenants
              /\ \A t \in Provisioned : t = chosen
  <1> DEFINE chosen == CHOOSE t \in Provisioned : TRUE
  <1>1. CASE Provisioned = {}
    BY <1>1, FS_EmptySet
  <1>2. CASE Provisioned # {}
    <2>1. chosen \in Provisioned
      BY <1>2
    <2>2. \A t \in Provisioned : t = chosen
      BY <2>1, GrafanaAssumption
    <2> HIDE DEF chosen
    <2>3. Provisioned = {chosen}
      BY <2>1, <2>2
    <2>4. Cardinality({chosen}) = 1
      BY FS_Singleton
    <2> QED BY <1>2, <2>1, <2>2, <2>3, <2>4, GrafanaAssumption DEF chosen
  <1> QED BY <1>1, <1>2

\* At the start nothing but the org of the provisioned tenant is there.
LEMMA InitInv == Init => Inv
  <1> SUFFICES ASSUME Init PROVE Inv
    OBVIOUS
  <1> DEFINE n == Cardinality(Provisioned)
  <1> DEFINE chosen == CHOOSE t \in Provisioned : TRUE
  <1>1. \/ n = 0 /\ Provisioned = {}
        \/ n = 1 /\ Provisioned # {} /\ 1 \in OrgIds /\ chosen \in Tenants
                 /\ \A t \in Provisioned : t = chosen
    BY OneProvisioned
  <1> HIDE DEF n, chosen
  <1>2. /\ tenant = [t \in Tenants |-> "active"] /\ user = [u \in Users |-> "absent"]
        /\ orgOf = [t \in Tenants |-> IF t \in Provisioned THEN 1 ELSE None]
        /\ accountOf = [u \in Users |-> None]
        /\ org = [o \in OrgIds |-> IF o <= n THEN LiveName(chosen) ELSE NoName]
        /\ account = [a \in AccountIds |-> NoName] /\ member = {}
        /\ content = {1} \X {i \in Items : Provisioned # {}}
        /\ top = [org |-> n, account |-> 0]
        /\ queued = Tenants \ Provisioned /\ task = [k \in Keys |-> Idle]
    BY DEF Init, n, chosen, Keys
  <1>3. /\ \A o \in OrgIds : o \in Nat \ {0}
        /\ \A a \in AccountIds : a \in Nat \ {0}
        /\ None = 0
    BY Ids
  <1>4. \A o \in OrgIds : org[o] # NoName => n = 1 /\ o = 1
    BY <1>1, <1>2, <1>3
  <1>5. n = 1 => org[1] = LiveName(chosen)
    BY <1>1, <1>2
  <1>6. Typed
    <2>1. orgOf \in [Tenants -> OrgIds \cup {None}]
      BY <1>1, <1>2
    <2>2. org \in [OrgIds -> OrgNames \cup {NoName}]
      BY <1>1, <1>2, <1>3 DEF OrgNames
    <2>3. content \subseteq OrgIds \X Items
      BY <1>1, <1>2
    <2>4. top \in [org : OrgIds \cup {0}, account : AccountIds \cup {0}]
      BY <1>1, <1>2
    <2>5. TaskTyped
      BY <1>2, IdleTask DEF TaskTyped, Keys
    <2> QED BY <1>2, <2>1, <2>2, <2>3, <2>4, <2>5 DEF Typed, UserStatus
  <1>7. ASSUME NEW u \in Users
        PROVE  UserInv(u)
    <2>1. task[u] = Idle /\ accountOf[u] = None /\ user[u] = "absent" /\ u \notin queued
      BY <1>2, Ids DEF Keys
    <2> QED BY <2>1, IdleTask DEF UserInv, KnowsPointer, OwnAccount, WantsItsOrg, OwnPointer,
         NothingYet, Entitled, UserSteps
  <1>8. ASSUME NEW t \in Tenants
        PROVE  TenantInv(t)
    <2>1. task[t] = Idle
      BY <1>2 DEF Keys
    <2>2. orgOf[t] # None => org[orgOf[t]] = LiveName(t)
      <3>1. orgOf[t] # None => t \in Provisioned /\ orgOf[t] = 1
        BY <1>2
      <3> QED BY <1>1, <1>5, <3>1
    <2> QED BY <2>1, <2>2, IdleTask DEF TenantInv, TenantSteps
  <1>9. Apart
    <2>1. top.account = 0 /\ top.org = n
      BY <1>2
    <2>2. \A u \in Users : accountOf[u] = 0 /\ task[u].id = 0
      BY <1>2, <1>3, IdleTask DEF Keys
    <2>3. \A o \in OrgIds : org[o] # NoName => o <= top.org
      BY <1>4, <2>1
    <2> QED BY <1>2, <1>3, <2>1, <2>2, <2>3 DEF Apart
  <1> QED BY <1>6, <1>7, <1>8, <1>9 DEF Inv

LEMMA InvHolds == Spec => []Inv
  BY InitInv, NextInv, PTL DEF Spec

LEMMA BoundsHold == Spec => []BoundsTyped
  <1>1. Init => BoundsTyped
    BY GrafanaAssumption DEF Init, BoundsTyped
  <1>2. BoundsTyped /\ [Next]_vars => BoundsTyped'
    <2> SUFFICES ASSUME BoundsTyped, [Next]_vars PROVE BoundsTyped'
      OBVIOUS
    <2>1. \/ UNCHANGED bounds
          \/ Bounded
          \/ fails < MaxFails /\ fails' = fails + 1 /\ changes' = changes
      <3>1. ASSUME NEW u \in Users, CreateUser(u) \/ ChangeUser(u)
            PROVE  Bounded
        BY <3>1 DEF CreateUser, ChangeUser, SetUser
      <3>2. ASSUME NEW u \in Users, SyncUser(u)
            PROVE  UNCHANGED bounds
        BY <3>2 DEF SyncUser, ReadUser, ReadTenant, DeleteAccount, ClearAccount, GetAccount, Lookup,
           Create, StoreAccount, GetOrgs, AddOrg, RemoveOrgs
      <3>3. ASSUME NEW t \in Tenants, SyncTenant(t)
            PROVE  UNCHANGED bounds \/ (fails < MaxFails /\ fails' = fails + 1 /\ changes' = changes)
        BY <3>3 DEF SyncTenant, ReadTenantRow, EnsureOrg, ProvisionOrg, StoreOrg, DeleteOrg,
           RetireOrg, EmptyOrg, RenameOrg, ClearOrg, FanOut, bounds
      <3>4. ASSUME NEW k \in Tenants \cup Users, Resync(k) \/ Fail(k)
            PROVE  UNCHANGED bounds \/ (fails < MaxFails /\ fails' = fails + 1 /\ changes' = changes)
        BY <3>4 DEF Resync, Fail
      <3>5. ASSUME NEW t \in Tenants, DeleteTenant(t)
            PROVE  Bounded
        BY <3>5 DEF DeleteTenant
      <3> QED BY <3>1, <3>2, <3>3, <3>4, <3>5 DEF Next, vars
    <2> QED BY <2>1, GrafanaAssumption DEF BoundsTyped, Bounded, bounds
  <1> QED BY <1>1, <1>2, PTL DEF Spec

-----------------------------------------------------------------------------
(* Theorems                                                                *)

\* Every variable has its type, whatever the handlers of tenants and users of
\* Grafana read, are refused or leave half done.
THEOREM TypeCorrect == Spec => []TypeOK
  <1>1. Inv /\ BoundsTyped => TypeOK
    BY TypeParts DEF Inv
  <1> QED BY <1>1, InvHolds, BoundsHold, PTL

\* A member of an org that the database knows of belongs to an active user of
\* the org's tenant, or a sync that looks at it is still to come, whatever
\* order the handlers of grafana-user.mirror.ts and grafana-tenant.mirror.ts
\* run and fail in and whoever has had the name before.
THEOREM MembersOfOrgsAreEntitled == Spec => []MembersAreEntitled
  <1>1. Inv => MembersAreEntitled
    <2> SUFFICES ASSUME Inv, NEW a \in AccountIds, NEW o \in OrgIds, <<a, o>> \in member,
                        NEW u \in Users, accountOf[u] = a
                 PROVE  /\ MyName(u) = account[a]
                        /\ Pending(u) \/ (Wanted(u) /\ org[o] = LiveName(TenantOf[u]))
      BY DEF MembersAreEntitled, Recorded
    <2>1. a # None /\ OwnPointer(u) /\ Entitled(u)
      BY Numbers DEF Inv, UserInv
    <2>2. account[a] # NoName
      <3> DEFINE m == <<a, o>>
      <3>1. account[m[1]] # NoName
        BY DEF Inv, Apart
      <3> QED BY <3>1
    <2> QED BY <2>1, <2>2 DEF OwnPointer, Entitled
  <1> QED BY <1>1, InvHolds, PTL

LEMMA AccountsMove == Inv /\ [Next]_vars => AccountStep
  <1> SUFFICES ASSUME Inv, [Next]_vars PROVE AccountStep
    OBVIOUS
  <1>1. ASSUME NEW u \in Users, DeleteAccount(u)
        PROVE  AccountStep
    <2>1. task[u].at = "deleteAccount" /\ account' = [account EXCEPT ![task[u].ptr] = NoName]
      BY <1>1 DEF DeleteAccount, At
    <2>2. task[u].ptr = accountOf[u] /\ account \in [AccountIds -> Logins \cup {NoName}]
      BY <2>1 DEF Inv, Typed, UserInv, KnowsPointer, UserSteps
    <2> QED BY <2>1, <2>2 DEF AccountStep
  <1>2. ASSUME NEW u \in Users, Create(u)
        PROVE  AccountStep
    <2>1. \/ account' = account
          \/ account' = [account EXCEPT ![top.account + 1] = MyName(u)]
      BY <1>2 DEF Create
    <2>2. top.account + 1 > top.account /\ account \in [AccountIds -> Logins \cup {NoName}]
      BY Numbers DEF Inv, Typed
    <2> QED BY <2>1, <2>2 DEF AccountStep
  <1>3. ASSUME NEW u \in Users, SyncUser(u), ~DeleteAccount(u), ~Create(u)
        PROVE  UNCHANGED account
    BY <1>3 DEF SyncUser, ReadUser, ReadTenant, ClearAccount, GetAccount, Lookup,
       StoreAccount, GetOrgs, AddOrg, RemoveOrgs, grafana
  <1>4. ASSUME NEW t \in Tenants, DeleteTenant(t) \/ SyncTenant(t)
        PROVE  UNCHANGED account
    BY <1>4 DEF DeleteTenant, SyncTenant, ReadTenantRow, EnsureOrg, ProvisionOrg, StoreOrg, DeleteOrg,
       RetireOrg, EmptyOrg, RenameOrg, ClearOrg, FanOut, grafana
  <1>5. ASSUME NEW u \in Users, CreateUser(u) \/ ChangeUser(u)
        PROVE  UNCHANGED account
    BY <1>5 DEF CreateUser, ChangeUser, SetUser, grafana
  <1>6. ASSUME NEW k \in Tenants \cup Users, Resync(k) \/ Fail(k)
        PROVE  UNCHANGED account
    BY <1>6 DEF Resync, Fail, grafana
  <1>7. UNCHANGED vars => UNCHANGED account
    BY DEF vars, grafana
  <1> QED BY <1>1, <1>2, <1>3, <1>4, <1>5, <1>6, <1>7, NothingMoves DEF Next

\* What DeletesOwn says of a step.
DeletesOwnAccount ==
  \A a \in AccountIds, u \in Users :
    /\ account[a] # NoName /\ account'[a] = NoName
    /\ accountOf[u] = a
    => At(u, "deleteAccount")

\* No handler deletes the account the database gives to another user, between
\* whatever it has read and its request (grafana-user.mirror.ts:55-71).
THEOREM HandlersDeleteTheirOwn == Spec => DeletesOwn
  <1>1. Inv /\ [Next]_vars => DeletesOwnAccount
    <2> SUFFICES ASSUME Inv, [Next]_vars, NEW a \in AccountIds, NEW u \in Users,
                        account[a] # NoName, account'[a] = NoName, accountOf[u] = a
                 PROVE  At(u, "deleteAccount")
      BY DEF DeletesOwnAccount
    <2>1. ~(a > top.account) /\ a # None
      BY Numbers
    <2>2. PICK w \in Users : task[w].at = "deleteAccount" /\ accountOf[w] = a
      BY <2>1, AccountsMove DEF AccountStep
    <2>3. w = u
      BY <2>1, <2>2 DEF Inv, Apart
    <2> QED BY <2>2, <2>3 DEF At
  <1>2. DeletesOwn <=> [][DeletesOwnAccount]_vars
    BY PTL DEF DeletesOwn, DeletesOwnAccount
  <1> QED BY <1>1, <1>2, InvHolds, PTL DEF Spec

-----------------------------------------------------------------------------
(* What is settled once nothing is pending                                 *)
(*                                                                         *)
(* Rest is inductive with Inv: for each row at each step of its handler,   *)
(* what is done already, unless the row is queued again.                   *)

OwnNames(t) == {LiveName(t), RetiredName(t)}
Takes == {"ensureOrg", "provision", "storeOrg"}
Removes == {"deleteOrg", "retireOrg", "emptyOrg", "renameOrg", "clearOrg"}

\* A tenant has one org at most, whose id the row keeps until it is gone.
OneOrg(t) ==
  /\ \A o, p \in OrgIds : org[o] \in OwnNames(t) /\ org[p] \in OwnNames(t) => o = p
  /\ orgOf[t] <= top.org
  /\ tenant[t] = "active" \/ task[t].at \in Takes => \A o \in OrgIds : org[o] # RetiredName(t)
  /\ orgOf[t] # None =>
       \/ org[orgOf[t]] \in OwnNames(t)
       \/ /\ org[orgOf[t]] = NoName /\ tenant[t] = "deleted"
          /\ \A o \in OrgIds : org[o] \notin OwnNames(t)
          /\ (t \in queued /\ task[t].at = "idle") \/ task[t].at \in {"deleteOrg", "clearOrg"}

\* Its handler knows the row's org, and what is in the org it is done with.
KnowsOrg(t) ==
  /\ task[t].at \in Takes => task[t].ptr = orgOf[t] /\ (tenant[t] = "active" \/ t \in queued)
  /\ task[t].at \in Removes => task[t].ptr = orgOf[t] /\ orgOf[t] # None
  /\ task[t].at = "storeOrg" => ContentOf(task[t].id) = Items
  /\ task[t].at \in {"retireOrg", "emptyOrg", "renameOrg"} => task[t].id = orgOf[t]
  /\ task[t].at = "renameOrg" => ContentOf(task[t].id) = {}

TenantRested(t) == t \notin queued /\ task[t].at \in {"idle", "fanOut"} => TenantSettled(t)

\* The handler of a user deletes an account nobody is to have, or works on the
\* membership in the org the tenant has.
Following == {"getAccount", "lookup", "create", "storeAccount", "getOrgs", "addOrg", "removeOrgs"}
KnowsUser(u) ==
  /\ task[u].at \in {"deleteAccount", "clearAccount"} => u \in queued \/ ~Wanted(u)
  /\ task[u].at \in Following /\ u \notin queued => orgOf[TenantOf[u]] # None
  /\ task[u].at \in {"addOrg", "removeOrgs"} => task[u].want \notin task[u].others
  /\ task[u].at = "removeOrgs" /\ u \notin queued => <<task[u].id, task[u].want>> \in member

UserRested(u) == u \notin queued /\ task[u].at = "idle" => UserSettled(u)

TenantRest(t) == OneOrg(t) /\ KnowsOrg(t) /\ TenantRested(t)
UserRest(u) == KnowsUser(u) /\ UserRested(u)

Rest == (\A t \in Tenants : TenantRest(t)) /\ (\A u \in Users : UserRest(u))

\* The org of a tenant and what it holds stay, and no other becomes its org.
OrgsKept(t) ==
  /\ \A o \in OrgIds : \/ org'[o] = org[o]
                       \/ org[o] \notin OwnNames(t) /\ org'[o] \notin OwnNames(t) /\ o # orgOf[t]
  /\ \A o \in OrgIds : org[o] \in OwnNames(t) => ContentOf(o)' = ContentOf(o)
  /\ top'.org \in {top.org, top.org + 1}

LEMMA Fixed ==
  ASSUME Inv, Rest, NEW t \in Tenants
  PROVE  /\ OneOrg(t) /\ KnowsOrg(t) /\ TenantRested(t) /\ TenantInv(t)
         /\ orgOf[t] \in OrgIds \cup {None} /\ orgOf[t] \in Nat /\ top.org \in Nat
         /\ tenant[t] \in {"active", "deleted"} /\ task[t].id \in OrgIds \cup {None}
         /\ None \notin OrgIds
  <1>1. \A i \in OrgIds \cup {None} : i \in Nat
    BY Ids
  <1>2. TenantInv(t) /\ orgOf[t] \in OrgIds \cup {None} /\ tenant[t] \in {"active", "deleted"}
    BY TenantKnown
  <1> QED BY <1>1, <1>2, Numbers DEF Rest, TenantRest, TenantInv

LEMMA TenantKept ==
  ASSUME Inv, Rest, NEW t \in Tenants, task'[t] = task[t], orgOf'[t] = orgOf[t],
         t \in queued => t \in queued',
         tenant'[t] = tenant[t] \/ (tenant'[t] = "deleted" /\ t \in queued'),
         OrgsKept(t)
  PROVE  TenantRest(t)'
  <1>1. /\ OneOrg(t) /\ KnowsOrg(t) /\ TenantRested(t) /\ TenantInv(t)
        /\ orgOf[t] \in OrgIds \cup {None} /\ orgOf[t] \in Nat /\ top.org \in Nat
        /\ tenant[t] \in {"active", "deleted"} /\ task[t].id \in OrgIds \cup {None}
    BY Fixed
  <1>2. /\ \A o \in OrgIds : org'[o] \in OwnNames(t) <=> org[o] \in OwnNames(t)
        /\ \A o \in OrgIds : org'[o] = org[o] \/ org'[o] \notin OwnNames(t)
        /\ orgOf[t] # None => org'[orgOf[t]] = org[orgOf[t]]
    BY <1>1 DEF OrgsKept
  <1>3. OwnNames(t)' = OwnNames(t) /\ LiveName(t) \in OwnNames(t) /\ RetiredName(t) \in OwnNames(t)
        /\ LiveName(t)' = LiveName(t) /\ RetiredName(t)' = RetiredName(t)
    BY DEF OwnNames, LiveName, RetiredName
  <1>4. OneOrg(t)'
    <2>1. orgOf'[t] <= top'.org
      BY <1>1 DEF OneOrg, OrgsKept
    <2>2. \A o \in OrgIds : org[o] # RetiredName(t) => org'[o] # RetiredName(t)
      BY <1>2, <1>3
    <2>3. tenant'[t] = "active" => tenant[t] = "active"
      OBVIOUS
    <2> QED BY <1>1, <1>2, <1>3, <2>1, <2>2, <2>3 DEF OneOrg
  <1>5. KnowsOrg(t)'
    <2>1. task[t].at \in {"storeOrg", "renameOrg"} => ContentOf(task[t].id)' = ContentOf(task[t].id)
      <3>1. task[t].at \in {"storeOrg", "renameOrg"} => task[t].id \in OrgIds /\ org[task[t].id] \in OwnNames(t)
        BY <1>1 DEF TenantInv, OwnNames
      <3> QED BY <3>1 DEF OrgsKept, ContentOf
    <2> QED BY <1>1, <2>1 DEF KnowsOrg, ContentOf
  <1>6. TenantRested(t)'
    <2> SUFFICES ASSUME t \notin queued', task[t].at \in {"idle", "fanOut"}
                 PROVE  TenantSettled(t)'
      BY DEF TenantRested
    <2>1. t \notin queued /\ tenant'[t] = tenant[t] /\ TenantSettled(t)
      BY <1>1 DEF TenantRested
    <2>2. ASSUME orgOf[t] # None
          PROVE  org'[orgOf[t]] = org[orgOf[t]] /\ ContentOf(orgOf[t])' = ContentOf(orgOf[t])
      <3>1. org[orgOf[t]] \in OwnNames(t) /\ orgOf[t] \in OrgIds
        BY <1>1, <2>1, <2>2 DEF OneOrg
      <3> QED BY <1>2, <2>2, <3>1 DEF OrgsKept
    <2> QED BY <1>3, <2>1, <2>2 DEF TenantSettled, ContentOf
  <1> QED BY <1>4, <1>5, <1>6 DEF TenantRest

\* What is a member of its active tenant's org stays so.
MembershipKept(u) ==
  \A o \in OrgIds :
    <<accountOf[u], o>> \in member /\ Wanted(u) /\ org[o] = LiveName(TenantOf[u]) =>
      <<accountOf[u], o>> \in member'

LEMMA UserKept ==
  ASSUME Inv, Rest, NEW u \in Users, task'[u] = task[u], accountOf'[u] = accountOf[u],
         u \in queued => u \in queued',
         (Wanted(u)' <=> Wanted(u)) \/ u \in queued',
         tenant[TenantOf[u]] = "active" /\ orgOf[TenantOf[u]] # None =>
           orgOf'[TenantOf[u]] = orgOf[TenantOf[u]],
         AccountStep, MemberStep, MembershipKept(u)
  PROVE  UserRest(u)'
  <1> DEFINE t == TenantOf[u]
  <1>1. /\ KnowsUser(u) /\ UserRested(u) /\ OwnAccount(u) /\ WantsItsOrg(u) /\ KnowsPointer(u)
        /\ accountOf[u] \in AccountIds \cup {None} /\ ~(accountOf[u] > top.account)
        /\ t \in Tenants /\ None \notin OrgIds
    BY Numbers DEF Rest, UserRest, Inv, UserInv
  <1>2. Wanted(u) => tenant[t] = "active"
    BY DEF Wanted
  <1>3. KnowsUser(u)'
    <2>1. task[u].at \in Following /\ u \notin queued' => orgOf'[t] # None
      BY <1>1, <1>2 DEF KnowsUser, WantsItsOrg, Following
    <2>2. task[u].at = "removeOrgs" /\ u \notin queued' => <<task[u].id, task[u].want>> \in member'
      BY <1>1 DEF KnowsUser, WantsItsOrg, OwnAccount, MembershipKept
    <2> QED BY <1>1, <2>1, <2>2 DEF KnowsUser
  <1>4. UserRested(u)'
    <2> SUFFICES ASSUME u \notin queued', task[u].at = "idle"
                 PROVE  UserSettled(u)'
      BY DEF UserRested
    <2>1. u \notin queued /\ (Wanted(u)' <=> Wanted(u)) /\ UserSettled(u)
      BY <1>1 DEF UserRested
    <2>2. CASE ~Wanted(u)
      BY <2>1, <2>2 DEF UserSettled
    <2>3. CASE Wanted(u)
      <3> DEFINE a == accountOf[u]
      <3>1. /\ a # None /\ account[a] = MyName(u) /\ a \in AccountIds
            /\ \A o \in OrgIds : <<a, o>> \in member <=> o = orgOf[t]
            /\ orgOf[t] \in OrgIds
        <4>1. a # None /\ account[a] = MyName(u) /\ {o \in OrgIds : <<a, o>> \in member} = {orgOf[t]}
          BY <2>1, <2>3 DEF UserSettled
        <4> QED BY <1>1, <4>1
      <3>2. orgOf'[t] = orgOf[t] /\ org[orgOf[t]] = LiveName(t)
        BY <1>1, <1>2, <2>3, <3>1, TenantKnown DEF TenantInv
      <3>3. \A w \in Users : accountOf[w] = a => w = u
        BY <3>1 DEF Inv, Apart
      <3>4. account'[a] = account[a]
        BY <1>1, <3>1, <3>3 DEF AccountStep
      <3>5. ASSUME NEW o \in OrgIds, <<a, o>> \in member'
            PROVE  <<a, o>> \in member
        <4> DEFINE m == <<a, o>>
        <4>1. \/ m \in member \/ m[1] > top.account
              \/ \E w \in Users : task[w].at = "addOrg" /\ task'[w].at # "addOrg" /\ accountOf[w] = m[1]
          BY <3>5 DEF MemberStep
        <4> QED BY <1>1, <3>3, <4>1
      <3>6. <<a, orgOf[t]>> \in member'
        BY <2>3, <3>1, <3>2 DEF MembershipKept
      <3>7. {o \in OrgIds : <<a, o>> \in member'} = {orgOf'[t]}
        BY <3>1, <3>2, <3>5, <3>6
      <3> QED BY <2>1, <2>3, <3>1, <3>4, <3>7 DEF UserSettled, MyName
    <2> QED BY <2>2, <2>3
  <1> QED BY <1>3, <1>4 DEF UserRest

\* A step of the handler of a user.
LEMMA UserActs ==
  ASSUME Inv, Rest, NEW u \in Users, Others(u), UNCHANGED <<rows, orgOf, org, content>>,
         top'.org = top.org,
         \A k \in Keys \ {u} : k \in queued' <=> k \in queued,
         \A v \in Users \ {u} : accountOf'[v] = accountOf[v],
         \A m \in member : m \in member' \/ m[1] = accountOf[u],
         AccountStep, MemberStep, UserRest(u)'
  PROVE  Rest'
  <1>1. tenant' = tenant /\ user' = user /\ orgOf' = orgOf /\ org' = org /\ content' = content
    BY DEF rows
  <1>2. ASSUME NEW t \in Tenants
        PROVE  TenantRest(t)'
    <2>1. t \in Keys \ {u}
      BY Ids DEF Keys
    <2>2. OrgsKept(t)
      BY <1>1 DEF OrgsKept, ContentOf
    <2> QED BY <1>1, <2>1, <2>2, TenantKept DEF Others
  <1>3. ASSUME NEW v \in Users \ {u}
        PROVE  UserRest(v)'
    <2>1. v \in Keys \ {u}
      BY DEF Keys
    <2>2. MembershipKept(v)
      <3> SUFFICES ASSUME NEW o \in OrgIds, <<accountOf[v], o>> \in member
                   PROVE  <<accountOf[v], o>> \in member'
        BY DEF MembershipKept
      <3> DEFINE m == <<accountOf[v], o>>
      <3>1. accountOf[v] \in AccountIds /\ None \notin AccountIds
        BY Ids DEF Inv, Typed
      <3>2. accountOf[v] # accountOf[u]
        BY <3>1 DEF Inv, Apart
      <3>3. m \in member /\ m[1] = accountOf[v]
        OBVIOUS
      <3> QED BY <3>2, <3>3
    <2>3. Wanted(v)' <=> Wanted(v)
      BY <1>1 DEF Wanted
    <2> QED BY <1>1, <2>1, <2>2, <2>3, UserKept DEF Others
  <1> QED BY <1>2, <1>3 DEF Rest

\* A step of the handler of a tenant.
LEMMA TenantActs ==
  ASSUME Inv, Rest, NEW t \in Tenants, Others(t), UNCHANGED <<rows, accountOf, account>>,
         \A s \in Tenants \ {t} : orgOf'[s] = orgOf[s],
         tenant[t] = "active" /\ orgOf[t] # None => orgOf'[t] = orgOf[t],
         \A k \in Keys \ {t} : k \in queued => k \in queued',
         member' \subseteq member,
         \A m \in member : m \in member' \/ (tenant[t] = "deleted" /\ org[m[2]] \in OwnNames(t)),
         \A o \in OrgIds :
           \/ org'[o] = org[o]
           \/ /\ {org[o], org'[o]} \subseteq OwnNames(t) \cup {NoName}
              /\ org[o] # NoName \/ o > top.org,
         \A o \in OrgIds : org[o] \notin OwnNames(t) => ContentOf(o)' = ContentOf(o),
         top'.org \in {top.org, top.org + 1},
         TenantRest(t)'
  PROVE  Rest'
  <1>1. tenant' = tenant /\ user' = user /\ AccountStep /\ MemberStep
    BY NothingMoves DEF rows
  <1>2. /\ \A s \in Tenants \ {t} : OwnNames(s) \cap (OwnNames(t) \cup {NoName}) = {}
        /\ NoName \notin OwnNames(t)
    BY NamesApart DEF OwnNames
  <1>3. ASSUME NEW s \in Tenants \ {t}
        PROVE  TenantRest(s)'
    <2>1. s \in Keys \ {t}
      BY DEF Keys
    <2>2. OneOrg(s) /\ orgOf[s] \in Nat /\ top.org \in Nat /\ None \notin OrgIds
      BY Fixed
    <2>3. OrgsKept(s)
      <3>1. ASSUME NEW o \in OrgIds, org'[o] # org[o]
            PROVE  org[o] \notin OwnNames(s) /\ org'[o] \notin OwnNames(s) /\ o # orgOf[s]
        <4>1. /\ org[o] \in OwnNames(t) \cup {NoName} /\ org'[o] \in OwnNames(t) \cup {NoName}
              /\ org[o] # NoName \/ o > top.org
          BY <3>1
        <4>2. o # orgOf[s]
          <5>1. orgOf[s] = o => org[o] = NoName \/ org[o] \in OwnNames(s)
            BY <4>1, <2>2, <1>2 DEF OneOrg
          <5>2. o > top.org => o # orgOf[s]
            BY <2>2 DEF OneOrg
          <5>3. org[o] \in OwnNames(s) => FALSE
            BY <1>2, <4>1
          <5> QED BY <1>2, <4>1, <5>1, <5>2, <5>3
        <4> QED BY <1>2, <4>1, <4>2
      <3>2. \A o \in OrgIds : org[o] \in OwnNames(s) => org[o] \notin OwnNames(t)
        BY <1>2
      <3> QED BY <3>1, <3>2 DEF OrgsKept
    <2> QED BY <1>1, <2>1, <2>3, TenantKept DEF Others
  <1>4. ASSUME NEW u \in Users
        PROVE  UserRest(u)'
    <2>1. u \in Keys \ {t} /\ TenantOf[u] \in Tenants
      BY Ids DEF Keys
    <2>2. MembershipKept(u)
      <3> SUFFICES ASSUME NEW o \in OrgIds, <<accountOf[u], o>> \in member, Wanted(u),
                          org[o] = LiveName(TenantOf[u])
                   PROVE  <<accountOf[u], o>> \in member'
        BY DEF MembershipKept
      <3> DEFINE m == <<accountOf[u], o>>
      <3>1. m[2] = o /\ tenant[TenantOf[u]] = "active"
        BY DEF Wanted
      <3>2. TenantOf[u] # t => org[o] \notin OwnNames(t)
        BY <2>1, NamesApart DEF OwnNames
      <3> QED BY <3>1, <3>2
    <2>3. Wanted(u)' <=> Wanted(u)
      BY <1>1 DEF Wanted
    <2>4. tenant[TenantOf[u]] = "active" /\ orgOf[TenantOf[u]] # None =>
            orgOf'[TenantOf[u]] = orgOf[TenantOf[u]]
      BY <2>1
    <2> QED BY <1>1, <2>1, <2>2, <2>3, <2>4, UserKept DEF Others
  <1> QED BY <1>3, <1>4 DEF Rest

\* One that changes nothing but the task,
LEMMA UserLooksRest ==
  ASSUME Inv, Rest, NEW u \in Users, Others(u), UNCHANGED <<rows, pointers, grafana>>,
         \A k \in Keys \ {u} : k \in queued' <=> k \in queued, UserRest(u)'
  PROVE  Rest'
  BY NothingMoves, UserActs DEF pointers, grafana

\* or gives up.
LEMMA UserThrowsRest ==
  ASSUME Inv, Rest, NEW u \in Users, task[u].at # "idle", Throw(u), UNCHANGED <<rows, pointers, grafana>>
  PROVE  Rest'
  <1>1. u \in Keys /\ TaskTyped
    BY Works
  <1>2. Others(u) /\ task'[u] = Idle /\ queued' = queued \cup {u}
    BY <1>1, TaskEnds DEF Throw
  <1>3. UserRest(u)'
    BY <1>2, IdleTask DEF UserRest, KnowsUser, UserRested, Following
  <1> QED BY <1>2, <1>3, UserLooksRest

\* What is known of a user and its handler.
LEMMA UserKnown ==
  ASSUME Inv, Rest, NEW u \in Users
  PROVE  /\ KnowsPointer(u) /\ OwnAccount(u) /\ WantsItsOrg(u) /\ KnowsUser(u) /\ UserRested(u)
         /\ u \in Keys /\ TaskTyped /\ task[u] \in Task
         /\ accountOf[u] \in AccountIds \cup {None} /\ None \notin AccountIds
  BY Ids DEF Rest, UserRest, Inv, UserInv, Keys, Typed, TaskTyped

LEMMA ReadUserRest ==
  ASSUME Inv, Rest, NEW u \in Users, ReadUser(u)
  PROVE  Rest'
  <1> DEFINE step == IF user[u] = "active" THEN "readTenant" ELSE Unwanted(u)
  <1> DEFINE r == [Idle EXCEPT !.at = step, !.ptr = accountOf[u]]
  <1>1. /\ u \in queued /\ queued' = queued \ {u} /\ task' = [task EXCEPT ![u] = r]
        /\ UNCHANGED <<rows, pointers, grafana>>
    BY DEF ReadUser, Claim
  <1>2. r.at = step /\ task'[u] = r /\ Others(u)
    BY <1>1, UserKnown DEF Idle, Others, TaskTyped
  <1>3. /\ step \in {"readTenant", "idle", "deleteAccount"}
        /\ step # "readTenant" => ~Wanted(u)
        /\ step = "idle" => accountOf[u] = None
    BY DEF Unwanted, Wanted
  <1>4. PICK k : k = r
    OBVIOUS
  <1> HIDE DEF r, step
  <1>5. task'[u] = k /\ k.at = step
    BY <1>2, <1>4
  <1>6. UserRest(u)'
    <2>1. KnowsUser(u)'
      BY <1>1, <1>3, <1>5 DEF KnowsUser, Following, Wanted, rows
    <2>2. UserRested(u)'
      BY <1>1, <1>3, <1>5 DEF UserRested, UserSettled, Wanted, rows, pointers
    <2> QED BY <2>1, <2>2 DEF UserRest
  <1> QED BY <1>1, <1>2, <1>6, UserLooksRest

LEMMA ReadTenantRest ==
  ASSUME Inv, Rest, NEW u \in Users, ReadTenant(u)
  PROVE  Rest'
  <1> DEFINE t == TenantOf[u]
  <1>1. task[u].at = "readTenant" /\ UNCHANGED <<rows, pointers, grafana>>
    BY DEF ReadTenant, At
  <1>2. Wanted(u)' <=> Wanted(u)
    BY <1>1 DEF Wanted, rows
  <1>3. CASE /\ orgOf[t] # None
             /\ task' = [task EXCEPT ![u] = [@ EXCEPT !.at = "getAccount", !.want = orgOf[t]]]
             /\ UNCHANGED queued
    <2>1. Others(u) /\ task'[u].at = "getAccount"
      BY <1>3, UserKnown DEF Others, TaskTyped, Task
    <2>2. UserRest(u)'
      BY <1>1, <1>3, <2>1 DEF UserRest, KnowsUser, UserRested, Following, pointers
    <2> QED BY <1>1, <1>3, <2>1, <2>2, UserLooksRest
  <1>4. CASE Throw(u)
    BY <1>1, <1>4, UserThrowsRest
  <1>5. CASE tenant[t] # "active" /\ task[u].ptr = None /\ Return(u)
    <2>1. Others(u) /\ task'[u] = Idle /\ queued' = queued
      BY <1>5, UserKnown, TaskEnds DEF Return
    <2>2. accountOf' = accountOf /\ accountOf[u] = None /\ ~Wanted(u)
      BY <1>1, <1>5, UserKnown DEF KnowsPointer, UserSteps, pointers, Wanted
    <2>3. UserRest(u)'
      BY <1>2, <2>1, <2>2, IdleTask DEF UserRest, KnowsUser, UserRested, Following, UserSettled
    <2> QED BY <1>1, <2>1, <2>3, UserLooksRest
  <1>6. CASE tenant[t] # "active" /\ Go(u, "deleteAccount") /\ UNCHANGED queued
    <2>1. Others(u) /\ task'[u].at = "deleteAccount"
      BY <1>6, UserKnown, TaskGoes DEF Steps, TaskTyped
    <2>2. ~Wanted(u)
      BY <1>6 DEF Wanted
    <2>3. UserRest(u)'
      BY <1>2, <2>1, <2>2 DEF UserRest, KnowsUser, UserRested, Following
    <2> QED BY <1>1, <1>6, <2>1, <2>3, UserLooksRest
  <1> QED BY <1>3, <1>4, <1>5, <1>6 DEF ReadTenant

LEMMA DeleteAccountRest ==
  ASSUME Inv, Rest, NEW u \in Users, DeleteAccount(u)
  PROVE  Rest'
  <1>1. /\ task[u].at = "deleteAccount" /\ Go(u, "clearAccount")
        /\ member' = {m \in member : m[1] # task[u].ptr}
        /\ UNCHANGED <<rows, pointers, org, content, top, queued>>
    BY DEF DeleteAccount, At
  <1>2. task[u].ptr = accountOf[u]
    BY <1>1, UserKnown DEF KnowsPointer, UserSteps
  <1>3. Others(u) /\ task'[u].at = "clearAccount"
    BY <1>1, UserKnown, TaskGoes DEF Steps, TaskTyped
  <1>4. UserRest(u)'
    BY <1>1, <1>3, UserKnown DEF UserRest, KnowsUser, UserRested, Following, Wanted, rows
  <1>5. AccountStep /\ MemberStep
    <2>1. AccountStep
      BY AccountsMove DEF Next, SyncUser
    <2> QED BY <1>1, <2>1, NothingMoves
  <1> QED BY <1>1, <1>2, <1>3, <1>4, <1>5, UserActs DEF pointers

LEMMA ClearAccountRest ==
  ASSUME Inv, Rest, NEW u \in Users, ClearAccount(u)
  PROVE  Rest'
  <1>1. /\ task[u].at = "clearAccount" /\ Return(u)
        /\ accountOf' = [accountOf EXCEPT ![u] = None]
        /\ UNCHANGED <<rows, orgOf, grafana>>
    BY DEF ClearAccount, At
  <1>2. Others(u) /\ task'[u] = Idle /\ queued' = queued
    BY <1>1, UserKnown, TaskEnds DEF Return
  <1>3. accountOf'[u] = None /\ \A v \in Users \ {u} : accountOf'[v] = accountOf[v]
    BY <1>1 DEF Inv, Typed
  <1>4. UserRest(u)'
    <2>1. u \notin queued' => ~Wanted(u)'
      BY <1>1, <1>2, UserKnown DEF KnowsUser, Wanted, rows
    <2> QED BY <1>2, <1>3, <2>1, IdleTask DEF UserRest, KnowsUser, UserRested, Following, UserSettled
  <1> QED BY <1>1, <1>2, <1>3, <1>4, NothingMoves, UserActs DEF grafana

\* A handler that has found the account, or looks for it.
LEMMA SeeksRest ==
  ASSUME Inv, Rest, NEW u \in Users, task[u].at \in Following, Others(u),
         task'[u].at \in {"lookup", "create", "storeAccount", "getOrgs"},
         UNCHANGED <<orgOf, queued>>
  PROVE  UserRest(u)'
  BY UserKnown DEF UserRest, KnowsUser, UserRested, Following

LEMMA GetAccountRest ==
  ASSUME Inv, Rest, NEW u \in Users, GetAccount(u)
  PROVE  Rest'
  <1>1. task[u].at = "getAccount" /\ UNCHANGED <<rows, pointers, grafana, queued>>
    BY DEF GetAccount, At
  <1>2. Others(u) /\ task'[u].at \in {"getOrgs", "lookup"}
    <2>1. task' = [task EXCEPT ![u] = IF Trusted(u) THEN [task[u] EXCEPT !.at = "getOrgs", !.id = task[u].ptr]
                                                    ELSE [task[u] EXCEPT !.at = "lookup"]]
      BY UserKnown DEF GetAccount, TaskTyped
    <2> QED BY <2>1, UserKnown DEF Others, TaskTyped, Task
  <1> QED BY <1>1, <1>2, SeeksRest, UserLooksRest DEF Following, pointers

LEMMA LookupRest ==
  ASSUME Inv, Rest, NEW u \in Users, Lookup(u)
  PROVE  Rest'
  <1>1. task[u].at = "lookup" /\ UNCHANGED <<rows, pointers, grafana, queued>>
    BY DEF Lookup, At
  <1>2. queued' = queued /\ queued' \subseteq Keys /\ u \in Keys /\ TaskTyped /\ task[u] \in Task
    BY <1>1, UserKnown DEF TaskTyped
  <1>3. CASE Go(u, "create")
    <2>1. Others(u) /\ task'[u].at = "create"
      BY <1>2, <1>3, TaskGoes DEF Steps
    <2> QED BY <1>1, <2>1, SeeksRest, UserLooksRest DEF Following, pointers
  <1>4. ASSUME NEW a \in AccountsNamed(MyName(u)), task' = [task EXCEPT ![u] = Ensured(u, a)]
        PROVE  Rest'
    <2>1. a \in AccountIds
      BY DEF AccountsNamed
    <2>2. PICK k : k = Ensured(u, a)
      OBVIOUS
    <2>3. k \in Task /\ k.at \in {"getOrgs", "storeAccount"}
      BY <1>2, <2>1, <2>2, EnsuredIs
    <2>4. Others(u) /\ task'[u] = k
      BY <1>2, <1>4, <2>2, <2>3, TaskSet
    <2> QED BY <1>1, <2>3, <2>4, SeeksRest, UserLooksRest DEF Following, pointers
  <1> QED BY <1>3, <1>4 DEF Lookup

LEMMA CreateRest ==
  ASSUME Inv, Rest, NEW u \in Users, Create(u)
  PROVE  Rest'
  <1> DEFINE new == top.account + 1
  <1>1. task[u].at = "create" /\ UNCHANGED <<rows, pointers, org, content>>
    BY DEF Create, At
  <1>2. u \in Keys /\ TaskTyped /\ task[u] \in Task
    BY UserKnown
  <1>3. CASE Throw(u) /\ UNCHANGED <<account, member, top>>
    BY <1>1, <1>3, UserThrowsRest DEF grafana
  <1>4. CASE /\ new \in AccountIds /\ UNCHANGED queued
             /\ member' = member \cup {<<new, task[u].want>>}
             /\ top' = [top EXCEPT !.account = new]
             /\ task' = [task EXCEPT ![u] = Ensured(u, new)]
    <2>1. PICK k : k = Ensured(u, new)
      OBVIOUS
    <2>2. k \in Task /\ k.at \in {"getOrgs", "storeAccount"}
      BY <1>2, <1>4, <2>1, EnsuredIs
    <2>3. Others(u) /\ task'[u] = k
      BY <1>2, <1>4, <2>1, <2>2, TaskSet DEF TaskTyped
    <2>4. UserRest(u)'
      BY <1>1, <1>4, <2>2, <2>3, SeeksRest DEF Following, pointers
    <2>5. AccountStep
      BY AccountsMove DEF Next, SyncUser
    <2>6. MemberStep
      <3>1. new > top.account
        BY Numbers
      <3> QED BY <1>4, <3>1 DEF MemberStep
    <2>7. top'.org = top.org
      BY <1>4 DEF Inv, Typed
    <2> QED BY <1>1, <1>4, <2>3, <2>4, <2>5, <2>6, <2>7, UserActs DEF pointers
  <1> QED BY <1>3, <1>4 DEF Create

LEMMA StoreAccountRest ==
  ASSUME Inv, Rest, NEW u \in Users, StoreAccount(u)
  PROVE  Rest'
  <1>1. task[u].at = "storeAccount" /\ UNCHANGED <<rows, orgOf, grafana>>
    BY DEF StoreAccount, At
  <1>2. CASE Throw(u) /\ UNCHANGED accountOf
    BY <1>1, <1>2, UserThrowsRest DEF pointers
  <1>3. CASE /\ accountOf' = [accountOf EXCEPT ![u] = task[u].id]
             /\ Go(u, "getOrgs") /\ UNCHANGED queued
    <2>1. Others(u) /\ task'[u].at = "getOrgs"
      BY <1>3, UserKnown, TaskGoes DEF Steps, TaskTyped
    <2>2. UserRest(u)'
      BY <1>1, <1>3, <2>1, SeeksRest DEF Following
    <2>3. \A v \in Users \ {u} : accountOf'[v] = accountOf[v]
      BY <1>3 DEF Inv, Typed
    <2> QED BY <1>1, <1>3, <2>1, <2>2, <2>3, NothingMoves, UserActs DEF grafana
  <1> QED BY <1>2, <1>3 DEF StoreAccount

LEMMA GetOrgsRest ==
  ASSUME Inv, Rest, NEW u \in Users, GetOrgs(u)
  PROVE  Rest'
  <1> DEFINE current == {o \in OrgIds : <<task[u].id, o>> \in member}
  <1> DEFINE step == IF task[u].want \in current THEN "removeOrgs" ELSE "addOrg"
  <1>1. task[u].at = "getOrgs" /\ UNCHANGED <<rows, pointers, grafana>>
    BY DEF GetOrgs, At
  <1>2. CASE Throw(u)
    BY <1>1, <1>2, UserThrowsRest
  <1>3. CASE /\ task' = [task EXCEPT ![u] = [@ EXCEPT !.at = step, !.others = current \ {task[u].want}]]
             /\ UNCHANGED queued
    <2>1. /\ Others(u) /\ task'[u].at = step /\ task'[u].others = current \ {task[u].want}
          /\ task'[u].want = task[u].want /\ task'[u].id = task[u].id
      BY <1>3, UserKnown DEF Others, TaskTyped, Task
    <2>2. /\ task'[u].at \in {"addOrg", "removeOrgs"} /\ task'[u].want \notin task'[u].others
          /\ task'[u].at = "removeOrgs" => <<task'[u].id, task'[u].want>> \in member
      BY <2>1
    <2> HIDE DEF step, current
    <2>3. u \notin queued => orgOf[TenantOf[u]] # None
      BY <1>1, UserKnown DEF KnowsUser, Following
    <2>4. member' = member /\ orgOf' = orgOf
      BY <1>1 DEF grafana, pointers
    <2>5. UserRest(u)'
      BY <1>3, <2>2, <2>3, <2>4 DEF UserRest, KnowsUser, UserRested
    <2> QED BY <1>1, <1>3, <2>1, <2>5, UserLooksRest
  <1> QED BY <1>2, <1>3 DEF GetOrgs

LEMMA AddOrgRest ==
  ASSUME Inv, Rest, NEW u \in Users, AddOrg(u)
  PROVE  Rest'
  <1>1. task[u].at = "addOrg" /\ UNCHANGED <<rows, pointers, org, account, content, top>>
    BY DEF AddOrg, At
  <1>2. CASE Throw(u) /\ UNCHANGED member
    BY <1>1, <1>2, UserThrowsRest DEF grafana
  <1>3. ASSUME NEW a \in AccountsNamed(MyName(u)), member' = member \cup {<<a, task[u].want>>},
               Go(u, "removeOrgs"), UNCHANGED queued
        PROVE  Rest'
    <2>1. /\ Others(u) /\ task'[u].at = "removeOrgs" /\ task'[u].want = task[u].want
          /\ task'[u].id = task[u].id /\ task'[u].others = task[u].others
      BY <1>3, UserKnown, TaskGoes DEF Steps, TaskTyped
    <2>2. a \in AccountIds /\ account[a] = MyName(u)
      BY DEF AccountsNamed
    <2>3. /\ task[u].id \in AccountIds /\ account[task[u].id] = MyName(u)
          /\ task[u].id = accountOf[u]
      BY <1>1, UserKnown DEF OwnAccount
    <2>4. a = accountOf[u] /\ a = task[u].id
      BY <2>2, <2>3, NamesApart DEF Inv, Apart
    <2>5. MemberStep
      <3> DEFINE m == <<a, task[u].want>>
      <3>1. m[1] = accountOf[u]
        BY <2>4
      <3>2. \A n \in member' : n \in member \/ n = m
        BY <1>3
      <3> QED BY <1>1, <2>1, <3>1, <3>2 DEF MemberStep
    <2>6. UserRest(u)'
      <3>1. task[u].want \notin task[u].others /\ (u \notin queued => orgOf[TenantOf[u]] # None)
        BY <1>1, UserKnown DEF KnowsUser, Following
      <3>2. <<task[u].id, task[u].want>> \in member' /\ orgOf' = orgOf
        BY <1>1, <1>3, <2>4 DEF pointers
      <3> QED BY <1>3, <2>1, <3>1, <3>2 DEF UserRest, KnowsUser, UserRested
    <2> QED BY <1>1, <1>3, <2>1, <2>5, <2>6, NothingMoves, UserActs DEF pointers
  <1> QED BY <1>2, <1>3 DEF AddOrg

LEMMA RemoveOrgsRest ==
  ASSUME Inv, Rest, NEW u \in Users, RemoveOrgs(u)
  PROVE  Rest'
  <1>1. task[u].at = "removeOrgs" /\ UNCHANGED <<rows, pointers, org, account, content, top>>
    BY DEF RemoveOrgs, At
  <1>2. /\ task[u].id = accountOf[u] /\ accountOf[u] # None /\ account[accountOf[u]] = MyName(u)
        /\ {o \in OrgIds : <<accountOf[u], o>> \in member} \subseteq task[u].others \cup {task[u].want}
        /\ task[u].want \notin task[u].others
        /\ u \notin queued => /\ <<accountOf[u], task[u].want>> \in member /\ Wanted(u)
                              /\ orgOf[TenantOf[u]] # None
                              /\ org[task[u].want] = LiveName(TenantOf[u])
        /\ task[u].want \in OrgIds
    BY <1>1, UserKnown DEF OwnAccount, KnowsUser, WantsItsOrg, Following
  <1>3. ASSUME NEW o \in task[u].others, member' = member \ {<<task[u].id, o>>},
               task' = [task EXCEPT ![u].others = @ \ {o}], UNCHANGED queued
        PROVE  Rest'
    <2>1. /\ Others(u) /\ task'[u].at = "removeOrgs" /\ task'[u].want = task[u].want
          /\ task'[u].id = task[u].id /\ task'[u].others = task[u].others \ {o}
      BY <1>1, <1>3, UserKnown DEF Others, TaskTyped, Task
    <2>2. UserRest(u)'
      <3>1. u \notin queued => <<task[u].id, task[u].want>> \in member'
        BY <1>2, <1>3
      <3>2. orgOf' = orgOf
        BY <1>1 DEF pointers
      <3> QED BY <1>2, <1>3, <2>1, <3>1, <3>2 DEF UserRest, KnowsUser, UserRested
    <2>3. \A m \in member : m \in member' \/ m[1] = accountOf[u]
      <3> DEFINE n == <<task[u].id, o>>
      <3>1. n[1] = accountOf[u]
        BY <1>2
      <3> QED BY <1>3, <3>1
    <2> QED BY <1>1, <1>3, <2>1, <2>2, <2>3, NothingMoves, UserActs DEF pointers
  <1>4. CASE task[u].others = {} /\ Return(u) /\ UNCHANGED member
    <2>1. Others(u) /\ task'[u] = Idle /\ queued' = queued
      BY <1>4, UserKnown, TaskEnds DEF Return
    <2>2. u \notin queued => UserSettled(u)
      <3> SUFFICES ASSUME u \notin queued
                   PROVE  UserSettled(u)
        OBVIOUS
      <3> DEFINE t == TenantOf[u]
      <3>1. t \in Tenants /\ tenant[t] = "active" /\ orgOf[t] # None /\ LiveName(t) \in OwnNames(t)
        BY <1>2, Ids DEF Wanted, OwnNames
      <3>2. org[orgOf[t]] = LiveName(t) /\ orgOf[t] \in OrgIds /\ OneOrg(t)
        BY <3>1, Fixed DEF TenantInv
      <3>3. task[u].want = orgOf[t]
        BY <1>2, <3>1, <3>2 DEF OneOrg
      <3>4. {o \in OrgIds : <<accountOf[u], o>> \in member} = {orgOf[t]}
        BY <1>2, <1>4, <3>3
      <3> QED BY <1>2, <3>4 DEF UserSettled
    <2>3. UserSettled(u) => UserSettled(u)'
      BY <1>1, <1>4 DEF UserSettled, Wanted, MyName, rows, pointers
    <2>4. UserRest(u)'
      BY <2>1, <2>2, <2>3, IdleTask DEF UserRest, KnowsUser, UserRested, Following
    <2> QED BY <1>1, <1>4, <2>1, <2>4, UserLooksRest DEF grafana
  <1> QED BY <1>3, <1>4 DEF RemoveOrgs

\* The names of a tenant's org.
LEMMA Owned ==
  ASSUME NEW t \in Tenants
  PROVE  /\ OwnNames(t) = {LiveName(t), RetiredName(t)} /\ NoName \notin OwnNames(t)
         /\ LiveName(t) # RetiredName(t)
  BY NamesApart DEF OwnNames

LEMMA TenantLooksRest ==
  ASSUME Inv, Rest, NEW t \in Tenants, Others(t), UNCHANGED <<rows, pointers, grafana>>,
         \A k \in Keys \ {t} : k \in queued => k \in queued', TenantRest(t)'
  PROVE  Rest'
  <1>1. \A o \in OrgIds : ContentOf(o)' = ContentOf(o)
    BY DEF ContentOf, grafana
  <1> QED BY <1>1, TenantActs DEF pointers, grafana

LEMMA TenantThrowsRest ==
  ASSUME Inv, Rest, NEW t \in Tenants, Throw(t),
         UNCHANGED <<rows, pointers, org, account, member, top>>,
         \A o \in OrgIds : org[o] \notin OwnNames(t) => ContentOf(o)' = ContentOf(o)
  PROVE  Rest'
  <1>1. Others(t) /\ task'[t] = Idle /\ queued' = queued \cup {t}
    BY TenantKnown, TaskEnds DEF Throw
  <1>2. TenantRest(t)'
    <2>1. OneOrg(t)'
      BY <1>1, Fixed, IdleTask DEF OneOrg, Takes, OwnNames, LiveName, RetiredName, rows, pointers
    <2> QED BY <1>1, <2>1, IdleTask DEF TenantRest, KnowsOrg, TenantRested, Takes, Removes
  <1> QED BY <1>1, <1>2, TenantActs DEF pointers

LEMMA ReadTenantRowRest ==
  ASSUME Inv, Rest, NEW t \in Tenants, ReadTenantRow(t)
  PROVE  Rest'
  <1> DEFINE step == IF tenant[t] = "active" THEN "ensureOrg" ELSE RemovedFrom(t)
  <1> DEFINE r == [Idle EXCEPT !.ptr = orgOf[t], !.at = step]
  <1>1. /\ t \in queued /\ task[t].at = "idle" /\ queued' = queued \ {t}
        /\ task' = [task EXCEPT ![t] = r] /\ UNCHANGED <<rows, pointers, grafana>>
    BY DEF ReadTenantRow, Claim, At
  <1>2. /\ step \in {"ensureOrg", "fanOut", "deleteOrg"}
        /\ step = "ensureOrg" <=> tenant[t] = "active"
        /\ step = "deleteOrg" => orgOf[t] # None
        /\ step = "fanOut" => orgOf[t] = None
        /\ tenant[t] = "deleted" => step \in {"fanOut", "deleteOrg"}
        /\ tenant[t] \in {"active", "deleted"}
    BY TenantKnown DEF RemovedFrom
  <1>3. task'[t] = r /\ Others(t) /\ r.at = step /\ r.ptr = orgOf[t]
    BY <1>1, TenantKnown DEF Others, TaskTyped, Idle
  <1>4. PICK k : k = r
    OBVIOUS
  <1> HIDE DEF r, step
  <1>5. task'[t] = k /\ k.at = step /\ k.ptr = orgOf[t]
    BY <1>3, <1>4
  <1>6. tenant' = tenant /\ orgOf' = orgOf /\ org' = org /\ top' = top
    BY <1>1 DEF rows, pointers, grafana
  <1>7. OneOrg(t)'
    <2>1. orgOf[t] # None => org[orgOf[t]] \in OwnNames(t) \/ step = "deleteOrg"
      BY <1>2, Fixed, Owned DEF TenantInv
    <2> QED BY <1>2, <1>5, <1>6, <2>1, Fixed DEF OneOrg, Takes, OwnNames, LiveName, RetiredName
  <1>8. KnowsOrg(t)'
    BY <1>2, <1>5, <1>6 DEF KnowsOrg, Takes, Removes
  <1>9. TenantRested(t)'
    <2>1. k.at \in {"idle", "fanOut"} => tenant[t] # "active" /\ orgOf[t] = None
      BY <1>2, <1>5
    <2> QED BY <1>5, <1>6, <2>1 DEF TenantRested, TenantSettled
  <1> QED BY <1>1, <1>3, <1>7, <1>8, <1>9, TenantLooksRest DEF TenantRest

LEMMA EnsureOrgRest ==
  ASSUME Inv, Rest, NEW t \in Tenants, EnsureOrg(t)
  PROVE  Rest'
  <1> DEFINE new == top.org + 1
  <1>1. task[t].at = "ensureOrg" /\ UNCHANGED <<rows, pointers, account, member, content, queued>>
    BY DEF EnsureOrg, At
  <1>2. tenant' = tenant /\ orgOf' = orgOf /\ queued' = queued
        /\ \A o \in OrgIds : ContentOf(o)' = ContentOf(o)
    BY <1>1 DEF rows, pointers, ContentOf
  <1>3. /\ task[t].ptr = orgOf[t] /\ (tenant[t] = "active" \/ t \in queued)
        /\ \A o \in OrgIds : org[o] # RetiredName(t)
    BY <1>1, Fixed DEF KnowsOrg, OneOrg, Takes
  <1>4. LiveName(t)' = LiveName(t) /\ RetiredName(t)' = RetiredName(t) /\ OwnNames(t)' = OwnNames(t)
    BY DEF OwnNames, LiveName, RetiredName
  <1>5. ASSUME task'[t].at = "provision", task'[t].ptr = task[t].ptr
        PROVE  KnowsOrg(t)' /\ TenantRested(t)'
    BY <1>2, <1>3, <1>5 DEF KnowsOrg, TenantRested, Takes, Removes
  <1>6. ASSUME NEW o \in OrgIds, UNCHANGED <<org, top>>,
               task' = [task EXCEPT ![t] = [@ EXCEPT !.at = "provision", !.id = o]]
        PROVE  Rest'
    <2>1. Others(t) /\ task'[t].at = "provision" /\ task'[t].ptr = task[t].ptr
      BY <1>6, TenantKnown DEF Others, TaskTyped, Task
    <2>2. OneOrg(t)'
      BY <1>1, <1>2, <1>3, <1>4, <1>6, <2>1, Fixed DEF OneOrg, Takes
    <2> QED BY <1>1, <1>5, <1>6, <2>1, <2>2, TenantLooksRest DEF TenantRest, grafana
  <1>7. CASE /\ OrgsNamed(LiveName(t)) = {} /\ new \in OrgIds
             /\ org' = [org EXCEPT ![new] = LiveName(t)]
             /\ top' = [top EXCEPT !.org = new]
             /\ task' = [task EXCEPT ![t] = [@ EXCEPT !.at = "provision", !.id = new]]
    <2>1. Others(t) /\ task'[t].at = "provision" /\ task'[t].ptr = task[t].ptr
      BY <1>7, TenantKnown DEF Others, TaskTyped, Task
    <2>2. /\ \A o \in OrgIds : org[o] \notin OwnNames(t)
          /\ orgOf[t] = None
      <3>1. \A o \in OrgIds : org[o] \notin OwnNames(t)
        BY <1>3, <1>7 DEF OrgsNamed, OwnNames
      <3> QED BY <1>1, <3>1, Fixed DEF OneOrg
    <2>3. /\ new > top.org /\ org[new] = NoName /\ top'.org = new /\ new \in Nat
          /\ org'[new] = LiveName(t) /\ \A o \in OrgIds : o # new => org'[o] = org[o]
      <3>1. new > top.org /\ ~(new <= top.org) /\ new \in Nat
        BY Numbers
      <3>2. org \in [OrgIds -> OrgNames \cup {NoName}] /\ top'.org = new
        BY <1>7 DEF Inv, Typed
      <3> QED BY <1>7, <3>1, <3>2 DEF Inv, Apart
    <2> HIDE DEF new
    <2>4. OneOrg(t)'
      <3>1. \A o \in OrgIds : org'[o] \in OwnNames(t) <=> o = new
        BY <2>2, <2>3, Owned
      <3>2. \A o \in OrgIds : org'[o] # RetiredName(t)
        BY <1>3, <2>3, Owned
      <3>3. orgOf'[t] <= top'.org
        BY <1>2, <2>2, <2>3, Ids
      <3> QED BY <1>2, <1>4, <2>2, <3>1, <3>2, <3>3 DEF OneOrg
    <2>5. \A o \in OrgIds : \/ org'[o] = org[o]
                            \/ /\ {org[o], org'[o]} \subseteq OwnNames(t) \cup {NoName}
                               /\ org[o] # NoName \/ o > top.org
      BY <2>3, Owned
    <2>6. top'.org \in {top.org, top.org + 1}
      BY <2>3 DEF new
    <2> QED BY <1>1, <1>2, <1>5, <2>1, <2>4, <2>5, <2>6, TenantActs DEF TenantRest, pointers
  <1> QED BY <1>6, <1>7 DEF EnsureOrg, OrgsNamed

LEMMA ProvisionOrgRest ==
  ASSUME Inv, Rest, NEW t \in Tenants, ProvisionOrg(t)
  PROVE  Rest'
  <1>o. PICK o : o = task[t].id
    OBVIOUS
  <1>1. task[t].at = "provision" /\ UNCHANGED <<rows, pointers, org, account, member, top>>
    BY DEF ProvisionOrg, At
  <1>2. /\ o \in OrgIds /\ org[o] = LiveName(t) /\ task[t].ptr = orgOf[t]
        /\ tenant[t] = "active" \/ t \in queued
    BY <1>o, <1>1, Fixed DEF TenantInv, KnowsOrg, Takes
  <1>3. tenant' = tenant /\ orgOf' = orgOf /\ org' = org /\ top' = top
    BY <1>1 DEF rows, pointers
  <1>4. \A p \in OrgIds : org[p] \notin OwnNames(t) => p # o
    BY <1>2, Owned
  <1>5. CASE /\ content' = content \cup Datasources(o) \cup Dashboards(o)
             /\ Go(t, Provided(t)) /\ UNCHANGED queued
    <2>1. Provided(t) = (IF o = task[t].ptr THEN "fanOut" ELSE "storeOrg")
      BY <1>o DEF Provided
    <2>2. Provided(t) \in Steps
      BY <2>1 DEF Steps
    <2>3. /\ Others(t) /\ task'[t].at = Provided(t) /\ task'[t].ptr = task[t].ptr
          /\ task'[t].id = o
      BY <1>o, <1>5, <2>2, TenantKnown, TaskGoes DEF TaskTyped
    <2>4. ContentOf(o)' = Items
      <3>1. <<o, "datasources">> \in content' /\ <<o, "dashboards">> \in content'
        BY <1>5 DEF Datasources, Dashboards
      <3>2. \A i \in Items : i = "datasources" \/ i = "dashboards"
        BY DEF Items
      <3> QED BY <3>1, <3>2 DEF ContentOf
    <2>5. \A p \in OrgIds : org[p] \notin OwnNames(t) => ContentOf(p)' = ContentOf(p)
      BY <1>4, <1>5 DEF ContentOf, Datasources, Dashboards
    <2>6. OneOrg(t)'
      BY <1>1, <1>3, <2>1, <2>3, Fixed DEF OneOrg, Takes, OwnNames, LiveName, RetiredName
    <2>7. KnowsOrg(t)'
      BY <1>2, <1>3, <1>5, <2>1, <2>3, <2>4 DEF KnowsOrg, Takes, Removes
    <2>8. TenantRested(t)'
      <3> SUFFICES ASSUME t \notin queued, Provided(t) = "fanOut"
                   PROVE  TenantSettled(t)'
        BY <1>5, <2>1, <2>3 DEF TenantRested
      <3> QED BY <1>2, <1>3, <2>1, <2>4, Ids DEF TenantSettled, ContentOf, LiveName
    <2> QED BY <1>1, <1>5, <2>3, <2>5, <2>6, <2>7, <2>8, TenantActs DEF TenantRest, pointers
  <1>6. CASE content' = content \cup Datasources(o) /\ Throw(t)
    BY <1>1, <1>4, <1>6, TenantThrowsRest DEF ContentOf, Datasources
  <1> QED BY <1>o, <1>5, <1>6 DEF ProvisionOrg

LEMMA StoreOrgRest ==
  ASSUME Inv, Rest, NEW t \in Tenants, StoreOrg(t)
  PROVE  Rest'
  <1> DEFINE o == task[t].id
  <1>1. task[t].at = "storeOrg" /\ UNCHANGED <<rows, accountOf, grafana>>
    BY DEF StoreOrg, At
  <1>2. \A p \in OrgIds : ContentOf(p)' = ContentOf(p)
    BY <1>1 DEF ContentOf, grafana
  <1>3. CASE Throw(t) /\ UNCHANGED orgOf
    BY <1>1, <1>2, <1>3, TenantThrowsRest DEF pointers, grafana
  <1>4. CASE orgOf' = [orgOf EXCEPT ![t] = o] /\ Go(t, "fanOut") /\ UNCHANGED queued
    <2>1. Others(t) /\ task'[t].at = "fanOut"
      BY <1>4, TenantKnown, TaskGoes DEF Steps, TaskTyped
    <2>2. orgOf'[t] = o /\ \A s \in Tenants \ {t} : orgOf'[s] = orgOf[s]
      BY <1>4 DEF Inv, Typed
    <2>3. /\ o \in OrgIds /\ org[o] = LiveName(t) /\ ContentOf(o) = Items /\ o # None
          /\ tenant[t] = "active" \/ t \in queued
          /\ org[o] \in OwnNames(t) /\ org[o] # NoName /\ o <= top.org
      <3>1. /\ o \in OrgIds /\ org[o] = LiveName(t) /\ ContentOf(o) = Items /\ o # None
            /\ tenant[t] = "active" \/ t \in queued
        BY <1>1, Fixed DEF TenantInv, KnowsOrg, Takes
      <3> QED BY <3>1, Owned DEF Inv, Apart
    <2>4. tenant[t] = "active" /\ orgOf[t] # None => orgOf'[t] = orgOf[t]
      BY <2>2, <2>3, Fixed, Owned DEF TenantInv, OneOrg
    <2>5. tenant' = tenant /\ org' = org /\ top' = top
      BY <1>1 DEF rows, grafana
    <2>6. OneOrg(t)'
      <3>1. \A p \in OrgIds : org[p] # RetiredName(t)
        BY <1>1, Fixed DEF OneOrg, Takes
      <3> QED BY <2>2, <2>3, <2>5, <3>1, Fixed DEF OneOrg, OwnNames, LiveName, RetiredName
    <2>7. KnowsOrg(t)'
      BY <2>1 DEF KnowsOrg, Takes, Removes
    <2>8. TenantRested(t)'
      BY <1>2, <1>4, <2>2, <2>3, <2>5 DEF TenantRested, TenantSettled, LiveName, ContentOf
    <2> QED BY <1>1, <1>2, <1>4, <2>1, <2>2, <2>4, <2>6, <2>7, <2>8, TenantActs DEF TenantRest, grafana
  <1> QED BY <1>3, <1>4 DEF StoreOrg

LEMMA ClearOrgRest ==
  ASSUME Inv, Rest, NEW t \in Tenants, ClearOrg(t)
  PROVE  Rest'
  <1>1. /\ task[t].at = "clearOrg" /\ Go(t, "fanOut") /\ orgOf' = [orgOf EXCEPT ![t] = None]
        /\ UNCHANGED <<rows, accountOf, grafana, queued>>
    BY DEF ClearOrg, At
  <1>2. Others(t) /\ task'[t].at = "fanOut"
    BY <1>1, TenantKnown, TaskGoes DEF Steps, TaskTyped
  <1>3. tenant[t] = "deleted" /\ tenant' = tenant /\ org' = org /\ top' = top
    BY <1>1, Fixed DEF TenantInv, rows, grafana
  <1>4. orgOf'[t] = None /\ \A s \in Tenants \ {t} : orgOf'[s] = orgOf[s]
    BY <1>1 DEF Inv, Typed
  <1>5. \A o \in OrgIds : ContentOf(o)' = ContentOf(o)
    BY <1>1 DEF ContentOf, grafana
  <1>6. TenantRest(t)'
    <2>1. OneOrg(t)'
      <3>1. orgOf'[t] <= top'.org
        BY <1>3, <1>4, Fixed, Ids
      <3> QED BY <1>2, <1>3, <1>4, <3>1, Fixed DEF OneOrg, Takes, OwnNames, LiveName, RetiredName
    <2> QED BY <1>2, <1>3, <1>4, <2>1
        DEF TenantRest, KnowsOrg, TenantRested, TenantSettled, Takes, Removes
  <1> QED BY <1>1, <1>2, <1>3, <1>4, <1>5, <1>6, TenantActs DEF grafana

LEMMA FanOutRest ==
  ASSUME Inv, Rest, NEW t \in Tenants, FanOut(t)
  PROVE  Rest'
  <1>1. /\ task[t].at = "fanOut" /\ task' = [task EXCEPT ![t] = Idle] /\ queued \subseteq queued'
        /\ UNCHANGED <<rows, pointers, grafana>>
    BY DEF FanOut, At
  <1>2. Others(t) /\ task'[t] = Idle
    BY <1>1, TenantKnown DEF Others, TaskTyped
  <1>3. tenant' = tenant /\ orgOf' = orgOf /\ org' = org /\ top' = top /\ content' = content
    BY <1>1 DEF rows, pointers, grafana
  <1>4. OneOrg(t)'
    BY <1>1, <1>2, <1>3, IdleTask, Fixed DEF OneOrg, Takes, OwnNames, LiveName, RetiredName
  <1>5. TenantRested(t)'
    BY <1>1, <1>2, <1>3, IdleTask, Fixed DEF TenantRested, TenantSettled, LiveName, RetiredName, ContentOf
  <1> QED BY <1>1, <1>2, <1>4, <1>5, IdleTask, TenantLooksRest DEF TenantRest, KnowsOrg, Takes, Removes

\* What a handler that takes an org away finds.
LEMMA FoundOrg ==
  ASSUME Inv, Rest, NEW t \in Tenants, task[t].at = "deleteOrg"
  PROVE  /\ \A o \in OwnOrgs(t) : o \in OrgIds /\ org[o] \in OwnNames(t) /\ o = orgOf[t]
         /\ OwnOrgs(t) = {} => /\ org[orgOf[t]] = NoName
                               /\ \A o \in OrgIds : org[o] \notin OwnNames(t)
  <1>1. task[t].ptr = orgOf[t] /\ orgOf[t] # None /\ orgOf[t] \in OrgIds /\ OneOrg(t)
    BY Fixed DEF KnowsOrg, Removes
  <1>2. org[orgOf[t]] \in OwnNames(t) => OwnOrgs(t) = {orgOf[t]}
    BY <1>1 DEF OwnOrgs, OwnNames
  <1>3. ASSUME org[orgOf[t]] \notin OwnNames(t)
        PROVE  /\ OwnOrgs(t) = {} /\ org[orgOf[t]] = NoName
               /\ \A o \in OrgIds : org[o] \notin OwnNames(t)
    <2>1. org[orgOf[t]] = NoName /\ \A o \in OrgIds : org[o] \notin OwnNames(t)
      BY <1>1, <1>3 DEF OneOrg
    <2> QED BY <1>1, <2>1 DEF OwnOrgs, OrgsNamed, OwnNames
  <1> QED BY <1>1, <1>2, <1>3

LEMMA DeleteOrgRest ==
  ASSUME Inv, Rest, NEW t \in Tenants, DeleteOrg(t)
  PROVE  Rest'
  <1>1. task[t].at = "deleteOrg" /\ UNCHANGED <<rows, pointers, account, top, queued>>
    BY DEF DeleteOrg, At
  <1>2. /\ tenant[t] = "deleted" /\ task[t].ptr = orgOf[t] /\ orgOf[t] # None /\ orgOf[t] \in OrgIds
        /\ OneOrg(t)
    BY <1>1, Fixed DEF TenantInv, KnowsOrg, Removes
  <1>3. tenant' = tenant /\ orgOf' = orgOf /\ top' = top
    BY <1>1 DEF rows, pointers
  <1>4. ASSUME NEW o \in OwnOrgs(t), org' = [org EXCEPT ![o] = NoName],
               member' = {m \in member : m[2] # o}, content' = {c \in content : c[1] # o},
               Go(t, "clearOrg")
        PROVE  Rest'
    <2>1. Others(t) /\ task'[t].at = "clearOrg" /\ task'[t].ptr = task[t].ptr
      BY <1>1, <1>4, TenantKnown, TaskGoes DEF Steps, TaskTyped
    <2>2. o \in OrgIds /\ org[o] \in OwnNames(t) /\ o = orgOf[t]
      BY <1>1, FoundOrg
    <2>3. org'[o] = NoName /\ \A p \in OrgIds : p # o => org'[p] = org[p]
      BY <1>4, <2>2 DEF Inv, Typed
    <2>4. \A p \in OrgIds : p # o => ContentOf(p)' = ContentOf(p)
      <3> SUFFICES ASSUME NEW p \in OrgIds, p # o, NEW i \in Items
                   PROVE  <<p, i>> \in content' <=> <<p, i>> \in content
        BY DEF ContentOf
      <3> DEFINE c == <<p, i>>
      <3>1. c[1] = p
        OBVIOUS
      <3> QED BY <1>4, <3>1
    <2>5. OneOrg(t)'
      <3>1. \A p \in OrgIds : org'[p] \notin OwnNames(t)
        BY <1>2, <2>2, <2>3, Owned DEF OneOrg
      <3>2. OwnNames(t)' = OwnNames(t) /\ RetiredName(t)' = RetiredName(t) /\ RetiredName(t) \in OwnNames(t)
        BY DEF OwnNames, LiveName, RetiredName
      <3> QED BY <1>2, <1>3, <2>1, <2>2, <2>3, <3>1, <3>2 DEF OneOrg
    <2>6. KnowsOrg(t)' /\ TenantRested(t)'
      BY <1>2, <1>3, <2>1 DEF KnowsOrg, TenantRested, Takes, Removes
    <2>7. \A p \in OrgIds : \/ org'[p] = org[p]
                            \/ /\ {org[p], org'[p]} \subseteq OwnNames(t) \cup {NoName}
                               /\ org[p] # NoName \/ p > top.org
      BY <2>2, <2>3, Owned
    <2> QED BY <1>1, <1>2, <1>3, <1>4, <2>1, <2>2, <2>4, <2>5, <2>6, <2>7, TenantActs
        DEF TenantRest, pointers
  <1>5. ASSUME NEW o \in OwnOrgs(t), UNCHANGED <<org, member, content>>,
               task' = [task EXCEPT ![t] = [@ EXCEPT !.at = "retireOrg", !.id = o]]
        PROVE  Rest'
    <2>1. Others(t) /\ task'[t].at = "retireOrg" /\ task'[t].ptr = task[t].ptr /\ task'[t].id = o
      BY <1>5, TenantKnown DEF Others, TaskTyped, Task
    <2>2. o = orgOf[t] /\ org[orgOf[t]] \in OwnNames(t)
      BY <1>1, FoundOrg
    <2>3. OneOrg(t)'
      BY <1>2, <1>3, <1>5, <2>1, <2>2 DEF OneOrg, Takes, OwnNames, LiveName, RetiredName
    <2>4. KnowsOrg(t)' /\ TenantRested(t)'
      BY <1>2, <1>3, <2>1, <2>2 DEF KnowsOrg, TenantRested, Takes, Removes
    <2> QED BY <1>1, <1>5, <2>1, <2>3, <2>4, TenantLooksRest DEF TenantRest, grafana
  <1>6. CASE OwnOrgs(t) = {} /\ Go(t, "clearOrg") /\ UNCHANGED <<org, member, content>>
    <2>1. Others(t) /\ task'[t].at = "clearOrg" /\ task'[t].ptr = task[t].ptr
      BY <1>1, <1>6, TenantKnown, TaskGoes DEF Steps, TaskTyped
    <2>2. org[orgOf[t]] = NoName /\ \A o \in OrgIds : org[o] \notin OwnNames(t)
      BY <1>1, <1>6, FoundOrg
    <2>3. OneOrg(t)'
      BY <1>2, <1>3, <1>6, <2>1, <2>2 DEF OneOrg, Takes, OwnNames, LiveName, RetiredName
    <2>4. KnowsOrg(t)' /\ TenantRested(t)'
      BY <1>2, <1>3, <2>1 DEF KnowsOrg, TenantRested, Takes, Removes
    <2> QED BY <1>1, <1>6, <2>1, <2>3, <2>4, TenantLooksRest DEF TenantRest, grafana
  <1> QED BY <1>4, <1>5, <1>6 DEF DeleteOrg

\* A handler that retires an org works on the one the row has.
LEMMA Retires ==
  ASSUME Inv, Rest, NEW t \in Tenants, task[t].at \in {"retireOrg", "emptyOrg", "renameOrg"}
  PROVE  /\ tenant[t] = "deleted" /\ task[t].ptr = orgOf[t] /\ task[t].id = orgOf[t]
         /\ orgOf[t] \in OrgIds /\ orgOf[t] # None /\ org[orgOf[t]] \in OwnNames(t) /\ OneOrg(t)
  BY Fixed, Owned DEF TenantInv, KnowsOrg, Removes

LEMMA RetireOrgRest ==
  ASSUME Inv, Rest, NEW t \in Tenants, RetireOrg(t)
  PROVE  Rest'
  <1>1. task[t].at = "retireOrg" /\ UNCHANGED <<rows, pointers, grafana>>
    BY DEF RetireOrg, At
  <1>2. \A o \in OrgIds : ContentOf(o)' = ContentOf(o)
    BY <1>1 DEF ContentOf, grafana
  <1>3. CASE Throw(t)
    BY <1>1, <1>2, <1>3, TenantThrowsRest DEF grafana
  <1>4. CASE /\ task' = [task EXCEPT ![t].at = "emptyOrg",
                           ![t].others = {a \in AccountIds : <<a, task[t].id>> \in member}]
             /\ UNCHANGED queued
    <2>1. Others(t) /\ task'[t].at = "emptyOrg" /\ task'[t].ptr = task[t].ptr /\ task'[t].id = task[t].id
      BY <1>4, TenantKnown DEF Others, TaskTyped, Task
    <2>2. tenant' = tenant /\ orgOf' = orgOf /\ org' = org /\ top' = top
      BY <1>1 DEF rows, pointers, grafana
    <2>3. OneOrg(t)'
      BY <1>1, <2>1, <2>2, Retires DEF OneOrg, Takes, OwnNames, LiveName, RetiredName
    <2>4. KnowsOrg(t)' /\ TenantRested(t)'
      BY <1>1, <2>1, <2>2, Retires DEF KnowsOrg, TenantRested, Takes, Removes
    <2> QED BY <1>1, <1>4, <2>1, <2>3, <2>4, TenantLooksRest DEF TenantRest
  <1> QED BY <1>3, <1>4 DEF RetireOrg

LEMMA EmptyOrgRest ==
  ASSUME Inv, Rest, NEW t \in Tenants, EmptyOrg(t)
  PROVE  Rest'
  <1>1. task[t].at = "emptyOrg" /\ UNCHANGED <<rows, pointers, org, account, top, queued>>
    BY DEF EmptyOrg, At
  <1>o. PICK o : o = task[t].id
    OBVIOUS
  <1>2. /\ tenant[t] = "deleted" /\ task[t].ptr = orgOf[t] /\ o = orgOf[t]
        /\ orgOf[t] \in OrgIds /\ orgOf[t] # None /\ org[o] \in OwnNames(t) /\ OneOrg(t)
    BY <1>1, <1>o, Retires
  <1>3. tenant' = tenant /\ orgOf' = orgOf /\ org' = org /\ top' = top
    BY <1>1 DEF rows, pointers
  <1>4. ASSUME task'[t].at \in {"emptyOrg", "renameOrg"}
        PROVE  OneOrg(t)'
    BY <1>2, <1>3, <1>4 DEF OneOrg, Takes, OwnNames, LiveName, RetiredName
  <1>5. ASSUME NEW a \in task[t].others, member' = member \ {<<a, o>>},
               task' = [task EXCEPT ![t].others = @ \ {a}], UNCHANGED content
        PROVE  Rest'
    <2>1. Others(t) /\ task'[t].at = "emptyOrg" /\ task'[t].ptr = task[t].ptr /\ task'[t].id = o
      BY <1>1, <1>o, <1>5, TenantKnown DEF Others, TaskTyped, Task
    <2>2. KnowsOrg(t)' /\ TenantRested(t)'
      BY <1>2, <1>3, <2>1 DEF KnowsOrg, TenantRested, Takes, Removes
    <2>3. \A m \in member : m \in member' \/ (tenant[t] = "deleted" /\ org[m[2]] \in OwnNames(t))
      <3> DEFINE n == <<a, o>>
      <3>1. n[2] = o
        OBVIOUS
      <3> QED BY <1>2, <1>5, <3>1
    <2>4. \A p \in OrgIds : ContentOf(p)' = ContentOf(p)
      BY <1>5 DEF ContentOf
    <2> QED BY <1>1, <1>2, <1>3, <1>4, <1>5, <2>1, <2>2, <2>3, <2>4, TenantActs DEF TenantRest, pointers
  <1>6. CASE /\ content' = Dropped(t) /\ Go(t, "renameOrg") /\ UNCHANGED member
    <2>1. Others(t) /\ task'[t].at = "renameOrg" /\ task'[t].ptr = task[t].ptr /\ task'[t].id = o
      BY <1>1, <1>o, <1>6, TenantKnown, TaskGoes DEF Steps, TaskTyped
    <2>2. content' = content \ {<<o, "datasources">>, <<o, "dashboards">>}
      BY <1>o, <1>6 DEF Dropped, Datasources, Dashboards
    <2>3. ContentOf(o)' = {}
      <3>1. \A i \in Items : i = "datasources" \/ i = "dashboards"
        BY DEF Items
      <3> QED BY <2>2, <3>1 DEF ContentOf
    <2>4. \A p \in OrgIds : org[p] \notin OwnNames(t) => ContentOf(p)' = ContentOf(p)
      BY <1>2, <2>2 DEF ContentOf
    <2>5. KnowsOrg(t)' /\ TenantRested(t)'
      BY <1>2, <1>3, <2>1, <2>3 DEF KnowsOrg, TenantRested, Takes, Removes
    <2> QED BY <1>1, <1>2, <1>3, <1>4, <1>6, <2>1, <2>4, <2>5, TenantActs DEF TenantRest, pointers
  <1> QED BY <1>o, <1>5, <1>6 DEF EmptyOrg

LEMMA RenameOrgRest ==
  ASSUME Inv, Rest, NEW t \in Tenants, RenameOrg(t)
  PROVE  Rest'
  <1>1. task[t].at = "renameOrg" /\ UNCHANGED <<rows, pointers, account, member, content, top, queued>>
    BY DEF RenameOrg, At
  <1>o. PICK o : o = task[t].id
    OBVIOUS
  <1>2. /\ tenant[t] = "deleted" /\ o = orgOf[t] /\ o \in OrgIds /\ org[o] \in OwnNames(t) /\ OneOrg(t)
        /\ ContentOf(o) = {}
    BY <1>1, <1>o, Retires, Fixed DEF KnowsOrg
  <1>3. tenant' = tenant /\ orgOf' = orgOf /\ top' = top
        /\ \A p \in OrgIds : ContentOf(p)' = ContentOf(p)
    BY <1>1 DEF rows, pointers, ContentOf
  <1>4. Others(t) /\ task'[t].at = "fanOut"
    BY <1>1, TenantKnown, TaskGoes DEF RenameOrg, Steps, TaskTyped
  <1>5. org'[o] = RetiredName(t) /\ \A p \in OrgIds : p # o => org'[p] = org[p]
    <2>1. org' = [org EXCEPT ![o] = IF @ = NoName THEN @ ELSE RetiredName(t)]
      BY <1>o DEF RenameOrg
    <2> QED BY <1>2, <2>1, Owned DEF Inv, Typed
  <1>6. OneOrg(t)'
    <2>1. \A p \in OrgIds : org'[p] \in OwnNames(t) <=> org[p] \in OwnNames(t)
      BY <1>2, <1>5, Owned
    <2>2. OwnNames(t)' = OwnNames(t)
      BY DEF OwnNames, LiveName, RetiredName
    <2> QED BY <1>2, <1>3, <1>4, <2>1, <2>2 DEF OneOrg, Takes
  <1>7. KnowsOrg(t)' /\ TenantRested(t)'
    <2>1. ContentOf(o)' = {}
      BY <1>2, <1>3
    <2> QED BY <1>2, <1>3, <1>4, <1>5, <2>1
        DEF KnowsOrg, TenantRested, TenantSettled, Takes, Removes, RetiredName
  <1>8. \A p \in OrgIds : \/ org'[p] = org[p]
                          \/ /\ {org[p], org'[p]} \subseteq OwnNames(t) \cup {NoName}
                             /\ org[p] # NoName \/ p > top.org
    BY <1>2, <1>5, Owned
  <1> QED BY <1>1, <1>3, <1>4, <1>6, <1>7, <1>8, TenantActs DEF TenantRest, pointers

\* A change of rows is enqueued for all it may concern.
LEMMA RowsRest ==
  ASSUME Inv, Rest, UNCHANGED <<pointers, grafana, task>>, queued \subseteq queued',
         \A t \in Tenants : tenant'[t] = tenant[t] \/ (tenant'[t] = "deleted" /\ t \in queued'),
         \A u \in Users : (Wanted(u)' <=> Wanted(u)) \/ u \in queued'
  PROVE  Rest'
  <1>1. /\ orgOf' = orgOf /\ accountOf' = accountOf /\ member' = member /\ AccountStep /\ MemberStep
    BY NothingMoves DEF pointers, grafana
  <1>2. \A t \in Tenants : OrgsKept(t)
    BY DEF OrgsKept, ContentOf, grafana
  <1>3. \A t \in Tenants : TenantRest(t)'
    BY <1>1, <1>2, TenantKept
  <1>4. ASSUME NEW u \in Users
        PROVE  UserRest(u)'
    <2>1. MembershipKept(u)
      BY <1>1 DEF MembershipKept
    <2>2. (Wanted(u)' <=> Wanted(u)) \/ u \in queued'
      OBVIOUS
    <2>3. task'[u] = task[u] /\ accountOf'[u] = accountOf[u] /\ orgOf'[TenantOf[u]] = orgOf[TenantOf[u]]
          /\ (u \in queued => u \in queued')
      BY <1>1
    <2> QED BY <1>1, <2>1, <2>2, <2>3, UserKept
  <1> QED BY <1>3, <1>4 DEF Rest

LEMMA DomainRest ==
  ASSUME Inv, Rest
  PROVE  /\ \A u \in Users : CreateUser(u) \/ ChangeUser(u) => Rest'
         /\ \A t \in Tenants : DeleteTenant(t) => Rest'
         /\ \A k \in Keys : Resync(k) => Rest'
         /\ UNCHANGED vars => Rest'
  <1>0. user \in [Users -> UserStatus] /\ tenant \in [Tenants -> {"active", "deleted"}]
    BY DEF Inv, Typed
  <1>1. ASSUME NEW u \in Users, CreateUser(u) \/ ChangeUser(u)
        PROVE  Rest'
    <2>1. /\ UNCHANGED <<tenant, pointers, grafana, task>> /\ queued' = queued \cup {u}
          /\ \E s : user' = [user EXCEPT ![u] = s]
      BY <1>1 DEF CreateUser, ChangeUser, SetUser
    <2>2. \A v \in Users : v # u => (Wanted(v)' <=> Wanted(v))
      BY <1>0, <2>1 DEF Wanted
    <2> QED BY <2>1, <2>2, RowsRest
  <1>2. ASSUME NEW t \in Tenants, DeleteTenant(t)
        PROVE  Rest'
    <2>1. /\ UNCHANGED <<pointers, grafana, task>>
          /\ tenant' = [tenant EXCEPT ![t] = "deleted"]
          /\ user' = [u \in Users |->
                        IF u \in UsersOf(t) /\ user[u] # "absent" THEN "deleted" ELSE user[u]]
          /\ queued' = queued \cup {t} \cup {u \in UsersOf(t) : user[u] \in {"active", "disabled"}}
      BY <1>2 DEF DeleteTenant
    <2>2. ASSUME NEW u \in Users
          PROVE  (Wanted(u)' <=> Wanted(u)) \/ u \in queued'
      <3>1. CASE u \in UsersOf(t)
        BY <1>0, <2>1, <3>1 DEF Wanted, UsersOf
      <3>2. CASE u \notin UsersOf(t)
        <4>1. user'[u] = user[u] /\ tenant'[TenantOf[u]] = tenant[TenantOf[u]]
          BY <1>0, <2>1, <3>2, Ids DEF UsersOf
        <4> QED BY <4>1 DEF Wanted
      <3> QED BY <3>1, <3>2
    <2> QED BY <1>0, <2>1, <2>2, RowsRest
  <1>3. ASSUME NEW k \in Keys, Resync(k)
        PROVE  Rest'
    <2>1. UNCHANGED <<rows, pointers, grafana, task>> /\ queued \subseteq queued'
      BY <1>3 DEF Resync
    <2> QED BY <2>1, RowsRest DEF rows, Wanted
  <1>4. CASE UNCHANGED vars
    BY <1>4, RowsRest DEF vars, rows, Wanted
  <1> QED BY <1>1, <1>2, <1>3, <1>4

LEMMA FailRest ==
  ASSUME Inv, Rest, NEW k \in Keys, Fail(k)
  PROVE  Rest'
  <1>1. task[k].at # "idle" /\ Throw(k) /\ UNCHANGED <<rows, pointers, grafana>>
    BY DEF Fail, At
  <1>2. \A o \in OrgIds : ContentOf(o)' = ContentOf(o)
    BY <1>1 DEF ContentOf, grafana
  <1>3. CASE k \in Users
    BY <1>1, <1>3, UserThrowsRest
  <1>4. CASE k \in Tenants
    BY <1>1, <1>2, <1>4, TenantThrowsRest DEF grafana
  <1> QED BY <1>3, <1>4 DEF Keys

LEMMA NextRest == Inv /\ Rest /\ [Next]_vars => Rest'
  <1> SUFFICES ASSUME Inv, Rest, [Next]_vars PROVE Rest'
    OBVIOUS
  <1>1. ASSUME NEW u \in Users, CreateUser(u) \/ ChangeUser(u)
        PROVE  Rest'
    BY <1>1, DomainRest
  <1>2. ASSUME NEW u \in Users, SyncUser(u)
        PROVE  Rest'
    BY <1>2, ReadUserRest, ReadTenantRest, DeleteAccountRest, ClearAccountRest, GetAccountRest,
       LookupRest, CreateRest, StoreAccountRest, GetOrgsRest, AddOrgRest, RemoveOrgsRest DEF SyncUser
  <1>3. ASSUME NEW t \in Tenants, DeleteTenant(t)
        PROVE  Rest'
    BY <1>3, DomainRest
  <1>4. ASSUME NEW t \in Tenants, SyncTenant(t)
        PROVE  Rest'
    BY <1>4, ReadTenantRowRest, EnsureOrgRest, ProvisionOrgRest, StoreOrgRest, DeleteOrgRest,
       RetireOrgRest, EmptyOrgRest, RenameOrgRest, ClearOrgRest, FanOutRest DEF SyncTenant
  <1>5. ASSUME NEW k \in Keys, Resync(k) \/ Fail(k)
        PROVE  Rest'
    BY <1>5, DomainRest, FailRest
  <1>6. CASE UNCHANGED vars
    BY <1>6, DomainRest
  <1> QED BY <1>1, <1>2, <1>3, <1>4, <1>5, <1>6 DEF Next, Keys

\* The provisioned tenant is settled, the others are queued, and there is no user.
LEMMA InitRest == Init => Rest
  <1> SUFFICES ASSUME Init PROVE Rest
    OBVIOUS
  <1> DEFINE n == Cardinality(Provisioned)
  <1> DEFINE chosen == CHOOSE t \in Provisioned : TRUE
  <1>1. Inv
    BY InitInv
  <1>2. /\ tenant = [t \in Tenants |-> "active"] /\ user = [u \in Users |-> "absent"]
        /\ orgOf = [t \in Tenants |-> IF t \in Provisioned THEN 1 ELSE None]
        /\ accountOf = [u \in Users |-> None]
        /\ org = [o \in OrgIds |-> IF o <= n THEN LiveName(chosen) ELSE NoName]
        /\ content = {1} \X {i \in Items : Provisioned # {}}
        /\ top = [org |-> n, account |-> 0]
        /\ queued = Tenants \ Provisioned /\ task = [k \in Keys |-> Idle]
    BY DEF Init, Keys
  <1>3. \/ n = 0 /\ Provisioned = {}
        \/ n = 1 /\ Provisioned # {} /\ 1 \in OrgIds /\ chosen \in Tenants
                 /\ \A t \in Provisioned : t = chosen
    BY OneProvisioned
  <1> HIDE DEF n, chosen
  <1>4. \A o \in OrgIds : org[o] # NoName => n = 1 /\ o = 1 /\ org[o] = LiveName(chosen)
    BY <1>2, <1>3, Ids
  <1>5. ASSUME NEW t \in Tenants
        PROVE  TenantRest(t)
    <2>1. task[t].at = "idle" /\ tenant[t] = "active" /\ LiveName(t) \in OwnNames(t)
      BY <1>2, IdleTask DEF Keys, OwnNames
    <2>2. orgOf[t] # None => n = 1 /\ t \in Provisioned /\ t = chosen /\ orgOf[t] = 1 /\ 1 \in OrgIds
                             /\ org[1] = LiveName(t)
      <3>1. orgOf[t] # None => t \in Provisioned /\ orgOf[t] = 1
        BY <1>2
      <3> QED BY <1>2, <1>3, <3>1
    <2>3. orgOf[t] <= top.org
      <3>1. top.org = n /\ (n = 0 \/ n = 1) /\ None = 0
        BY <1>2, <1>3, Ids
      <3>2. orgOf[t] = 0 \/ (orgOf[t] = 1 /\ n = 1)
        BY <2>2, <3>1
      <3>3. 0 <= 0 /\ 0 <= 1 /\ 1 <= 1
        OBVIOUS
      <3> QED BY <3>1, <3>2, <3>3
    <2>4. OneOrg(t)
      <3>1. \A o \in OrgIds : org[o] # RetiredName(t)
        BY <1>3, <1>4, NamesApart
      <3> QED BY <1>4, <2>1, <2>2, <2>3, <3>1, Owned DEF OneOrg
    <2>5. TenantRested(t)
      <3> SUFFICES ASSUME t \in Provisioned
                   PROVE  TenantSettled(t)
        BY <1>2 DEF TenantRested
      <3>1. orgOf[t] = 1 /\ orgOf[t] # None
        BY <1>2, Ids
      <3>2. ContentOf(1) = Items
        BY <1>2 DEF ContentOf
      <3> QED BY <2>1, <2>2, <3>1, <3>2 DEF TenantSettled
    <2> QED BY <2>1, <2>4, <2>5 DEF TenantRest, KnowsOrg, Takes, Removes
  <1>6. ASSUME NEW u \in Users
        PROVE  UserRest(u)
    <2>1. task[u].at = "idle" /\ accountOf[u] = None /\ user[u] = "absent"
      BY <1>2, IdleTask DEF Keys
    <2> QED BY <2>1 DEF UserRest, KnowsUser, UserRested, UserSettled, Wanted, Following
  <1> QED BY <1>5, <1>6 DEF Rest

LEMMA RestHolds == Spec => []Rest
  BY InvHolds, InitRest, NextRest, PTL DEF Spec

\* Once nothing is to be done about a row, it is settled: an active tenant has
\* its one org with all it needs, the org of a deleted one is renamed and empty
\* or forgotten, an active user has the account its row names and is in exactly
\* its tenant's org, and no other row names an account.  That is what the
\* handlers of grafana-tenant.mirror.ts and grafana-user.mirror.ts have reached
\* when the worker forgets the entry, whatever has changed or failed meanwhile.
THEOREM WhatRestsIsSettled ==
  Spec => [](/\ \A t \in Tenants \ (queued \cup Running) : TenantSettled(t)
             /\ \A u \in Users \ (queued \cup Running) : UserSettled(u))
  <1>1. Rest => /\ \A t \in Tenants \ (queued \cup Running) : TenantSettled(t)
                /\ \A u \in Users \ (queued \cup Running) : UserSettled(u)
    BY DEF Rest, TenantRest, TenantRested, UserRest, UserRested, Running, At
  <1> QED BY <1>1, RestHolds, PTL
=============================================================================
