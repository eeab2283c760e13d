------------------------ MODULE TenantLifecycleProofs ------------------------
(***************************************************************************)
(* Theorems about the life of a tenant, for any number of requests, users  *)
(* and enrollment tokens, and whichever transactions fail.                 *)
(***************************************************************************)
EXTENDS TenantLifecycle, TLAPS

(* The kinds of rows, and which agent a token is for.                      *)
LEMMA RowSets ==
  /\ Rows = {Tenant} \cup UserRows \cup TokenRows \cup AgentRows
  /\ Mirrored = Rows \ TokenRows
  /\ Tenant \notin UserRows /\ Tenant \notin TokenRows /\ Tenant \notin AgentRows
  /\ UserRows \cap TokenRows = {} /\ UserRows \cap AgentRows = {}
  /\ TokenRows \cap AgentRows = {}
  <1> USE DEF Tenant, UserRows, TokenRows, AgentRows, User, Token, Agent
  <1>1. Tenant \notin UserRows /\ Tenant \notin TokenRows /\ Tenant \notin AgentRows
    OBVIOUS
  <1>2. UserRows \cap TokenRows = {} /\ UserRows \cap AgentRows = {}
    OBVIOUS
  <1>3. TokenRows \cap AgentRows = {}
    OBVIOUS
  <1> QED BY <1>1, <1>2, <1>3 DEF Rows, Mirrored

LEMMA AgentsOfTokens ==
  /\ \A t \in TokenRows : AgentOf(t) \in AgentRows
  /\ \A s, t \in TokenRows : AgentOf(s) = AgentOf(t) => s = t
  /\ \A r \in AgentRows : \E t \in TokenRows : r = AgentOf(t)
  <1>1. \A e \in Tokens : AgentOf(Token(e)) = Agent(e)
    BY DEF AgentOf, Token, Agent
  <1>2. \A e, f \in Tokens : Agent(e) = Agent(f) => e = f
    BY DEF Agent
  <1> QED BY <1>1, <1>2 DEF TokenRows, AgentRows

LEMMA KindStatuses ==
  /\ StatusesOf(Tenant) = {"absent", "active", "deleted"}
  /\ \A r \in UserRows : /\ StatusesOf(r) = {"absent", "active", "deleted"}
                         /\ CascadeSets(r) = "deleted"
  /\ \A r \in AgentRows : /\ StatusesOf(r) = {"absent", "active", "disabled", "revoked"}
                          /\ CascadeSets(r) = "revoked"
  /\ \A r \in TokenRows : /\ StatusesOf(r) = {"absent", "open", "used", "revoked"}
                          /\ CascadeSets(r) = "revoked"
  BY DEF StatusesOf, CascadeSets, Tenant, UserRows, TokenRows, AgentRows, User, Token, Agent

LEMMA TargetKinds ==
  /\ \A o \in {"createTenant", "deleteTenant"} : Targets(o) = {Tenant}
  /\ \A o \in {"createUser", "updateUser", "deleteUser"} : Targets(o) = UserRows
  /\ \A o \in {"enableAgent", "disableAgent", "deleteAgent"} : Targets(o) = AgentRows
  /\ \A o \in {"createEnrollment", "revokeEnrollment", "exchange"} : Targets(o) = TokenRows
  BY DEF Targets

\* AgentIffUsed, said of rows.
LEMMA AgentIffUsedRows ==
  /\ AgentIffUsed <=> \A t \in TokenRows : row[t] = "used" <=> row[AgentOf(t)] # "absent"
  /\ AgentIffUsed' <=> \A t \in TokenRows : row'[t] = "used" <=> row'[AgentOf(t)] # "absent"
  <1>1. \A e \in Tokens : AgentOf(Token(e)) = Agent(e)
    BY DEF AgentOf, Token, Agent
  <1> QED BY <1>1 DEF AgentIffUsed, TokenRows

-----------------------------------------------------------------------------
(* The inductive invariant: what each open transaction holds.              *)

\* What a request asks for where it is.
OperationsAt(place) ==
  CASE place = "loading" ->
         {"updateUser", "deleteUser", "enableAgent", "disableAgent", "deleteAgent",
          "revokeEnrollment"}
    [] place = "writing" -> AllOperations \ {"deleteTenant", "exchange"}
    [] place \in {"locking", "readTenant", "issue"} -> {"exchange"}
    [] place = "keycloak" -> {"createTenant", "createUser", "exchange"}
    [] place \in {"markDeleted", "users", "agents", "tokens"} -> {"deleteTenant"}
    [] place = "commit" -> {"createTenant", "createUser", "exchange", "deleteTenant"}
    [] OTHER -> AllOperations

Aimed(p) ==
  /\ operation[p] \in OperationsAt(pc[p])
  /\ pc[p] # "new" => target[p] \in Targets(operation[p])

\* Locks are held inside transactions only.
Unlocked(p) == pc[p] \notin InTransaction => \A r \in Rows : draft[p][r] = Untouched

\* An insert has written its row and nothing else.
Inserted(p) ==
  operation[p] \in {"createTenant", "createUser"} /\ pc[p] \in InTransaction =>
    /\ row[target[p]] = "absent"
    /\ announced[p] = {target[p]}
    /\ \A r \in Rows : draft[p][r] = IF r = target[p] THEN "active" ELSE Untouched

\* An exchange holds an open token, and from Issue on its new agent.
Exchanged(p) ==
  operation[p] = "exchange" /\ pc[p] \in InTransaction =>
    /\ row[target[p]] = "open"
    /\ draft[p][target[p]] = IF pc[p] = "commit" THEN "used" ELSE "open"
    /\ draft[p][AgentOf(target[p])] =
         CASE pc[p] = "commit" -> "active"
           [] pc[p] = "keycloak" -> "provisioning"
           [] OTHER -> Untouched
    /\ \A r \in Rows \ {target[p], AgentOf(target[p])} : draft[p][r] = Untouched
    /\ pc[p] \in {"keycloak", "commit"} => announced[p] = {AgentOf(target[p])}

\* A delete ends each live row it got to, and announces it if it is mirrored.
Ended(p, r) ==
  /\ row[r] # "absent"
  /\ IF CascadeHits(row[r])
       THEN draft[p][r] = CascadeSets(r) /\ {r} \cap Mirrored \subseteq announced[p]
       ELSE draft[p][r] = row[r]

Deleted(p) ==
  operation[p] = "deleteTenant" /\ pc[p] # "new" =>
    /\ row[Tenant] # "absent"
    /\ pc[p] \in InTransaction =>
         /\ Tenant \in announced[p] /\ draft[p][Tenant] = "deleted"
         /\ \A r \in Rows \ {Tenant} : draft[p][r] = Untouched \/ Ended(p, r)
         /\ \A r \in matched[p] : row[r] # "absent" /\ r # Tenant
         /\ pc[p] = "commit" => matched[p] = {}

\* A request writes to a row that was there when it read it.
Written(p) ==
  pc[p] = "writing" =>
    CASE operation[p] \in {"createTenant", "createUser"} -> TRUE
      [] operation[p] = "createEnrollment" -> row[target[p]] = "absent"
      [] OTHER -> row[target[p]] # "absent"

\* What was live when the delete began is dead, ended or still to be got to.
Covers(p) ==
  operation[p] = "deleteTenant" /\ pc[p] \in InTransaction /\ row[Tenant] = "active" =>
    \A r \in found \ {Tenant} :
      \/ ~Live(row[r]) \/ draft[p][r] # Untouched \/ r \in matched[p]
      \/ pc[p] = "users" /\ r \notin UserRows
      \/ pc[p] = "agents" /\ r \in TokenRows

ProcInv(p) ==
  /\ Aimed(p) /\ Unlocked(p) /\ Inserted(p) /\ Exchanged(p) /\ Deleted(p)
  /\ Written(p) /\ Covers(p)

RowKinds == \A r \in Rows : row[r] \in StatusesOf(r)

\* Two transactions never hold one row.
DraftsApart ==
  \A p, q \in Requests : \A r \in Rows :
    draft[p][r] # Untouched /\ draft[q][r] # Untouched => p = q

\* The id of a new token is nobody else's.
NewTokensApart ==
  \A p, q \in Requests :
    /\ pc[p] = "writing" /\ operation[p] = "createEnrollment"
    /\ pc[q] = "writing" /\ operation[q] = "createEnrollment"
    /\ target[p] = target[q]
    => p = q

FoundWas == \A r \in found : row[r] # "absent"

Inv ==
  /\ TypeOK /\ RowKinds /\ DraftsApart /\ NewTokensApart
  /\ \A p \in Requests : ProcInv(p)
  /\ AgentIffUsed /\ ChangesAreEnqueued
  /\ FoundWas /\ DeleteEndsAllItFound

USE DEF InTransaction, Statuses, Untouched

\* Rows appear and die, and what is dead stays as it is.
Evolves(r) ==
  \/ row'[r] = row[r]
  \/ row[r] = "absent" /\ row'[r] # "absent"
  \/ Live(row[r]) /\ row'[r] # "absent"

\* The request does nothing, and no row it holds changes.
Rests(q) ==
  /\ pc'[q] = pc[q] /\ operation'[q] = operation[q] /\ target'[q] = target[q]
  /\ matched'[q] = matched[q] /\ announced'[q] = announced[q] /\ draft'[q] = draft[q]
  /\ \A r \in Rows : row'[r] # row[r] => draft[q][r] = Untouched

LEMMA OthersKeep ==
  ASSUME Inv, NEW q \in Requests, Rests(q), \A r \in Rows : Evolves(r),
         found' = found \/ ~(operation[q] = "deleteTenant" /\ pc[q] \in InTransaction),
         pc[q] = "writing" /\ operation[q] = "createEnrollment" =>
           row'[target[q]] = row[target[q]]
  PROVE  ProcInv(q)'
  <1>1. /\ Aimed(q) /\ Unlocked(q) /\ Inserted(q) /\ Exchanged(q) /\ Deleted(q)
        /\ Written(q) /\ Covers(q)
    BY DEF Inv, ProcInv
  <1>2. TypeOK /\ FoundWas /\ RowKinds
    BY DEF Inv
  <1>3. target[q] \in Rows /\ matched[q] \subseteq Rows /\ found \subseteq Rows /\ Tenant \in Rows
    BY <1>2, RowSets DEF TypeOK
  <1>4. Aimed(q)'
    BY <1>1 DEF Aimed, Rests
  <1>5. Unlocked(q)'
    BY <1>1 DEF Unlocked, Rests
  <1>6. Inserted(q)'
    BY <1>1, <1>3 DEF Inserted, Rests
  <1>7. Exchanged(q)'
    BY <1>1, <1>3 DEF Exchanged, Rests
  <1>8. \A r \in Rows : row[r] # "absent" => row'[r] # "absent"
    BY DEF Evolves
  <1>9. \A r \in Rows : row[r] # "absent" /\ ~Live(row[r]) => row'[r] = row[r]
    BY DEF Evolves
  <1>10. Deleted(q)'
    <2>1. ASSUME NEW r \in Rows, draft[q][r] # Untouched, Ended(q, r)  PROVE Ended(q, r)'
      BY <2>1 DEF Ended, Rests
    <2> QED BY <1>1, <1>3, <1>8, <2>1 DEF Deleted, Rests
  <1>11. Written(q)'
    BY <1>1, <1>3, <1>8 DEF Written, Rests
  <1>12. Covers(q)'
    <2>1. Deleted(q) /\ row[Tenant] \in {"absent", "active", "deleted"}
      BY <1>1, <1>2, <1>3, KindStatuses DEF RowKinds
    <2> SUFFICES ASSUME operation[q] = "deleteTenant", pc[q] \in InTransaction,
                        row'[Tenant] = "active", NEW r \in found' \ {Tenant}
                 PROVE  \/ ~Live(row'[r]) \/ draft[q][r] # Untouched \/ r \in matched[q]
                        \/ pc[q] = "users" /\ r \notin UserRows
                        \/ pc[q] = "agents" /\ r \in TokenRows
      BY DEF Covers, Rests, Live
    <2>0. found' = found
      OBVIOUS
    <2>2. row[Tenant] = "active"
      BY <1>3, <1>9, <2>1 DEF Deleted, Live
    <2>3. \/ ~Live(row[r]) \/ draft[q][r] # Untouched \/ r \in matched[q]
          \/ pc[q] = "users" /\ r \notin UserRows
          \/ pc[q] = "agents" /\ r \in TokenRows
      BY <1>1, <2>0, <2>2 DEF Covers
    <2>4. ~Live(row[r]) => ~Live(row'[r])
      BY <1>2, <1>3, <1>9, <2>0 DEF FoundWas
    <2> QED BY <2>3, <2>4
  <1> QED BY <1>4, <1>5, <1>6, <1>7, <1>10, <1>11, <1>12 DEF ProcInv

USE DEF Places

\* A request is served once, by steps of its own.
Alone(p) ==
  \A q \in Requests \ {p} :
    /\ pc'[q] = pc[q] /\ operation'[q] = operation[q] /\ target'[q] = target[q]
    /\ matched'[q] = matched[q] /\ announced'[q] = announced[q] /\ draft'[q] = draft[q]

\* A step of p that commits nothing.
LEMMA LocalStep ==
  ASSUME Inv, NEW p \in Requests, Alone(p), UNCHANGED <<row, lastCommit>>,
         TypeOK', ProcInv(p)',
         \A r \in Rows : draft'[p][r] # Untouched => draft[p][r] # Untouched \/ Free(p, r),
         pc'[p] = "writing" /\ operation'[p] = "createEnrollment" =>
           \A q \in Requests \ {p} : pc[q] = "new" \/ target[q] # target'[p],
         \/ found' = found
         \/ /\ \A q \in Requests \ {p} : ~(operation[q] = "deleteTenant" /\ pc[q] \in InTransaction)
            /\ \A r \in found' : row[r] # "absent"
            /\ row[Tenant] = "active"
  PROVE  Inv'
  <1>1. ASSUME NEW q \in Requests \ {p}  PROVE ProcInv(q)'
    <2>1. Rests(q)
      BY DEF Rests, Alone
    <2>2. \A r \in Rows : Evolves(r)
      BY DEF Evolves
    <2> QED BY <2>1, <2>2, OthersKeep
  <1>2. RowKinds' /\ AgentIffUsed' /\ ChangesAreEnqueued'
    BY DEF Inv, RowKinds, AgentIffUsed, ChangesAreEnqueued
  <1>3. DraftsApart'
    <2> SUFFICES ASSUME NEW u \in Requests, NEW v \in Requests, NEW r \in Rows,
                        draft'[u][r] # Untouched, draft'[v][r] # Untouched
                 PROVE  u = v
      BY DEF DraftsApart
    <2>1. CASE u # p /\ v # p
      BY <2>1 DEF Alone, Inv, DraftsApart
    <2>2. CASE u = p /\ v # p
      BY <2>2 DEF Alone, Inv, DraftsApart, Free
    <2>3. CASE u # p /\ v = p
      BY <2>3 DEF Alone, Inv, DraftsApart, Free
    <2> QED BY <2>1, <2>2, <2>3
  <1>4. NewTokensApart'
    BY DEF Alone, Inv, NewTokensApart
  <1>5. FoundWas' /\ DeleteEndsAllItFound'
    BY DEF Inv, FoundWas, DeleteEndsAllItFound
  <1> QED BY <1>1, <1>2, <1>3, <1>4, <1>5 DEF Inv

\* A step of p that commits, and ends p.
LEMMA CommitStep ==
  ASSUME Inv, NEW p \in Requests, Alone(p), UNCHANGED found,
         TypeOK', RowKinds', AgentIffUsed', ChangesAreEnqueued',
         pc'[p] = "end", operation'[p] = operation[p], target'[p] = target[p],
         \A r \in Rows : draft'[p][r] = Untouched,
         pc[p] # "new", operation[p] = "deleteTenant" => row[Tenant] # "absent",
         \A r \in Rows : Evolves(r),
         \A r \in Rows : row'[r] # row[r] =>
           \A q \in Requests \ {p} :
             /\ draft[q][r] = Untouched
             /\ pc[q] = "writing" /\ operation[q] = "createEnrollment" => target[q] # r,
         row'[Tenant] = "deleted" /\ row[Tenant] # "deleted" =>
           \A r \in found : ~Live(row'[r])
  PROVE  Inv'
  <1>1. TypeOK /\ Tenant \in Rows /\ found \subseteq Rows /\ FoundWas
    BY RowSets DEF Inv, TypeOK
  <1>2. ASSUME NEW q \in Requests \ {p}  PROVE ProcInv(q)'
    <2>1. Rests(q)
      BY DEF Rests, Alone
    <2>2. target[q] \in Rows
      BY <1>1 DEF TypeOK
    <2> QED BY <2>1, <2>2, OthersKeep
  <1>3. ProcInv(p)'
    <2>1. Aimed(p)'
      BY DEF Inv, ProcInv, Aimed, OperationsAt, TypeOK
    <2>2. Deleted(p)'
      BY <1>1 DEF Deleted, Evolves
    <2> QED BY <2>1, <2>2
         DEF ProcInv, Unlocked, Inserted, Exchanged, Written, Covers
  <1>4. DraftsApart'
    BY DEF Alone, Inv, DraftsApart
  <1>5. NewTokensApart'
    BY DEF Alone, Inv, NewTokensApart
  <1>6. FoundWas'
    BY <1>1 DEF FoundWas, Evolves
  <1>7. DeleteEndsAllItFound'
    <2> SUFFICES ASSUME row'[Tenant] = "deleted", NEW r \in found
                 PROVE  row'[r] = "used" \/ ~Live(row'[r])
      BY DEF DeleteEndsAllItFound
    <2>1. CASE row[Tenant] = "deleted"
      <3>1. ~Live(row[r]) /\ row[r] # "absent"
        BY <1>1, <2>1 DEF Inv, DeleteEndsAllItFound, FoundWas, Live
      <3> QED BY <1>1, <3>1 DEF Evolves
    <2> QED BY <2>1
  <1> QED BY <1>2, <1>3, <1>4, <1>5, <1>6, <1>7 DEF Inv

\* What every step of p that is not a commit has to show about p itself.
LEMMA FinishStep ==
  ASSUME Inv, NEW p \in Requests, Finish(p), UNCHANGED <<row, expired, history>>,
         pc[p] # "new", DropDraft(p) \/ (UNCHANGED draft /\ pc[p] \notin InTransaction)
  PROVE  Inv'
  <1> USE DEF history
  <1>1. TypeOK /\ ProcInv(p)
    BY DEF Inv
  <1>2. TypeOK'
    BY <1>1 DEF TypeOK, Finish, DropDraft
  <1>3. pc'[p] = "end" /\ Alone(p)
    BY <1>1 DEF TypeOK, Finish, DropDraft, Alone
  <1>4. \A r \in Rows : draft'[p][r] = Untouched
    BY <1>1 DEF TypeOK, DropDraft, ProcInv, Unlocked
  <1>5. Aimed(p)'
    BY <1>1, <1>3 DEF TypeOK, Finish, ProcInv, Aimed, OperationsAt
  <1>6. ProcInv(p)'
    BY <1>1, <1>3, <1>4, <1>5
       DEF ProcInv, Finish, Unlocked, Inserted, Exchanged, Deleted, Written, Covers
  <1> QED BY <1>2, <1>3, <1>4, <1>6, LocalStep

LEMMA ReceiveStep ==
  ASSUME Inv, NEW p \in Requests, NEW o \in Operations, NEW r \in Targets(o), Receive(p, o, r)
  PROVE  Inv'
  <1> USE DEF history
  <1>1. TypeOK /\ ProcInv(p) /\ pc[p] = "new"
    BY DEF Inv, Receive
  <1>2. o \in AllOperations /\ r \in Rows
    BY LifecycleAssumption, RowSets, TargetKinds DEF AllOperations
  <1>3. FirstPlace(o) \in {"writing", "markDeleted", "locking", "loading"}
    BY DEF FirstPlace
  <1>4. TypeOK'
    BY <1>1, <1>2, <1>3 DEF TypeOK, Receive
  <1>5. /\ Alone(p) /\ pc'[p] = FirstPlace(o) /\ operation'[p] = o /\ target'[p] = r
        /\ UNCHANGED <<row, draft, found, lastCommit>>
    BY <1>1 DEF TypeOK, Receive, Alone
  <1>6. \A x \in Rows : draft[p][x] = Untouched
    BY <1>1 DEF ProcInv, Unlocked
  <1>7. Aimed(p)'
    BY <1>2, <1>5, TargetKinds DEF Aimed, OperationsAt, FirstPlace, AllOperations
  <1>8. Written(p)' /\ Deleted(p)'
    <2>1. o = "deleteTenant" => row[Tenant] # "absent"
      BY DEF Receive, TenantScope
    <2>2. FirstPlace(o) = "writing" /\ o = "createEnrollment" => row[r] = "absent"
      BY DEF Receive, Fresh
    <2>3. FirstPlace(o) = "writing" => o \in {"createTenant", "createUser", "createEnrollment"}
      BY DEF FirstPlace
    <2> QED BY <1>3, <1>5, <2>1, <2>2, <2>3 DEF Written, Deleted
  <1>9. ProcInv(p)'
    BY <1>3, <1>5, <1>6, <1>7, <1>8
       DEF ProcInv, Unlocked, Inserted, Exchanged, Covers
  <1>10. o = "createEnrollment" =>
           \A q \in Requests \ {p} : pc[q] = "new" \/ target[q] # r
    BY DEF Receive, Fresh
  <1> QED BY <1>4, <1>5, <1>6, <1>9, <1>10, LocalStep

LEMMA LoadStep ==
  ASSUME Inv, NEW p \in Requests, Load(p)
  PROVE  Inv'
  <1> USE DEF history
  <1>1. TypeOK /\ ProcInv(p) /\ pc[p] = "loading"
    BY DEF Inv, Load
  <1>2. TypeOK'
    BY <1>1 DEF TypeOK, Load
  <1>3. /\ Alone(p) /\ UNCHANGED <<row, draft, found, lastCommit, operation, target>>
        /\ \/ pc'[p] = "writing" /\ Acceptable(operation[p], row[target[p]])
           \/ pc'[p] = "end"
    BY <1>1 DEF TypeOK, Load, Alone
  <1>4. operation[p] \in {"updateUser", "deleteUser", "enableAgent", "disableAgent",
                          "deleteAgent", "revokeEnrollment"}
    BY <1>1 DEF ProcInv, Aimed, OperationsAt
  <1>5. Aimed(p)'
    BY <1>1, <1>3, <1>4 DEF ProcInv, Aimed, OperationsAt, AllOperations
  <1>6. Written(p)'
    BY <1>3, <1>4 DEF Written, Acceptable
  <1>7. ProcInv(p)'
    BY <1>1, <1>3, <1>4, <1>5, <1>6
       DEF ProcInv, Unlocked, Inserted, Exchanged, Deleted, Covers
  <1>8. \A r \in Rows : draft'[p][r] = Untouched
    BY <1>1, <1>3 DEF ProcInv, Unlocked
  <1> QED BY <1>2, <1>3, <1>4, <1>7, <1>8, LocalStep

LEMMA InsertRowStep ==
  ASSUME Inv, NEW p \in Requests, InsertRow(p)
  PROVE  Inv'
  <1> USE DEF history
  <1>1. TypeOK /\ ProcInv(p) /\ pc[p] = "writing" /\ UNCHANGED <<row, expired, found, lastCommit>>
        /\ operation[p] \in {"createTenant", "createUser"}
    BY DEF Inv, InsertRow
  <1>2. CASE Finish(p) /\ UNCHANGED draft
    BY <1>1, <1>2, FinishStep
  <1>3. CASE /\ row[target[p]] = "absent"
             /\ draft' = [draft EXCEPT ![p][target[p]] = "active"]
             /\ announced' = [announced EXCEPT ![p] = {target[p]}]
             /\ pc' = [pc EXCEPT ![p] = "keycloak"]
             /\ UNCHANGED <<operation, target, matched>>
    <2>1. target[p] \in Rows /\ target[p] \in Mirrored
      BY <1>1, RowSets, TargetKinds DEF ProcInv, Aimed
    <2>2. /\ Alone(p) /\ pc'[p] = "keycloak" /\ announced'[p] = {target[p]}
          /\ \A r \in Rows : draft'[p][r] = IF r = target[p] THEN "active" ELSE Untouched
      BY <1>1, <1>3, <2>1 DEF TypeOK, Alone, ProcInv, Unlocked
    <2>3. TypeOK'
      <3>1. draft' \in [Requests -> [Rows -> Statuses \cup {Untouched}]]
        BY <1>1, <1>3 DEF TypeOK
      <3> QED BY <1>1, <1>3, <2>1, <3>1 DEF TypeOK
    <2>4. Aimed(p)'
      BY <1>1, <1>3, <2>2 DEF ProcInv, Aimed, OperationsAt
    <2>5. ProcInv(p)'
      BY <1>1, <1>3, <2>2, <2>4
         DEF ProcInv, Unlocked, Inserted, Exchanged, Deleted, Written, Covers
    <2>6. Free(p, target[p])
      BY DEF InsertRow
    <2>7. \A r \in Rows : draft'[p][r] # Untouched => Free(p, r)
      BY <2>2, <2>6
    <2> QED BY <1>1, <2>2, <2>3, <2>5, <2>7, LocalStep
  <1> QED BY <1>2, <1>3 DEF InsertRow

LEMMA KeycloakStep ==
  ASSUME Inv, NEW p \in Requests, KeycloakAnswers(p)
  PROVE  Inv'
  <1> USE DEF history
  <1>1. TypeOK /\ ProcInv(p) /\ pc[p] = "keycloak" /\ pc'[p] = "commit"
        /\ UNCHANGED <<row, expired, operation, target, matched, announced, found, lastCommit>>
    BY DEF Inv, KeycloakAnswers, TypeOK
  <1>2. operation[p] \in {"createTenant", "createUser", "exchange"}
        /\ target[p] \in Targets(operation[p])
    BY <1>1 DEF ProcInv, Aimed, OperationsAt
  <1>3. Aimed(p)'
    BY <1>1, <1>2 DEF Aimed, OperationsAt
  <1>4. CASE operation[p] # "exchange"
    <2>1. UNCHANGED draft
      BY <1>1, <1>4 DEF KeycloakAnswers, TypeOK
    <2>2. TypeOK'
      BY <1>1, <2>1 DEF TypeOK, KeycloakAnswers
    <2>3. Alone(p)
      BY <1>1, <2>1 DEF KeycloakAnswers, Alone, TypeOK
    <2>4. ProcInv(p)'
      BY <1>1, <1>2, <1>3, <1>4, <2>1
         DEF ProcInv, Unlocked, Inserted, Exchanged, Deleted, Written, Covers
    <2> QED BY <1>1, <2>1, <2>2, <2>3, <2>4, LocalStep
  <1>5. CASE operation[p] = "exchange"
    <2> DEFINE t == target[p]
               a == AgentOf(target[p])
    <2>1. t \in Rows /\ a \in Rows /\ a # t
      BY <1>2, <1>5, RowSets, AgentsOfTokens, TargetKinds
    <2>2. draft[p][t] = "open" /\ draft[p][a] = "provisioning" /\ row[t] = "open"
          /\ announced[p] = {a}
          /\ \A r \in Rows \ {t, a} : draft[p][r] = Untouched
      BY <1>1, <1>5 DEF ProcInv, Exchanged
    <2>3. draft' = [draft EXCEPT ![p] = [draft[p] EXCEPT ![a] = "active", ![t] = "used"]]
      <3>1. draft' = [draft EXCEPT ![p] = Activated(p)]
        BY <1>5 DEF KeycloakAnswers
      <3>2. SetStatus(draft[p][a], "active") = "active" /\ MarkUsed(draft[p][t]) = "used"
        BY <2>2 DEF SetStatus, MarkUsed
      <3>3. draft[p] \in [Rows -> Statuses \cup {Untouched}]
        BY <1>1 DEF TypeOK
      <3>4. Activated(p) = [draft[p] EXCEPT ![a] = "active", ![t] = "used"]
        BY <2>1, <3>2, <3>3 DEF Activated
      <3> QED BY <3>1, <3>4
    <2>4. /\ draft'[p][t] = "used" /\ draft'[p][a] = "active"
          /\ \A r \in Rows \ {t, a} : draft'[p][r] = Untouched
      BY <1>1, <2>1, <2>2, <2>3 DEF TypeOK
    <2>5. Alone(p)
      BY <1>1, <2>3 DEF KeycloakAnswers, Alone, TypeOK
    <2>6. TypeOK'
      <3>1. draft' \in [Requests -> [Rows -> Statuses \cup {Untouched}]]
        BY <1>1, <2>1, <2>3 DEF TypeOK
      <3>2. pc' \in [Requests -> Places]
        BY <1>1 DEF TypeOK, KeycloakAnswers
      <3> QED BY <1>1, <3>1, <3>2 DEF TypeOK
    <2>7. ProcInv(p)'
      BY <1>1, <1>3, <1>5, <2>2, <2>4
         DEF ProcInv, Unlocked, Inserted, Exchanged, Deleted, Written, Covers
    <2>8. \A r \in Rows : draft'[p][r] # Untouched => draft[p][r] # Untouched
      BY <2>2, <2>4
    <2> QED BY <1>1, <2>5, <2>6, <2>7, <2>8, LocalStep
  <1> QED BY <1>4, <1>5

LEMMA LockTokenStep ==
  ASSUME Inv, NEW p \in Requests, LockToken(p)
  PROVE  Inv'
  <1> USE DEF history
  <1> DEFINE t == target[p]
  <1>1. TypeOK /\ ProcInv(p) /\ pc[p] = "locking" /\ UNCHANGED <<row, expired, found, lastCommit>>
    BY DEF Inv, LockToken
  <1>2. operation[p] = "exchange" /\ t \in TokenRows
    BY <1>1, TargetKinds DEF ProcInv, Aimed, OperationsAt
  <1>3. CASE Finish(p) /\ UNCHANGED draft
    BY <1>1, <1>3, FinishStep
  <1>4. CASE /\ Exchangeable(t)
             /\ draft' = [draft EXCEPT ![p][t] = row[t]]
             /\ pc' = [pc EXCEPT ![p] = "readTenant"]
             /\ UNCHANGED <<operation, target, matched, announced>>
    <2>1. t \in Rows /\ row[t] = "open" /\ AgentOf(t) \in Rows /\ AgentOf(t) # t
      BY <1>2, <1>4, RowSets, AgentsOfTokens DEF Exchangeable
    <2>2. \A r \in Rows : draft'[p][r] = IF r = t THEN "open" ELSE Untouched
      BY <1>1, <1>4, <2>1 DEF TypeOK, ProcInv, Unlocked
    <2>3. TypeOK'
      <3>1. draft' \in [Requests -> [Rows -> Statuses \cup {Untouched}]]
        BY <1>1, <1>4 DEF TypeOK
      <3> QED BY <1>1, <1>4, <3>1 DEF TypeOK
    <2>4. Alone(p) /\ pc'[p] = "readTenant"
      BY <1>1, <1>4 DEF Alone, TypeOK
    <2>5. Aimed(p)'
      BY <1>1, <1>2, <1>4, <2>4 DEF ProcInv, Aimed, OperationsAt
    <2>6. ProcInv(p)'
      BY <1>1, <1>2, <1>4, <2>1, <2>2, <2>4, <2>5
         DEF ProcInv, Unlocked, Inserted, Exchanged, Deleted, Written, Covers
    <2>7. \A r \in Rows : draft'[p][r] # Untouched => Free(p, r)
      BY <2>2 DEF LockToken
    <2> QED BY <1>1, <2>3, <2>4, <2>6, <2>7, LocalStep
  <1> QED BY <1>3, <1>4 DEF LockToken

LEMMA ReadTenantStep ==
  ASSUME Inv, NEW p \in Requests, ReadTenant(p)
  PROVE  Inv'
  <1> USE DEF history
  <1>1. TypeOK /\ ProcInv(p) /\ pc[p] = "readTenant" /\ UNCHANGED <<row, expired, found, lastCommit>>
    BY DEF Inv, ReadTenant
  <1>2. CASE Finish(p) /\ DropDraft(p)
    BY <1>1, <1>2, FinishStep
  <1>3. CASE /\ pc' = [pc EXCEPT ![p] = "issue"]
             /\ UNCHANGED <<draft, operation, target, matched, announced>>
    <2>1. Alone(p) /\ pc'[p] = "issue"
      BY <1>1, <1>3 DEF Alone, TypeOK
    <2>2. TypeOK'
      BY <1>1, <1>3 DEF TypeOK
    <2>3. Aimed(p)' /\ operation[p] = "exchange"
      BY <1>1, <1>3, <2>1 DEF ProcInv, Aimed, OperationsAt
    <2>4. ProcInv(p)'
      BY <1>1, <1>3, <2>1, <2>3
         DEF ProcInv, Unlocked, Inserted, Exchanged, Deleted, Written, Covers
    <2> QED BY <1>1, <1>3, <2>1, <2>2, <2>4, LocalStep
  <1> QED BY <1>2, <1>3 DEF ReadTenant

\* The row of the agent is free: it was never inserted, as its token is open.
LEMMA IssueStep ==
  ASSUME Inv, NEW p \in Requests, Issue(p)
  PROVE  Inv'
  <1> USE DEF history
  <1> DEFINE t == target[p]
             a == AgentOf(target[p])
  <1>1. TypeOK /\ ProcInv(p) /\ pc[p] = "issue"
        /\ UNCHANGED <<row, expired, found, lastCommit, operation, target, matched>>
    BY DEF Inv, Issue
  <1>2. operation[p] = "exchange" /\ t \in TokenRows
    BY <1>1, TargetKinds DEF ProcInv, Aimed, OperationsAt
  <1>3. t \in Rows /\ a \in AgentRows /\ a \in Rows /\ a \in Mirrored /\ a # t
    BY <1>2, RowSets, AgentsOfTokens
  <1>4. row[t] = "open" /\ draft[p][t] = "open"
        /\ \A r \in Rows \ {t} : draft[p][r] = Untouched
    BY <1>1, <1>2, <1>3 DEF ProcInv, Exchanged
  <1>5. /\ draft'[p][t] = "open" /\ draft'[p][a] = "provisioning"
        /\ \A r \in Rows \ {t, a} : draft'[p][r] = Untouched
        /\ pc'[p] = "keycloak" /\ announced'[p] = {a}
    BY <1>1, <1>3, <1>4 DEF Issue, TypeOK
  <1>6. Alone(p)
    BY <1>1 DEF Issue, Alone, TypeOK
  <1>7. TypeOK'
    <2>1. draft' \in [Requests -> [Rows -> Statuses \cup {Untouched}]]
      BY <1>1, <1>3 DEF TypeOK, Issue
    <2>2. pc' \in [Requests -> Places] /\ announced' \in [Requests -> SUBSET Mirrored]
      BY <1>1, <1>3 DEF TypeOK, Issue
    <2> QED BY <1>1, <2>1, <2>2 DEF TypeOK
  <1>8. Aimed(p)'
    BY <1>1, <1>2, <1>5 DEF ProcInv, Aimed, OperationsAt
  <1>9. ProcInv(p)'
    BY <1>1, <1>2, <1>4, <1>5, <1>8
       DEF ProcInv, Unlocked, Inserted, Exchanged, Deleted, Written, Covers
  <1>10. Free(p, a)
    <2>1. row[a] = "absent"
      BY <1>2, <1>4, AgentIffUsedRows DEF Inv
    <2> SUFFICES ASSUME NEW q \in Requests \ {p}, draft[q][a] # Untouched  PROVE FALSE
      BY DEF Free
    <2>2. ProcInv(q) /\ draft[q][t] = Untouched
      BY <1>3, <1>4 DEF Inv, DraftsApart
    <2>3. pc[q] \in InTransaction
      BY <1>3, <2>2 DEF ProcInv, Unlocked
    <2>4. operation[q] \in {"createTenant", "createUser", "exchange", "deleteTenant"}
          /\ target[q] \in Targets(operation[q])
      BY <2>2, <2>3 DEF ProcInv, Aimed, OperationsAt
    <2>5. CASE operation[q] \in {"createTenant", "createUser"}
      <3>1. target[q] # a
        BY <1>3, <2>4, <2>5, RowSets, TargetKinds
      <3> QED BY <1>3, <2>2, <2>3, <2>5, <3>1 DEF ProcInv, Inserted
    <2>6. CASE operation[q] = "exchange"
      <3>1. target[q] \in TokenRows /\ target[q] \in Rows
        BY <2>4, <2>6, TargetKinds, RowSets
      <3>2. target[q] # t
        BY <2>2, <2>3, <2>6 DEF ProcInv, Exchanged
      <3>3. a # AgentOf(target[q]) /\ a # target[q]
        BY <1>2, <1>3, <3>1, <3>2, AgentsOfTokens, RowSets
      <3> QED BY <1>3, <2>2, <2>3, <2>6, <3>3 DEF ProcInv, Exchanged
    <2>7. CASE operation[q] = "deleteTenant"
      <3>1. a # Tenant
        BY <1>3, RowSets
      <3> QED BY <1>3, <2>1, <2>2, <2>3, <2>7, <3>1 DEF ProcInv, Deleted, Ended
    <2> QED BY <2>4, <2>5, <2>6, <2>7
  <1>11. \A r \in Rows : draft'[p][r] # Untouched => draft[p][r] # Untouched \/ Free(p, r)
    BY <1>4, <1>5, <1>10
  <1> QED BY <1>1, <1>5, <1>6, <1>7, <1>9, <1>11, LocalStep

\* A delete that begins finds the rows that are live, and holds the tenant's.
LEMMA DeleteTenantStep ==
  ASSUME Inv, NEW p \in Requests, DeleteTenant(p)
  PROVE  Inv'
  <1> USE DEF history
  <1>1. TypeOK /\ ProcInv(p) /\ pc[p] = "markDeleted" /\ Free(p, Tenant) /\ Tenant \in Rows
        /\ UNCHANGED <<row, expired, lastCommit, operation, target>>
    BY RowSets DEF Inv, DeleteTenant
  <1>2. operation[p] = "deleteTenant" /\ row[Tenant] # "absent"
        /\ \A r \in Rows : draft[p][r] = Untouched
    BY <1>1 DEF ProcInv, Aimed, OperationsAt, Deleted, Unlocked
  <1>3. /\ pc'[p] = "users" /\ announced'[p] = {Tenant}
        /\ matched'[p] = Matches(p, UserRows)
        /\ \A r \in Rows : draft'[p][r] = IF r = Tenant THEN "deleted" ELSE Untouched
    BY <1>1, <1>2 DEF DeleteTenant, MarkDeleted, TypeOK
  <1>4. Matches(p, UserRows) = {r \in UserRows : CascadeHits(row[r])}
    BY <1>2, RowSets DEF Matches, Reads
  <1>5. Alone(p)
    BY <1>1 DEF DeleteTenant, Alone, TypeOK
  <1>6. TypeOK'
    <2>1. draft' \in [Requests -> [Rows -> Statuses \cup {Untouched}]]
      BY <1>1 DEF TypeOK, DeleteTenant, MarkDeleted
    <2>2. pc' \in [Requests -> Places] /\ announced' \in [Requests -> SUBSET Mirrored]
      BY <1>1, RowSets DEF TypeOK, DeleteTenant
    <2>3. matched' \in [Requests -> SUBSET Rows]
      BY <1>1, <1>4, RowSets DEF TypeOK, DeleteTenant
    <2>4. found' \subseteq Rows
      BY <1>1 DEF TypeOK, DeleteTenant
    <2> QED BY <1>1, <2>1, <2>2, <2>3, <2>4 DEF TypeOK
  <1>7. Aimed(p)'
    BY <1>1, <1>2, <1>3 DEF ProcInv, Aimed, OperationsAt
  <1>8. Deleted(p)'
    BY <1>1, <1>2, <1>3, <1>4, RowSets DEF Deleted, CascadeHits
  <1>9. Covers(p)'
    <2> SUFFICES ASSUME row[Tenant] = "active", NEW r \in found' \ {Tenant}
                 PROVE  r \in matched'[p] \/ r \notin UserRows
      BY <1>1, <1>3 DEF Covers
    <2>1. Live(row[r])
      BY DEF DeleteTenant
    <2> QED BY <1>3, <1>4, <2>1 DEF Live, CascadeHits
  <1>10. ProcInv(p)'
    BY <1>1, <1>2, <1>3, <1>7, <1>8, <1>9
       DEF ProcInv, Unlocked, Inserted, Exchanged, Written
  <1>11. \A r \in Rows : draft'[p][r] # Untouched => Free(p, r)
    BY <1>1, <1>3
  <1>12. ASSUME found' # found
         PROVE  /\ \A q \in Requests \ {p} :
                     ~(operation[q] = "deleteTenant" /\ pc[q] \in InTransaction)
                /\ \A r \in found' : row[r] # "absent"
                /\ row[Tenant] = "active"
    <2>1. row[Tenant] = "active" /\ found' = {r \in Rows : Live(row[r])}
      BY <1>12 DEF DeleteTenant
    <2>2. ASSUME NEW q \in Requests \ {p}, operation[q] = "deleteTenant", pc[q] \in InTransaction
          PROVE  FALSE
      <3>1. draft[q][Tenant] = "deleted"
        BY <2>2 DEF Inv, ProcInv, Deleted
      <3> QED BY <1>1, <3>1 DEF Free
    <2> QED BY <2>1, <2>2 DEF Live
  <1> QED BY <1>1, <1>3, <1>5, <1>6, <1>10, <1>11, <1>12, LocalStep

\* An update of the delete that gets to a row ends it, or finds it dead.
LEMMA CascadeRowStep ==
  ASSUME Inv, NEW p \in Requests, NEW r \in Rows, CascadeRow(p, r)
  PROVE  Inv'
  <1> USE DEF history
  <1>1. TypeOK /\ ProcInv(p) /\ pc[p] \in {"users", "agents", "tokens"}
        /\ r \in matched[p] /\ Free(p, r)
        /\ UNCHANGED <<row, expired, pc, operation, target, found, lastCommit>>
    BY DEF Inv, CascadeRow
  <1>2. operation[p] = "deleteTenant" /\ target[p] \in Targets(operation[p])
    BY <1>1 DEF ProcInv, Aimed, OperationsAt
  <1>3. row[r] # "absent" /\ r # Tenant /\ row[r] \in Statuses
    BY <1>1, <1>2 DEF ProcInv, Deleted, TypeOK
  <1>4. CascadeSets(r) \in {"deleted", "revoked"}
    BY DEF CascadeSets
  <1> DEFINE new == IF CascadeHits(row[r]) THEN CascadeSets(r) ELSE row[r]
  <1>5. draft' = [draft EXCEPT ![p][r] = new] /\ new \in Statuses
    BY <1>3, <1>4 DEF CascadeRow
  <1>6. /\ draft'[p][r] = new
        /\ \A x \in Rows \ {r} : draft'[p][x] = draft[p][x]
        /\ matched'[p] = matched[p] \ {r}
        /\ announced[p] \subseteq announced'[p]
        /\ CascadeHits(row[r]) => {r} \cap Mirrored \subseteq announced'[p]
    BY <1>1, <1>5 DEF CascadeRow, Returning, TypeOK
  <1>7. Alone(p)
    BY <1>1, <1>5 DEF CascadeRow, Alone, TypeOK
  <1>8. TypeOK'
    <2>1. draft' \in [Requests -> [Rows -> Statuses \cup {Untouched}]]
      BY <1>1, <1>5 DEF TypeOK
    <2>2. announced' \in [Requests -> SUBSET Mirrored]
      BY <1>1 DEF TypeOK, CascadeRow, Returning
    <2>3. matched' \in [Requests -> SUBSET Rows]
      BY <1>1 DEF TypeOK, CascadeRow
    <2> QED BY <1>1, <2>1, <2>2, <2>3 DEF TypeOK
  <1>9. Deleted(p)'
    <2>1. ASSUME NEW x \in Rows \ {Tenant}  PROVE draft'[p][x] = Untouched \/ Ended(p, x)'
      <3>1. CASE x = r
        BY <1>1, <1>3, <1>6, <3>1 DEF Ended
      <3>2. CASE x # r
        <4>1. draft[p][x] = Untouched \/ Ended(p, x)
          BY <1>1, <1>2 DEF ProcInv, Deleted
        <4> QED BY <1>1, <1>6, <3>2, <4>1 DEF Ended
      <3> QED BY <3>1, <3>2
    <2>2. Tenant \in Rows
      BY RowSets
    <2> QED BY <1>1, <1>2, <1>3, <1>6, <2>1, <2>2 DEF ProcInv, Deleted
  <1>10. Covers(p)'
    <2>1. new # Untouched
      BY <1>5
    <2>2. found \subseteq Rows
      BY <1>1 DEF TypeOK
    <2> HIDE DEF new
    <2> QED BY <1>1, <1>6, <2>1, <2>2 DEF ProcInv, Covers
  <1>11. ProcInv(p)'
    BY <1>1, <1>2, <1>9, <1>10
       DEF ProcInv, Aimed, Unlocked, Inserted, Exchanged, Written
  <1>12. \A x \in Rows : draft'[p][x] # Untouched => draft[p][x] # Untouched \/ Free(p, x)
    BY <1>1, <1>6
  <1> QED BY <1>1, <1>7, <1>8, <1>11, <1>12, LocalStep

\* The next update matches what is live and not ended yet; what an earlier one
\* has not matched was dead.
LEMMA NextUpdateStep ==
  ASSUME Inv, NEW p \in Requests, NextUpdate(p)
  PROVE  Inv'
  <1> USE DEF history
  <1>1. TypeOK /\ ProcInv(p) /\ matched[p] = {}
        /\ UNCHANGED <<row, expired, draft, operation, target, announced, found, lastCommit>>
    BY DEF Inv, NextUpdate
  <1>2. \/ pc[p] = "users" /\ pc'[p] = "agents" /\ matched'[p] = Matches(p, AgentRows)
        \/ pc[p] = "agents" /\ pc'[p] = "tokens" /\ matched'[p] = Matches(p, TokenRows)
        \/ pc[p] = "tokens" /\ pc'[p] = "commit" /\ matched'[p] = {}
    BY <1>1 DEF NextUpdate, TypeOK
  <1>3. operation[p] = "deleteTenant" /\ target[p] \in Targets(operation[p])
    BY <1>1, <1>2 DEF ProcInv, Aimed, OperationsAt
  <1>4. Alone(p)
    BY <1>1 DEF NextUpdate, Alone, TypeOK
  <1>5. TypeOK'
    <2>1. Matches(p, AgentRows) \subseteq Rows /\ Matches(p, TokenRows) \subseteq Rows
      BY RowSets DEF Matches
    <2>2. /\ matched' = [matched EXCEPT ![p] = matched'[p]]
          /\ matched'[p] \subseteq Rows
      BY <1>1, <1>2, <2>1 DEF NextUpdate, TypeOK
    <2>3. matched' \in [Requests -> SUBSET Rows]
      BY <1>1, <2>2 DEF TypeOK
    <2>4. pc' \in [Requests -> Places]
      BY <1>1 DEF NextUpdate, TypeOK
    <2> QED BY <1>1, <2>3, <2>4 DEF TypeOK
  <1>6. ASSUME NEW r \in Rows, r # Tenant
        PROVE  /\ CascadeHits(Reads(p, r)) => row[r] # "absent"
               /\ draft[p][r] = Untouched => (CascadeHits(Reads(p, r)) <=> Live(row[r]))
    <2>1. draft[p][r] = Untouched \/ Ended(p, r)
      BY <1>1, <1>2, <1>3, <1>6 DEF ProcInv, Deleted
    <2> QED BY <2>1 DEF Reads, CascadeHits, Live, Ended
  <1>7. Deleted(p)'
    <2>1. \A r \in matched'[p] : row[r] # "absent" /\ r # Tenant
      BY <1>2, <1>6, RowSets DEF Matches
    <2> QED BY <1>1, <1>2, <1>3, <2>1 DEF ProcInv, Deleted, Ended
  <1>8. Covers(p)'
    <2> SUFFICES ASSUME row[Tenant] = "active", NEW r \in found \ {Tenant}
                 PROVE  \/ ~Live(row[r]) \/ draft[p][r] # Untouched \/ r \in matched'[p]
                        \/ pc'[p] = "users" /\ r \notin UserRows
                        \/ pc'[p] = "agents" /\ r \in TokenRows
      BY <1>1 DEF Covers
    <2>1. \/ ~Live(row[r]) \/ draft[p][r] # Untouched
          \/ pc[p] = "users" /\ r \notin UserRows
          \/ pc[p] = "agents" /\ r \in TokenRows
      BY <1>1, <1>2, <1>3 DEF ProcInv, Covers
    <2>2. r \in Rows
      BY <1>1 DEF TypeOK
    <2>3. ASSUME Live(row[r]), draft[p][r] = Untouched
          PROVE  /\ r \in AgentRows => r \in Matches(p, AgentRows)
                 /\ r \in TokenRows => r \in Matches(p, TokenRows)
      BY <1>6, <2>2, <2>3 DEF Matches
    <2> QED BY <1>2, <2>1, <2>2, <2>3, RowSets
  <1>9. Aimed(p)'
    BY <1>1, <1>2, <1>3 DEF Aimed, OperationsAt
  <1>10. ProcInv(p)'
    BY <1>1, <1>2, <1>3, <1>7, <1>8, <1>9
       DEF ProcInv, Unlocked, Inserted, Exchanged, Written
  <1> QED BY <1>1, <1>2, <1>4, <1>5, <1>10, LocalStep

LEMMA AbortStep ==
  ASSUME Inv, NEW p \in Requests, Abort(p)
  PROVE  Inv'
  BY FinishStep DEF Abort
\* A token passes its time, and nothing else happens.
LEMMA ExpireStep ==
  ASSUME Inv, NEW t \in TokenRows, Expire(t)
  PROVE  Inv'
  <1> USE DEF history, request
  <1>1. UNCHANGED <<row, draft, pc, operation, target, matched, announced, found, lastCommit>>
        /\ expired' = expired \cup {t}
    BY DEF Expire
  <1>2. TypeOK'
    BY <1>1 DEF Inv, TypeOK
  <1>3. \A p \in Requests : ProcInv(p)'
    BY <1>1 DEF Inv, ProcInv, Aimed, Unlocked, Inserted, Exchanged, Deleted, Ended, Written, Covers
  <1> QED BY <1>1, <1>2, <1>3
       DEF Inv, RowKinds, DraftsApart, NewTokensApart, AgentIffUsed, ChangesAreEnqueued,
           FoundWas, DeleteEndsAllItFound

LEMMA UnchangedStep ==
  ASSUME Inv, UNCHANGED vars
  PROVE  Inv'
  <1> USE DEF history, request, vars
  <1>1. TypeOK'
    BY DEF Inv, TypeOK
  <1>2. \A p \in Requests : ProcInv(p)'
    BY DEF Inv, ProcInv, Aimed, Unlocked, Inserted, Exchanged, Deleted, Ended, Written, Covers
  <1> QED BY <1>1, <1>2
       DEF Inv, RowKinds, DraftsApart, NewTokensApart, AgentIffUsed, ChangesAreEnqueued,
           FoundWas, DeleteEndsAllItFound

\* No transaction holds a row that is not there yet, but for the one that
\* creates it: the insert of this row, or the exchange of the agent's token.
LEMMA AbsentRowIsFree ==
  ASSUME Inv, NEW q \in Requests, NEW t \in TokenRows, row[t] = "absent"
  PROVE  draft[q][t] = Untouched
  <1>1. ProcInv(q) /\ t \in Rows /\ t # Tenant
    BY RowSets DEF Inv
  <1> SUFFICES ASSUME draft[q][t] # Untouched  PROVE FALSE
    OBVIOUS
  <1>2. pc[q] \in InTransaction
    BY <1>1 DEF ProcInv, Unlocked
  <1>3. operation[q] \in {"createTenant", "createUser", "exchange", "deleteTenant"}
        /\ target[q] \in Targets(operation[q])
    BY <1>1, <1>2 DEF ProcInv, Aimed, OperationsAt
  <1>4. CASE operation[q] \in {"createTenant", "createUser"}
    <2>1. target[q] # t
      BY <1>3, <1>4, RowSets, TargetKinds
    <2> QED BY <1>1, <1>2, <1>4, <2>1 DEF ProcInv, Inserted
  <1>5. CASE operation[q] = "exchange"
    <2>1. target[q] # t /\ t # AgentOf(target[q])
      BY <1>1, <1>2, <1>3, <1>5, TargetKinds, RowSets, AgentsOfTokens DEF ProcInv, Exchanged
    <2> QED BY <1>1, <1>2, <1>5, <2>1 DEF ProcInv, Exchanged
  <1>6. CASE operation[q] = "deleteTenant"
    BY <1>1, <1>2, <1>6 DEF ProcInv, Deleted, Ended
  <1> QED BY <1>3, <1>4, <1>5, <1>6

LEMMA InsertEnrollmentStep ==
  ASSUME Inv, NEW p \in Requests, InsertEnrollment(p)
  PROVE  Inv' /\ \A r \in Rows : Evolves(r)
  <1> USE DEF history
  <1> DEFINE t == target[p]
  <1>1. TypeOK /\ ProcInv(p) /\ pc[p] = "writing" /\ operation[p] = "createEnrollment"
        /\ UNCHANGED <<expired, operation, target, matched, announced, found>>
    BY DEF Inv, InsertEnrollment, Finish
  <1>2. t \in TokenRows /\ t \in Rows /\ row[t] = "absent" /\ t # Tenant
    BY <1>1, TargetKinds, RowSets DEF ProcInv, Aimed, Written
  <1>3. /\ row'[t] = "open"
        /\ \A r \in Rows \ {t} : row'[r] = row[r]
        /\ lastCommit'.changed \subseteq {t} /\ lastCommit'.enqueued = {}
    BY <1>1, <1>2 DEF InsertEnrollment, CommitWith, TypeOK
  <1>4. Alone(p) /\ pc'[p] = "end" /\ \A r \in Rows : draft'[p][r] = Untouched
    BY <1>1 DEF InsertEnrollment, CommitWith, DropDraft, Finish, Alone, TypeOK
  <1>5. TypeOK'
    <2>1. row' \in [Rows -> Statuses]
      BY <1>1, <1>2 DEF InsertEnrollment, CommitWith, TypeOK
    <2>2. draft' \in [Requests -> [Rows -> Statuses \cup {Untouched}]] /\ pc' \in [Requests -> Places]
      BY <1>1 DEF InsertEnrollment, CommitWith, DropDraft, Finish, TypeOK
    <2>3. lastCommit' \in [changed : SUBSET Rows, enqueued : SUBSET Mirrored]
      BY DEF InsertEnrollment, CommitWith
    <2> QED BY <1>1, <2>1, <2>2, <2>3 DEF TypeOK
  <1>6. RowKinds'
    BY <1>2, <1>3, KindStatuses DEF Inv, RowKinds
  <1>7. AgentIffUsed'
    <2>1. \A x \in TokenRows : AgentOf(x) \in Rows /\ AgentOf(x) # t /\ x \in Rows
      BY <1>2, AgentsOfTokens, RowSets
    <2>2. \A x \in TokenRows : row[x] = "used" <=> row[AgentOf(x)] # "absent"
      BY AgentIffUsedRows DEF Inv
    <2>3. \A x \in TokenRows : row'[x] = "used" <=> row'[AgentOf(x)] # "absent"
      BY <1>2, <1>3, <2>1, <2>2
    <2> QED BY <2>3, AgentIffUsedRows
  <1>8. ChangesAreEnqueued'
    BY <1>2, <1>3, RowSets DEF ChangesAreEnqueued
  <1>9. \A r \in Rows : Evolves(r)
    BY <1>2, <1>3 DEF Evolves
  <1>10. ASSUME NEW r \in Rows, row'[r] # row[r], NEW q \in Requests \ {p}
         PROVE  /\ draft[q][r] = Untouched
                /\ pc[q] = "writing" /\ operation[q] = "createEnrollment" => target[q] # r
    <2>1. r = t
      BY <1>3, <1>10
    <2> QED BY <1>1, <1>2, <2>1, AbsentRowIsFree DEF Inv, NewTokensApart
  <1>11. row'[Tenant] = row[Tenant]
    BY <1>2, <1>3, RowSets
  <1> QED BY <1>1, <1>4, <1>5, <1>6, <1>7, <1>8, <1>9, <1>10, <1>11, CommitStep
\* An update of one row keeps to its kind: it ends what is live, or turns a
\* live agent into another, and leaves alone what is dead.
LEMMA UpdatedRow ==
  ASSUME Inv, NEW p \in Requests, pc[p] = "writing",
         operation[p] \notin {"createTenant", "createUser", "createEnrollment"}
  PROVE  LET t == target[p]
             new == Updated(operation[p], row[t])
         IN  /\ t \in Rows \ {Tenant} /\ row[t] # "absent"
             /\ new \in StatusesOf(t) /\ new # "absent" /\ new \in Statuses
             /\ new = row[t] \/ Live(row[t])
             /\ t \in TokenRows => (new = "used" <=> row[t] = "used")
  <1> DEFINE t == target[p]
  <1>1. TypeOK /\ RowKinds /\ ProcInv(p)
    BY DEF Inv
  <1>2. operation[p] \in {"updateUser", "deleteUser", "enableAgent", "disableAgent",
                          "deleteAgent", "revokeEnrollment"}
        /\ t \in Targets(operation[p]) /\ row[t] # "absent"
    BY <1>1 DEF ProcInv, Aimed, OperationsAt, Written, AllOperations
  <1>3. CASE operation[p] \in {"updateUser", "deleteUser"}
    <2>1. t \in UserRows /\ t \in Rows \ {Tenant} /\ t \notin TokenRows
      BY <1>2, <1>3, TargetKinds, RowSets
    <2>2. row[t] \in {"active", "deleted"}
      BY <1>1, <1>2, <2>1, KindStatuses DEF RowKinds
    <2> QED BY <1>2, <1>3, <2>1, <2>2, KindStatuses DEF Updated, MarkDeleted, Live
  <1>4. CASE operation[p] \in {"enableAgent", "disableAgent", "deleteAgent"}
    <2>1. t \in AgentRows /\ t \in Rows \ {Tenant} /\ t \notin TokenRows
      BY <1>2, <1>4, TargetKinds, RowSets
    <2>2. row[t] \in {"active", "disabled", "revoked"}
      BY <1>1, <1>2, <2>1, KindStatuses DEF RowKinds
    <2> QED BY <1>2, <1>4, <2>1, <2>2, KindStatuses DEF Updated, SetStatus, MarkRevoked, Live
  <1>5. CASE operation[p] = "revokeEnrollment"
    <2>1. t \in TokenRows /\ t \in Rows \ {Tenant}
      BY <1>2, <1>5, TargetKinds, RowSets
    <2>2. row[t] \in {"open", "used", "revoked"}
      BY <1>1, <1>2, <2>1, KindStatuses DEF RowKinds
    <2> QED BY <1>2, <1>5, <2>1, <2>2, KindStatuses DEF Updated, RevokeOpen, Live
  <1> QED BY <1>2, <1>3, <1>4, <1>5

LEMMA UpdateOneStep ==
  ASSUME Inv, NEW p \in Requests, UpdateOne(p)
  PROVE  Inv' /\ \A r \in Rows : Evolves(r)
  <1> USE DEF history
  <1> DEFINE t == target[p]
             new == Updated(operation[p], row[t])
  <1>1. TypeOK /\ ProcInv(p) /\ pc[p] = "writing" /\ Free(p, t)
        /\ operation[p] \notin {"createTenant", "createUser", "createEnrollment", "deleteTenant"}
        /\ UNCHANGED <<expired, operation, target, matched, announced, found>>
    BY DEF Inv, UpdateOne, Finish, ProcInv, Aimed, OperationsAt
  <1>2. /\ t \in Rows \ {Tenant} /\ row[t] # "absent"
        /\ new \in StatusesOf(t) /\ new # "absent" /\ new \in Statuses
        /\ new = row[t] \/ Live(row[t])
        /\ t \in TokenRows => (new = "used" <=> row[t] = "used")
    BY <1>1, UpdatedRow
  <1>3. row' = [r \in Rows |-> IF r = t THEN new ELSE row[r]]
    BY <1>1, <1>2 DEF UpdateOne, CommitWith, TypeOK
  <1>4. /\ lastCommit'.changed \subseteq {t} /\ lastCommit'.enqueued = {t} \cap Mirrored
        /\ lastCommit' \in [changed : SUBSET Rows, enqueued : SUBSET Mirrored]
    BY <1>1, <1>2 DEF UpdateOne, CommitWith, TypeOK
  <1> HIDE DEF new
  <1>5. Alone(p) /\ pc'[p] = "end" /\ \A r \in Rows : draft'[p][r] = Untouched
    BY <1>1 DEF UpdateOne, CommitWith, DropDraft, Finish, Alone, TypeOK
  <1>6. TypeOK'
    <2>1. row' \in [Rows -> Statuses]
      BY <1>1, <1>2, <1>3 DEF TypeOK
    <2>2. draft' \in [Requests -> [Rows -> Statuses \cup {Untouched}]] /\ pc' \in [Requests -> Places]
      BY <1>1 DEF UpdateOne, CommitWith, DropDraft, Finish, TypeOK
    <2> QED BY <1>1, <1>4, <2>1, <2>2 DEF TypeOK
  <1>7. RowKinds'
    BY <1>2, <1>3 DEF Inv, RowKinds
  <1>8. AgentIffUsed'
    <2>1. \A x \in TokenRows : AgentOf(x) \in Rows /\ AgentOf(x) \notin TokenRows /\ x \in Rows
      BY AgentsOfTokens, RowSets
    <2>2. \A x \in TokenRows : row[x] = "used" <=> row[AgentOf(x)] # "absent"
      BY AgentIffUsedRows DEF Inv
    <2>3. \A x \in TokenRows : row'[x] = "used" <=> row'[AgentOf(x)] # "absent"
      BY <1>2, <1>3, <2>1, <2>2
    <2> QED BY <2>3, AgentIffUsedRows
  <1>9. ChangesAreEnqueued'
    BY <1>4 DEF ChangesAreEnqueued
  <1>10. \A r \in Rows : Evolves(r)
    BY <1>2, <1>3 DEF Evolves
  <1>11. ASSUME NEW r \in Rows, row'[r] # row[r], NEW q \in Requests \ {p}
         PROVE  /\ draft[q][r] = Untouched
                /\ pc[q] = "writing" /\ operation[q] = "createEnrollment" => target[q] # r
    <2>1. r = t
      BY <1>3, <1>11
    <2> QED BY <1>1, <1>2, <2>1 DEF Inv, ProcInv, Written, Free
  <1>12. row'[Tenant] = row[Tenant]
    BY <1>2, <1>3, RowSets
  <1> QED BY <1>1, <1>5, <1>6, <1>7, <1>8, <1>9, <1>10, <1>11, <1>12, CommitStep

\* What a transaction that commits has written, kind by kind.
LEMMA CommittedRow ==
  ASSUME Inv, NEW p \in Requests, pc[p] = "commit", NEW r \in Rows, draft[p][r] # Untouched
  PROVE  /\ draft[p][r] \in StatusesOf(r) /\ draft[p][r] # "absent"
         /\ \/ draft[p][r] = row[r]
            \/ r \in Mirrored /\ row[r] = "absent" /\ r \in announced[p]
            \/ Live(row[r]) /\ {r} \cap Mirrored \subseteq announced[p]
         /\ row[r] = "absent" \/ draft[p][r] = row[r] \/ draft[p][r] = "used"
              \/ operation[p] = "deleteTenant"
  <1> DEFINE t == target[p]
  <1>1. TypeOK /\ RowKinds /\ ProcInv(p) /\ row[r] \in StatusesOf(r) /\ Tenant \in Rows
    BY RowSets DEF Inv, RowKinds
  <1>2. operation[p] \in {"createTenant", "createUser", "exchange", "deleteTenant"}
        /\ t \in Targets(operation[p])
    BY <1>1 DEF ProcInv, Aimed, OperationsAt
  <1>3. CASE operation[p] \in {"createTenant", "createUser"}
    <2>1. r = t /\ draft[p][r] = "active" /\ row[r] = "absent" /\ announced[p] = {r}
      BY <1>1, <1>3 DEF ProcInv, Inserted
    <2>2. t \in UserRows \cup {Tenant} /\ t \in Mirrored
      BY <1>2, <1>3, TargetKinds, RowSets
    <2> QED BY <2>1, <2>2, KindStatuses
  <1>4. CASE operation[p] = "exchange"
    <2>1. t \in TokenRows /\ AgentOf(t) \in AgentRows
      BY <1>2, <1>4, TargetKinds, AgentsOfTokens
    <2>2. t \in Rows /\ AgentOf(t) \in Mirrored /\ t \notin Mirrored
      BY <2>1, RowSets
    <2>3. /\ row[t] = "open" /\ draft[p][t] = "used" /\ draft[p][AgentOf(t)] = "active"
          /\ announced[p] = {AgentOf(t)}
          /\ r = t \/ r = AgentOf(t)
      BY <1>1, <1>4 DEF ProcInv, Exchanged
    <2>4. row[AgentOf(t)] = "absent"
      BY <2>1, <2>3, AgentIffUsedRows DEF Inv
    <2> QED BY <2>1, <2>2, <2>3, <2>4, KindStatuses DEF Live
  <1>5. CASE operation[p] = "deleteTenant"
    <2>1. CASE r = Tenant
      <3>1. draft[p][r] = "deleted" /\ Tenant \in announced[p] /\ row[r] \in {"active", "deleted"}
        BY <1>1, <1>5, <2>1, KindStatuses DEF ProcInv, Deleted
      <3> QED BY <1>5, <2>1, <3>1, KindStatuses DEF Live
    <2>2. CASE r # Tenant
      <3>1. Ended(p, r)
        BY <1>1, <1>5, <2>2 DEF ProcInv, Deleted
      <3>2. CascadeSets(r) \in StatusesOf(r) /\ CascadeSets(r) # "absent"
        BY <2>2, RowSets, KindStatuses
      <3> QED BY <1>1, <1>5, <3>1, <3>2 DEF Ended, CascadeHits, Live
    <2> QED BY <2>1, <2>2
  <1> QED BY <1>2, <1>3, <1>4, <1>5
LEMMA CommitTransactionStep ==
  ASSUME Inv, NEW p \in Requests, Commit(p)
  PROVE  Inv' /\ \A r \in Rows : Evolves(r)
  <1> USE DEF history
  <1> DEFINE t == target[p]
  <1>1. TypeOK /\ RowKinds /\ ProcInv(p) /\ pc[p] = "commit" /\ Tenant \in Rows
        /\ UNCHANGED <<expired, operation, target, matched, announced, found>>
    BY RowSets DEF Inv, Commit, Finish
  <1>2. operation[p] \in {"createTenant", "createUser", "exchange", "deleteTenant"}
        /\ t \in Targets(operation[p])
    BY <1>1 DEF ProcInv, Aimed, OperationsAt
  <1>3. \A r \in Rows : row'[r] = IF draft[p][r] = Untouched THEN row[r] ELSE draft[p][r]
    BY DEF Commit, CommitWith, Reads
  <1>4. /\ lastCommit'.changed = {r \in Rows : row'[r] # row[r]}
        /\ lastCommit'.enqueued = announced[p]
        /\ lastCommit' \in [changed : SUBSET Rows, enqueued : SUBSET Mirrored]
    BY <1>1 DEF Commit, CommitWith, TypeOK
  <1>5. Alone(p) /\ pc'[p] = "end" /\ \A r \in Rows : draft'[p][r] = Untouched
    BY <1>1 DEF Commit, CommitWith, DropDraft, Finish, Alone, TypeOK
  <1>6. ASSUME NEW r \in Rows
        PROVE  /\ row'[r] \in StatusesOf(r) /\ Evolves(r)
               /\ row'[r] # row[r] => draft[p][r] # Untouched /\ {r} \cap Mirrored \subseteq announced[p]
    <2>1. CASE draft[p][r] = Untouched
      BY <1>1, <1>3, <2>1 DEF RowKinds, Evolves
    <2>2. CASE draft[p][r] # Untouched
      BY <1>1, <1>3, <2>2, CommittedRow DEF Evolves
    <2> QED BY <2>1, <2>2
  <1>7. RowKinds'
    BY <1>6 DEF RowKinds
  <1>8. TypeOK'
    <2>1. \A r \in Rows : Reads(p, r) \in Statuses
      BY <1>1 DEF TypeOK, Reads
    <2>2. row' \in [Rows -> Statuses]
      BY <2>1 DEF Commit, CommitWith
    <2>3. draft' \in [Requests -> [Rows -> Statuses \cup {Untouched}]] /\ pc' \in [Requests -> Places]
      BY <1>1 DEF Commit, CommitWith, DropDraft, Finish, TypeOK
    <2> QED BY <1>1, <1>4, <2>2, <2>3 DEF TypeOK
  <1>9. AgentIffUsed'
    <2> SUFFICES ASSUME NEW x \in TokenRows
                 PROVE  row'[x] = "used" <=> row'[AgentOf(x)] # "absent"
      BY AgentIffUsedRows
    <2>1. x \in Rows /\ AgentOf(x) \in Rows /\ AgentOf(x) \in AgentRows
          /\ x # Tenant /\ AgentOf(x) # Tenant
      BY AgentsOfTokens, RowSets
    <2>2. row[x] = "used" <=> row[AgentOf(x)] # "absent"
      BY AgentIffUsedRows DEF Inv
    <2>3. CASE operation[p] \in {"createTenant", "createUser"}
      <3>1. t # x /\ t # AgentOf(x)
        BY <1>2, <2>1, <2>3, TargetKinds, RowSets
      <3>2. draft[p][x] = Untouched /\ draft[p][AgentOf(x)] = Untouched
        BY <1>1, <2>1, <2>3, <3>1 DEF ProcInv, Inserted
      <3> QED BY <1>3, <2>1, <2>2, <3>2
    <2>4. CASE operation[p] = "exchange"
      <3>1. t \in TokenRows
        BY <1>2, <2>4, TargetKinds
      <3>2. CASE x = t
        BY <1>1, <1>3, <2>1, <2>4, <3>2 DEF ProcInv, Exchanged
      <3>3. CASE x # t
        <4>1. AgentOf(x) # t /\ AgentOf(x) # AgentOf(t) /\ x # AgentOf(t)
          BY <2>1, <3>1, <3>3, AgentsOfTokens, RowSets
        <4>2. draft[p][x] = Untouched /\ draft[p][AgentOf(x)] = Untouched
          BY <1>1, <2>1, <2>4, <3>3, <4>1 DEF ProcInv, Exchanged
        <4> QED BY <1>3, <2>1, <2>2, <4>2
      <3> QED BY <3>2, <3>3
    <2>5. CASE operation[p] = "deleteTenant"
      <3>1. /\ draft[p][x] = Untouched \/ Ended(p, x)
            /\ draft[p][AgentOf(x)] = Untouched \/ Ended(p, AgentOf(x))
        BY <1>1, <2>1, <2>5 DEF ProcInv, Deleted
      <3>2. row'[AgentOf(x)] = "absent" <=> row[AgentOf(x)] = "absent"
        BY <1>3, <2>1, <3>1, KindStatuses DEF Ended
      <3>3. row'[x] = "used" <=> row[x] = "used"
        BY <1>3, <2>1, <3>1, KindStatuses DEF Ended, CascadeHits
      <3> QED BY <2>2, <3>2, <3>3
    <2> QED BY <1>2, <2>3, <2>4, <2>5
  <1>10. ChangesAreEnqueued'
    BY <1>4, <1>6 DEF ChangesAreEnqueued
  <1>11. ASSUME NEW r \in Rows, row'[r] # row[r], NEW q \in Requests \ {p}
         PROVE  /\ draft[q][r] = Untouched
                /\ pc[q] = "writing" /\ operation[q] = "createEnrollment" => target[q] # r
    <2>1. draft[p][r] # Untouched
      BY <1>6, <1>11
    <2>2. draft[q][r] = Untouched
      BY <1>11, <2>1 DEF Inv, DraftsApart
    <2>3. ASSUME pc[q] = "writing", operation[q] = "createEnrollment"  PROVE target[q] # r
      <3>1. target[q] \in TokenRows /\ row[target[q]] = "absent"
        BY <2>3, TargetKinds DEF Inv, ProcInv, Aimed, Written
      <3> QED BY <2>1, <3>1, AbsentRowIsFree
    <2> QED BY <2>2, <2>3
  <1>12. ASSUME row'[Tenant] = "deleted", row[Tenant] # "deleted", NEW r \in found
         PROVE  ~Live(row'[r])
    <2>1. draft[p][Tenant] = "deleted"
      BY <1>1, <1>3, <1>12
    <2>2. operation[p] = "deleteTenant"
      <3>1. CASE operation[p] \in {"createTenant", "createUser"}
        BY <1>1, <2>1, <3>1 DEF ProcInv, Inserted
      <3>2. CASE operation[p] = "exchange"
        <4>1. t # Tenant /\ AgentOf(t) # Tenant
          BY <1>2, <3>2, TargetKinds, AgentsOfTokens, RowSets
        <4> QED BY <1>1, <2>1, <3>2, <4>1 DEF ProcInv, Exchanged
      <3> QED BY <1>2, <3>1, <3>2
    <2>3. row[Tenant] = "active"
      BY <1>1, <1>12, <2>2, KindStatuses DEF ProcInv, Deleted, RowKinds
    <2>4. r \in Rows
      BY <1>1 DEF TypeOK
    <2>5. CASE r = Tenant
      BY <1>12, <2>5 DEF Live
    <2>6. CASE r # Tenant
      <3>1. ~Live(row[r]) \/ draft[p][r] # Untouched
        BY <1>1, <2>2, <2>3, <2>6 DEF ProcInv, Covers, Deleted
      <3>2. CASE draft[p][r] = Untouched
        BY <1>3, <2>4, <3>1, <3>2
      <3>3. CASE draft[p][r] # Untouched
        <4>1. Ended(p, r)
          BY <1>1, <2>2, <2>4, <2>6, <3>3 DEF ProcInv, Deleted
        <4> QED BY <1>3, <2>4, <3>3, <4>1 DEF Ended, CascadeHits, CascadeSets, Live
      <3> QED BY <3>2, <3>3
    <2> QED BY <2>5, <2>6
  <1>13. operation[p] = "deleteTenant" => row[Tenant] # "absent"
    BY <1>1 DEF ProcInv, Deleted
  <1>14. \A r \in Rows : Evolves(r)
    BY <1>6
  <1> QED BY <1>1, <1>5, <1>7, <1>8, <1>9, <1>10, <1>11, <1>12, <1>13, <1>14, CommitStep

-----------------------------------------------------------------------------
(* The theorems                                                            *)

LEMMA InitInv == Init => Inv
  <1> SUFFICES ASSUME Init  PROVE Inv
    OBVIOUS
  <1>1. Tenant \in Rows
    BY RowSets
  <1>2. TypeOK
    BY <1>1 DEF Init, TypeOK, AllOperations
  <1>3. RowKinds /\ AgentIffUsed
    BY DEF Init, Settled, RowKinds, AgentIffUsed
  <1>4. \A p \in Requests : ProcInv(p)
    BY DEF Init, ProcInv, Aimed, OperationsAt, AllOperations, Unlocked, Inserted,
           Exchanged, Deleted, Written, Covers
  <1> QED BY <1>2, <1>3, <1>4
       DEF Init, Inv, DraftsApart, NewTokensApart, ChangesAreEnqueued, FoundWas,
           DeleteEndsAllItFound

LEMMA NextInv ==
  Inv /\ [Next]_vars => Inv' /\ \A r \in Rows : Evolves(r)
  <1> SUFFICES ASSUME Inv, [Next]_vars  PROVE Inv' /\ \A r \in Rows : Evolves(r)
    OBVIOUS
  <1>1. CASE UNCHANGED vars
    <2>1. UNCHANGED row
      BY <1>1 DEF vars
    <2> QED BY <1>1, <2>1, UnchangedStep DEF Evolves
  <1>2. ASSUME NEW t \in TokenRows, Expire(t)  PROVE Inv' /\ \A r \in Rows : Evolves(r)
    <2>1. UNCHANGED row
      BY <1>2 DEF Expire
    <2> QED BY <1>2, <2>1, ExpireStep DEF Evolves
  <1>3. ASSUME NEW p \in Requests, NEW o \in Operations, NEW r \in Targets(o), Receive(p, o, r)
        PROVE  Inv' /\ \A x \in Rows : Evolves(x)
    <2>1. UNCHANGED row
      BY <1>3 DEF Receive
    <2> QED BY <1>3, <2>1, ReceiveStep DEF Evolves
  <1>4. ASSUME NEW p \in Requests, Serve(p)  PROVE Inv' /\ \A r \in Rows : Evolves(r)
    <2>1. CASE Load(p)
      BY <2>1, LoadStep DEF Load, Evolves
    <2>2. CASE UpdateOne(p)
      BY <2>2, UpdateOneStep
    <2>3. CASE InsertEnrollment(p)
      BY <2>3, InsertEnrollmentStep
    <2>4. CASE InsertRow(p)
      BY <2>4, InsertRowStep DEF InsertRow, Evolves
    <2>5. CASE KeycloakAnswers(p)
      BY <2>5, KeycloakStep DEF KeycloakAnswers, Evolves
    <2>6. CASE Commit(p)
      BY <2>6, CommitTransactionStep
    <2>7. CASE LockToken(p)
      BY <2>7, LockTokenStep DEF LockToken, Evolves
    <2>8. CASE ReadTenant(p)
      BY <2>8, ReadTenantStep DEF ReadTenant, Evolves
    <2>9. CASE Issue(p)
      BY <2>9, IssueStep DEF Issue, Evolves
    <2>10. CASE DeleteTenant(p)
      BY <2>10, DeleteTenantStep DEF DeleteTenant, Evolves
    <2>11. CASE \E r \in Rows : CascadeRow(p, r)
      BY <2>11, CascadeRowStep DEF CascadeRow, Evolves
    <2>12. CASE NextUpdate(p)
      BY <2>12, NextUpdateStep DEF NextUpdate, Evolves
    <2> QED BY <1>4, <2>1, <2>2, <2>3, <2>4, <2>5, <2>6, <2>7, <2>8, <2>9, <2>10, <2>11, <2>12
         DEF Serve
  <1>5. ASSUME NEW p \in Requests, Abort(p)  PROVE Inv' /\ \A r \in Rows : Evolves(r)
    BY <1>5, AbortStep DEF Abort, Evolves
  <1> QED BY <1>1, <1>2, <1>3, <1>4, <1>5 DEF Next

LEMMA InvHolds == Spec => []Inv
  BY InitInv, NextInv, PTL DEF Spec

\* Every variable keeps its type: statuses are those of the schema, and a
\* transaction locks and enqueues rows of this tenant only.
THEOREM TypeCorrect == Spec => []TypeOK
  <1>1. Inv => TypeOK
    BY DEF Inv
  <1> QED BY <1>1, InvHolds, PTL

\* An agent is there exactly if its enrollment token is used, however
\* exchanges race with deletes and with each other and whatever fails
\* (enrollments.service.ts, exchangeIn: one transaction that locks the token).
THEOREM AgentComesWithItsToken == Spec => []AgentIffUsed
  <1>1. Inv => AgentIffUsed
    BY DEF Inv
  <1> QED BY <1>1, InvHolds, PTL

\* No commit changes a tenant, a user or an agent without the outbox entry of
\* that row: also the rows a cascading delete found changed when it got to
\* them (tenants.service.ts, delete; outbox.repository.ts).
THEOREM ChangesAreAnnounced == Spec => []ChangesAreEnqueued
  <1>1. Inv => ChangesAreEnqueued
    BY DEF Inv
  <1> QED BY <1>1, InvHolds, PTL

\* A deleted tenant has ended whatever was live when the delete began, in any
\* order of the requests that change the same rows meanwhile
\* (tenants.service.ts, delete).
THEOREM DeleteIsThorough == Spec => []DeleteEndsAllItFound
  <1>1. Inv => DeleteEndsAllItFound
    BY DEF Inv
  <1> QED BY <1>1, InvHolds, PTL

\* What is deleted or revoked stays so, also under a request that read the row
\* while it was live and writes it afterwards (agents.repository.ts, setStatus
\* and markRevoked; enrollments.repository.ts, markUsed).
THEOREM EndStaysFinal == Spec => EndIsFinal
  <1>1. Inv /\ [Next]_vars =>
          \A r \in Rows : row[r] \in {"deleted", "revoked"} => row'[r] = row[r]
    BY NextInv DEF Evolves, Live
  <1>2. Inv /\ [Next]_vars =>
          [\A r \in Rows : row[r] \in {"deleted", "revoked"} => row'[r] = row[r]]_vars
    BY <1>1
  <1> QED BY <1>2, InvHolds, PTL DEF Spec, EndIsFinal

-----------------------------------------------------------------------------
(* Waits                                                                   *)

\* Who is waited for has an open transaction, and if it waits itself, it is a
\* delete that holds the tenant.
LEMMA HoldersAreServed ==
  ASSUME Inv, NEW p \in Requests, NEW q \in Requests, WaitsFor(p, q)
  PROVE  /\ pc[q] \in InTransaction
         /\ Needs(q) # {} => draft[q][Tenant] # Untouched
  <1>1. TypeOK /\ Aimed(q) /\ Unlocked(q) /\ Deleted(q) /\ Tenant \in Rows
    BY RowSets DEF Inv, ProcInv
  <1>2. PICK r \in Needs(p) : draft[q][r] # Untouched
    BY DEF WaitsFor
  <1>3. Needs(p) \subseteq Rows
    BY <1>1 DEF Needs, TypeOK
  <1>4. pc[q] \in InTransaction
    BY <1>1, <1>2, <1>3 DEF Unlocked
  <1>5. ASSUME Needs(q) # {}
        PROVE  pc[q] \in {"users", "agents", "tokens"}
    BY <1>4, <1>5 DEF Needs
  <1>6. ASSUME Needs(q) # {}
        PROVE  draft[q][Tenant] # Untouched
    <2>1. operation[q] = "deleteTenant"
      BY <1>1, <1>5, <1>6 DEF Aimed, OperationsAt
    <2> QED BY <1>1, <1>4, <2>1 DEF Deleted
  <1> QED BY <1>4, <1>6

\* Whoever waits for a row waits for a request that goes on, or for a delete that
\* waits only for such: only a delete holds rows while it waits for others, and
\* the tenant's row keeps two deletes apart (tenants.service.ts, delete;
\* enrollments.service.ts, exchangeIn).  No transactions wait in a circle.
THEOREM WaitsAlwaysEnd == Spec => []WaitsEnd
  <1>1. ASSUME Inv PROVE WaitsEnd
    <2> SUFFICES ASSUME NEW p \in Requests, NEW q \in Requests, WaitsFor(p, q),
                        NEW s \in Requests, WaitsFor(q, s)
                 PROVE  GoesOn(s)
      BY <1>1, HoldersAreServed DEF WaitsEnd, Served
    <2>1. pc[s] \in InTransaction
      BY <1>1, HoldersAreServed
    <2>2. draft[q][Tenant] # Untouched
      BY <1>1, HoldersAreServed DEF WaitsFor
    <2>3. s # q /\ Tenant \in Rows
      BY RowSets DEF WaitsFor
    <2>4. Needs(s) = {}
      BY <1>1, <2>2, <2>3, HoldersAreServed DEF Inv, DraftsApart
    <2>5. Served(s)
      BY <2>1 DEF Served
    <2> QED BY <2>4, <2>5 DEF GoesOn, WaitsFor
  <1> QED BY <1>1, InvHolds, PTL
=============================================================================
