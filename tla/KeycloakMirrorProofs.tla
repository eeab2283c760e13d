------------------------- MODULE KeycloakMirrorProofs -------------------------
(***************************************************************************)
(* Theorems about the mirrors of tenants and users in Keycloak: no handler *)
(* and no garbage collector takes the group or the account of a live row,  *)
(* and none leaves one open for a row that ended, for any number of rows,  *)
(* replicas, collectors, changes and failures.                             *)
(***************************************************************************)
EXTENDS KeycloakMirror, FiniteSetTheorems, TLAPS

-----------------------------------------------------------------------------
(* The inductive invariant                                                 *)

\* TypeOK in three parts.
RowsTyped ==
  /\ status \in [Rows -> Status] /\ pointer \in [Rows -> Ids \cup {None}] /\ queued \subseteq Rows
ObjectsTyped ==
  /\ object \in [Ids -> Objects \cup {NoObject}] /\ member \subseteq Ids \X Ids /\ top \in Ids \cup {0}
TasksTyped == task \in [Rows -> Task]
CollectorsTyped == gc \in [Collectors -> Collector]
BoundsTyped == changes \in 0..MaxChanges /\ fails \in 0..MaxFails

Typed == RowsTyped /\ ObjectsTyped /\ TasksTyped /\ CollectorsTyped

\* A row has been inserted or its insert was rolled back.
Known(r) == status[r] # "absent"
InlineNow(r) == task[r].inline

\* It will not be live again.
Over(r) == status[r] \in {"gone", "deleted"}

\* What there is of o belongs to a row with the name of r, now and later.
Of(o, r) == o <= top /\ (Exists(o) => NameOf[Marker(o)] = NameOf[r])

\* An object was made for a row that is known or being inserted.
ObjectOf(o) ==
  Exists(o) => o <= top /\ Marker(o) \in Rows /\ (Known(Marker(o)) \/ InlineNow(Marker(o)))

\* A handler runs inline before its row is there, or for a row that is there,
RowOf(r) ==
  /\ InlineNow(r) => status[r] = "absent" /\ task[r].row = "active"
  /\ task[r].at # "idle" /\ ~InlineNow(r) => status[r] \notin {"absent", "gone"}
  /\ r \in queued \/ pointer[r] # None => status[r] \notin {"absent", "gone"}
  /\ task[r].at = "commit" => InlineNow(r)
  /\ task[r].row = "deleted" => status[r] = "deleted"

\* has read the group of a user it is to write,
Writing == {"owner", "create", "update", "adopt", "assertMarker", "groups", "leave", "join"}
HasGroup(r) ==
  /\ task[r].at \in {"groups", "leave", "join"} => r \in Users
  /\ task[r].at \in Writing => task[r].row # "deleted"
  /\ r \in Users /\ task[r].row # "deleted" /\ task[r].at \in Writing \cup {"stored", "byName"} =>
       task[r].group # None

\* and works on an object of the name of its row.
WorksOn(r) ==
  /\ HasGroup(r)
  /\ task[r].at \in {"owner", "update", "adopt", "assertMarker", "groups", "leave", "join", "roles",
                     "store", "commit", "delete"} => task[r].id # None
  /\ task[r].at \in {"delete", "clear"} => task[r].row = "deleted"
  /\ task[r].id # None => Of(task[r].id, r)

\* One row at a time has a name.
NamesApart ==
  \A q, r \in Rows :
    NameOf[q] = NameOf[r] /\ (Live(q) \/ InlineNow(q)) /\ (Live(r) \/ InlineNow(r)) => q = r

\* If o is there, then for a row that is over.
Forfeited(o) == o <= top /\ (Exists(o) => \E r \in Rows : Of(o, r) /\ Over(r))

\* What a collector has listed, seen and is to remove.  It has seen an object
\* of a row that was known, or open; what it removes is of a row that is over.
Collects(c) ==
  /\ gc[c].at \in {"list", "judge"} => gc[c].open = {}
  /\ \A r \in gc[c].open : Known(r) \/ InlineNow(r)
  /\ \A e \in gc[c].listed : Of(e[1], e[2]) /\ (Known(e[2]) \/ InlineNow(e[2]))
  /\ \A o \in gc[c].seen : \E r \in Rows : Of(o, r) /\ (Known(r) \/ r \in gc[c].open)
  /\ \A o \in gc[c].remove : Forfeited(o)

Inv ==
  /\ Typed
  /\ \A o \in Ids : ObjectOf(o)
  /\ \A r \in Rows : RowOf(r) /\ WorksOn(r)
  /\ NamesApart
  /\ \A c \in Collectors : Collects(c)
-----------------------------------------------------------------------------
(* What a step may do to rows and objects, and what rests under it         *)

LEMMA TypeParts == TypeOK <=> Typed /\ BoundsTyped
  BY DEF TypeOK, Typed, RowsTyped, ObjectsTyped, TasksTyped, CollectorsTyped, BoundsTyped

LEMMA Facts ==
  /\ \A o \in Ids \cup {0} : o \in Nat
  /\ None = 0 /\ None \notin Ids /\ "none" \notin Rows
  /\ \A u \in Users : u \in Rows /\ TenantOf[u] \in Rows
  /\ \A t \in Tenants : t \in Rows /\ t \notin Users
  BY KeycloakAssumption DEF None, Rows

\* An object is there as long as its marker is a row.
LEMMA Existing ==
  ASSUME ObjectsTyped, NEW o \in Ids
  PROVE  /\ object[o] \in Objects \cup {NoObject}
         /\ Exists(o) <=> object[o] \in Objects
         /\ Exists(o) <=> Marker(o) \in Rows
  <1>1. object[o] \in Objects \cup {NoObject}
    BY DEF ObjectsTyped
  <1>2. NoObject.marker = "none"
    BY DEF NoObject
  <1>3. object[o] \in Objects => object[o].marker \in Rows
    BY DEF Objects
  <1> QED BY <1>1, <1>2, <1>3, Facts DEF Exists, Marker

\* No row is forgotten, none that is over comes back, an insert ends in a row.
RowStep(r) ==
  /\ Known(r) => Known(r)'
  /\ Over(r) => Over(r)'
  /\ InlineNow(r) => InlineNow(r)' \/ Known(r)'

\* Ids are given out once, and an object changes its owner within a name.
ObjectStep ==
  /\ top <= top'
  /\ \A o \in Ids : o <= top /\ Exists(o)' =>
       Exists(o) /\ NameOf[object'[o].marker] = NameOf[Marker(o)]

LEMMA ObjectsStay == ObjectsTyped /\ UNCHANGED <<object, top>> => ObjectStep
  BY Facts DEF ObjectStep, Exists, Marker, ObjectsTyped

LEMMA OfStays ==
  ASSUME ObjectsTyped, ObjectsTyped', ObjectStep, NEW o \in Ids, NEW r \in Rows, Of(o, r)
  PROVE  Of(o, r)'
  <1>1. o \in Nat /\ top \in Nat /\ top' \in Nat
    BY Facts DEF ObjectsTyped
  <1>2. o <= top'
    BY <1>1 DEF Of, ObjectStep
  <1>3. Exists(o)' => NameOf[object'[o].marker] = NameOf[r]
    BY DEF Of, ObjectStep
  <1> QED BY <1>2, <1>3 DEF Of, Marker

LEMMA ObjectsRest ==
  ASSUME Inv, UNCHANGED <<object, top>>, \A r \in Rows : RowStep(r)
  PROVE  \A o \in Ids : ObjectOf(o)'
  <1> SUFFICES ASSUME NEW o \in Ids
               PROVE  ObjectOf(o)'
    OBVIOUS
  <1>1. ObjectOf(o)
    BY DEF Inv
  <1>2. PICK m : m = Marker(o)
    OBVIOUS
  <1>3. Exists(o) => o <= top /\ m \in Rows /\ (Known(m) \/ InlineNow(m))
    BY <1>1, <1>2 DEF ObjectOf
  <1>4. Exists(o) => o <= top /\ m \in Rows /\ (Known(m)' \/ InlineNow(m)')
    BY <1>3 DEF RowStep
  <1>5. object'[o].marker = m
    BY <1>2 DEF Marker
  <1> QED BY <1>4, <1>5 DEF ObjectOf, Exists, Marker, Known, InlineNow

\* A collector that learns nothing,
LEMMA CollectorForgets ==
  ASSUME Inv, NEW c \in Collectors, ObjectsTyped', ObjectStep, \A r \in Rows : RowStep(r),
         gc'[c].at \in {"list", "judge"} => gc[c].at \in {"list", "judge"},
         gc'[c].listed \subseteq gc[c].listed, gc'[c].seen \subseteq gc[c].seen,
         gc'[c].remove \subseteq gc[c].remove, gc'[c].open = gc[c].open
  PROVE  Collects(c)'
  <1>1. gc[c] \in Collector /\ ObjectsTyped /\ Collects(c)
    BY DEF Inv, Typed, CollectorsTyped
  <1>2. /\ gc[c].listed \subseteq Ids \X Rows /\ gc[c].seen \subseteq Ids
        /\ gc[c].remove \subseteq Ids /\ gc[c].open \subseteq Rows
    BY <1>1 DEF Collector
  <1>3. \A e \in gc[c].listed : Of(e[1], e[2])' /\ (Known(e[2])' \/ InlineNow(e[2])')
    <2> SUFFICES ASSUME NEW e \in gc[c].listed
                 PROVE  Of(e[1], e[2])' /\ (Known(e[2])' \/ InlineNow(e[2])')
      OBVIOUS
    <2>1. e[1] \in Ids /\ e[2] \in Rows
      BY <1>2
    <2>2. \E o \in Ids, r \in Rows : o = e[1] /\ r = e[2]
      BY <2>1
    <2>3. PICK o \in Ids, r \in Rows : o = e[1] /\ r = e[2]
      BY <2>2
    <2>4. Of(o, r) /\ (Known(r) \/ InlineNow(r))
      BY <1>1, <2>3 DEF Collects
    <2>5. Of(o, r)' /\ (Known(r)' \/ InlineNow(r)')
      BY <1>1, <2>4, OfStays DEF RowStep
    <2> QED BY <2>3, <2>5 DEF Of, Exists, Marker, Known, InlineNow
  <1>4. \A o \in gc[c].seen : \E r \in Rows : Of(o, r)' /\ (Known(r)' \/ r \in gc[c].open)
    <2> SUFFICES ASSUME NEW o \in gc[c].seen
                 PROVE  \E r \in Rows : Of(o, r)' /\ (Known(r)' \/ r \in gc[c].open)
      OBVIOUS
    <2>1. PICK r \in Rows : Of(o, r) /\ (Known(r) \/ r \in gc[c].open)
      BY <1>1 DEF Collects
    <2>2. Of(o, r)'
      BY <1>1, <1>2, <2>1, OfStays
    <2> QED BY <2>1, <2>2 DEF RowStep
  <1>5. \A o \in gc[c].remove : Forfeited(o)'
    <2> SUFFICES ASSUME NEW o \in gc[c].remove
                 PROVE  Forfeited(o)'
      OBVIOUS
    <2>1. Forfeited(o) /\ o \in Ids
      BY <1>1, <1>2 DEF Collects
    <2>2. o <= top'
      BY <1>1, <2>1, Facts DEF Forfeited, ObjectStep, ObjectsTyped
    <2>3. CASE ~Exists(o)'
      BY <2>2, <2>3 DEF Forfeited
    <2>4. CASE Exists(o)'
      <3>1. Exists(o)
        BY <2>1, <2>4 DEF Forfeited, ObjectStep
      <3>2. PICK r \in Rows : Of(o, r) /\ Over(r)
        BY <2>1, <3>1 DEF Forfeited
      <3>3. Of(o, r)' /\ Over(r)'
        BY <1>1, <2>1, <3>2, OfStays DEF RowStep
      <3> QED BY <2>2, <3>3 DEF Forfeited
    <2> QED BY <2>3, <2>4
  <1>6. \A r \in gc[c].open : Known(r)' \/ InlineNow(r)'
    BY <1>1, <1>2 DEF Collects, RowStep
  <1> QED BY <1>1, <1>3, <1>4, <1>5, <1>6 DEF Collects

\* a collector that does nothing,
LEMMA CollectorRests ==
  ASSUME Inv, NEW c \in Collectors, gc'[c] = gc[c], ObjectsTyped', ObjectStep,
         \A r \in Rows : RowStep(r)
  PROVE  Collects(c)'
  BY CollectorForgets

\* and a handler that does nothing.
LEMMA TaskRests ==
  ASSUME Inv, NEW r \in Rows, task'[r] = task[r], ObjectsTyped', ObjectStep
  PROVE  WorksOn(r)'
  <1>1. task[r] \in Task /\ ObjectsTyped /\ WorksOn(r)
    BY DEF Inv, Typed, TasksTyped
  <1>2. task[r].id # None => Of(task[r].id, r)'
    <2>1. task[r].id \in Ids \cup {None}
      BY <1>1 DEF Task
    <2>2. PICK o : o = task[r].id
      OBVIOUS
    <2>3. o # None => Of(o, r)'
      BY <1>1, <2>1, <2>2, OfStays DEF WorksOn
    <2> QED BY <2>2, <2>3 DEF Of, Exists, Marker
  <1>3. HasGroup(r)'
    BY <1>1 DEF WorksOn, HasGroup, Writing
  <1> QED BY <1>1, <1>2, <1>3 DEF WorksOn, Of, Exists, Marker

\* A step of one handler is nobody else's.
LEMMA HandlerMoves ==
  ASSUME Inv, NEW r \in Rows, Typed', UNCHANGED gc,
         \A q \in Rows \ {r} : /\ task'[q] = task[q] /\ status'[q] = status[q]
                               /\ pointer'[q] = pointer[q]
                               /\ q \in queued' => q \in queued,
         RowStep(r), ObjectStep, \A o \in Ids : ObjectOf(o)', RowOf(r)', WorksOn(r)',
         \/ Live(r)' \/ InlineNow(r)' => Live(r) \/ InlineNow(r)
         \/ \A q \in Rows \ {r} : NameOf[q] = NameOf[r] => ~Live(q) /\ ~InlineNow(q)
  PROVE  Inv'
  <1>1. \A q \in Rows : RowStep(q)
    BY DEF RowStep, Known, Over, InlineNow
  <1>2. ASSUME NEW q \in Rows \ {r}
        PROVE  RowOf(q)' /\ WorksOn(q)'
    <2>1. RowOf(q)
      BY DEF Inv
    <2>2. RowOf(q)'
      BY <2>1 DEF RowOf, InlineNow
    <2> QED BY <2>2, TaskRests DEF Typed
  <1>3. NamesApart'
    <2>1. \A q \in Rows \ {r} : (Live(q)' <=> Live(q)) /\ (InlineNow(q)' <=> InlineNow(q))
      BY DEF Live, InlineNow
    <2>2. ASSUME NEW p \in Rows, NEW q \in Rows, NameOf[p] = NameOf[q],
                 Live(p)' \/ InlineNow(p)', Live(q)' \/ InlineNow(q)', p # q
          PROVE  FALSE
      <3>1. NamesApart
        BY DEF Inv
      <3>2. CASE p # r /\ q # r
        BY <2>1, <2>2, <3>1, <3>2 DEF NamesApart
      <3>3. CASE p = r
        BY <2>1, <2>2, <3>1, <3>3 DEF NamesApart
      <3>4. CASE q = r
        BY <2>1, <2>2, <3>1, <3>4 DEF NamesApart
      <3> QED BY <3>2, <3>3, <3>4
    <2> QED BY <2>2 DEF NamesApart
  <1>4. \A c \in Collectors : Collects(c)'
    BY <1>1, CollectorRests DEF Typed
  <1> QED BY <1>2, <1>3, <1>4 DEF Inv

-----------------------------------------------------------------------------
(* Steps of a handler                                                      *)

\* Of a task that only moves on.
Same(t, u) ==
  /\ t.inline = u.inline /\ t.row = u.row /\ t.ptr = u.ptr /\ t.id = u.id /\ t.group = u.group
  /\ t.owner = u.owner

LEMMA TaskGoes ==
  ASSUME TasksTyped, NEW r \in Rows, NEW step \in Steps, task' = [task EXCEPT ![r].at = step]
  PROVE  \E t \in Task : task' = [task EXCEPT ![r] = t] /\ t.at = step /\ Same(t, task[r])
  <1> DEFINE t == [task[r] EXCEPT !.at = step]
  <1>1. t \in Task /\ t.at = step /\ Same(t, task[r])
    BY DEF TasksTyped, Task, Same
  <1>2. task' = [task EXCEPT ![r] = t]
    BY DEF TasksTyped
  <1> QED BY <1>1, <1>2

LEMMA IdleTask ==
  Idle \in Task /\ Idle.at = "idle" /\ Idle.inline = FALSE /\ Idle.row = "absent" /\ Idle.id = None
  BY DEF Idle, Task, Steps, Status

LEMMA Known0 ==
  ASSUME Inv, NEW r \in Rows
  PROVE  /\ task[r] \in Task /\ TasksTyped /\ ObjectsTyped /\ RowsTyped /\ CollectorsTyped
         /\ RowOf(r) /\ WorksOn(r)
         /\ task[r].id \in Ids \cup {None} /\ task[r].ptr \in Ids \cup {None}
         /\ task[r].group \in Ids \cup {None} /\ status[r] \in Status
         /\ pointer[r] \in Ids \cup {None} /\ task[r].inline \in BOOLEAN
  <1>1. /\ task[r] \in Task /\ TasksTyped /\ ObjectsTyped /\ RowsTyped /\ CollectorsTyped
        /\ RowOf(r) /\ WorksOn(r)
    BY DEF Inv, Typed, TasksTyped
  <1> QED BY <1>1 DEF Task, RowsTyped

\* A handler that goes on, and may have changed objects and pointers.
LEMMA HandlerGoes ==
  ASSUME Inv, NEW r \in Rows, NEW t \in Task, task' = [task EXCEPT ![r] = t],
         task[r].at # "idle", t.at # "idle", t.inline = task[r].inline, t.row = task[r].row,
         t.at = "commit" => t.inline,
         UNCHANGED <<status, pointer, queued, gc>>, ObjectsTyped', ObjectStep, \A o \in Ids : ObjectOf(o)', task'[r] = t => WorksOn(r)'
  PROVE  Inv'
  <1>1. TasksTyped' /\ task'[r] = t /\ \A q \in Rows \ {r} : task'[q] = task[q]
    BY Known0 DEF TasksTyped
  <1>2. Typed'
    BY <1>1, Known0 DEF Typed, RowsTyped, CollectorsTyped
  <1>3. RowStep(r)
    BY <1>1 DEF RowStep, Known, Over, InlineNow
  <1>4. RowOf(r)'
    BY <1>1, Known0 DEF RowOf, InlineNow
  <1>5. Live(r)' \/ InlineNow(r)' => Live(r) \/ InlineNow(r)
    BY <1>1 DEF Live, InlineNow
  <1> QED BY <1>1, <1>2, <1>3, <1>4, <1>5, HandlerMoves

\* A handler that has only looked.
LEMMA HandlerLooks ==
  ASSUME Inv, NEW r \in Rows, NEW t \in Task, task' = [task EXCEPT ![r] = t],
         task[r].at # "idle", t.at # "idle", t.inline = task[r].inline, t.row = task[r].row,
         t.at = "commit" => t.inline, UNCHANGED <<database, object, top, queued, gc>>,
         member' \subseteq Ids \X Ids, task'[r] = t => WorksOn(r)'
  PROVE  Inv'
  <1>1. TasksTyped' /\ task'[r] = t /\ \A q \in Rows \ {r} : task'[q] = task[q]
    BY Known0 DEF TasksTyped
  <1>2. ObjectsTyped' /\ ObjectStep /\ status' = status /\ pointer' = pointer
    BY Known0, ObjectsStay DEF ObjectsTyped, database
  <1>3. \A q \in Rows : RowStep(q)
    BY <1>1, <1>2 DEF RowStep, Known, Over, InlineNow
  <1>4. \A o \in Ids : ObjectOf(o)'
    BY <1>3, ObjectsRest
  <1> QED BY <1>2, <1>4, HandlerGoes DEF database

\* A handler that ends: for good, with its row, or to be run again.
LEMMA HandlerEnds ==
  ASSUME Inv, NEW r \in Rows, task[r].at # "idle", task' = [task EXCEPT ![r] = Idle],
         UNCHANGED <<keycloak, gc>>, NEW p \in Ids \cup {None},
         pointer' = pointer \/ pointer' = [pointer EXCEPT ![r] = p],
         \/ /\ task[r].inline /\ UNCHANGED <<queued, pointer>>
            /\ status' = [status EXCEPT ![r] = "gone"]
         \/ /\ task[r].inline /\ queued' = queued \cup {r}
            /\ status' = [status EXCEPT ![r] = "active"]
         \/ /\ ~task[r].inline /\ UNCHANGED status
            /\ queued' = queued \/ queued' = queued \cup {r}
  PROVE  Inv'
  <1>1. TasksTyped' /\ task'[r] = Idle /\ \A q \in Rows \ {r} : task'[q] = task[q]
    BY Known0, IdleTask DEF TasksTyped
  <1>2. RowsTyped' /\ \A q \in Rows \ {r} : status'[q] = status[q] /\ pointer'[q] = pointer[q]
    BY Known0 DEF RowsTyped, Status
  <1>3. \/ task[r].inline /\ queued' = queued /\ status'[r] = "gone" /\ pointer' = pointer
        \/ task[r].inline /\ status'[r] = "active"
        \/ ~task[r].inline /\ status'[r] = status[r]
    BY Known0 DEF RowsTyped
  <1>4. ObjectsTyped' /\ ObjectStep
    BY Known0, ObjectsStay DEF ObjectsTyped, keycloak
  <1>5. Typed'
    BY <1>1, <1>2, <1>4, Known0 DEF Typed, CollectorsTyped
  <1>6. RowOf(r) /\ WorksOn(r)
    BY Known0
  <1>7. RowStep(r)
    BY <1>1, <1>3, <1>6 DEF RowStep, Known, Over, InlineNow, RowOf
  <1>8. \A q \in Rows : RowStep(q)
    BY <1>1, <1>2, <1>7 DEF RowStep, Known, Over, InlineNow
  <1>9. \A o \in Ids : ObjectOf(o)'
    BY <1>8, ObjectsRest DEF keycloak
  <1>10. RowOf(r)' /\ WorksOn(r)'
    BY <1>1, <1>3, <1>6, IdleTask DEF RowOf, WorksOn, HasGroup, Writing, InlineNow
  <1>11. Live(r)' \/ InlineNow(r)' => Live(r) \/ InlineNow(r)
    BY <1>1, <1>3, IdleTask DEF Live, InlineNow
  <1>12. \A q \in Rows \ {r} : q \in queued' => q \in queued
    OBVIOUS
  <1> QED BY <1>1, <1>2, <1>4, <1>5, <1>7, <1>9, <1>10, <1>11, <1>12, HandlerMoves

LEMMA ThrowInv ==
  ASSUME Inv, NEW r \in Rows, task[r].at # "idle", Throw(r), UNCHANGED <<pointer, keycloak, gc>>
  PROVE  Inv'
  BY HandlerEnds, Known0 DEF Throw, RowsTyped
LEMMA ReadInv ==
  ASSUME Inv, NEW r \in Rows, Read(r)
  PROVE  Inv'
  <1> DEFINE step == FirstStep(r, status[r])
  <1> DEFINE t == [Idle EXCEPT !.at = step, !.row = status[r], !.ptr = pointer[r]]
  <1>1. /\ r \in queued /\ task[r].at = "idle" /\ queued' = queued \ {r}
        /\ task' = [task EXCEPT ![r] = t] /\ UNCHANGED <<database, keycloak, gc>>
    BY DEF Read, At
  <1>2. step \in {"tenant", "stored"} /\ (step = "stored" => r \notin Users \/ status[r] = "deleted")
    BY DEF FirstStep
  <1>3. /\ t \in Task /\ t.at = step /\ t.inline = FALSE /\ t.row = status[r] /\ t.id = None
    <2>1. status[r] \in Status /\ pointer[r] \in Ids \cup {None} /\ step \in Steps
      BY <1>2, Known0 DEF Steps
    <2> HIDE DEF step
    <2> QED BY <2>1 DEF Idle, Task
  <1>4. PICK k : k = t
    OBVIOUS
  <1> HIDE DEF t, step
  <1>5. TasksTyped' /\ task'[r] = k /\ \A q \in Rows \ {r} : task'[q] = task[q]
    BY <1>1, <1>3, <1>4, Known0 DEF TasksTyped
  <1>6. status' = status /\ pointer' = pointer /\ object' = object /\ top' = top /\ member' = member
    BY <1>1 DEF database, keycloak
  <1>7. ObjectsTyped' /\ ObjectStep
    BY <1>6, Known0, ObjectsStay DEF ObjectsTyped
  <1>8. Typed'
    BY <1>1, <1>5, <1>6, <1>7, Known0 DEF Typed, RowsTyped, CollectorsTyped
  <1>9. status[r] \notin {"absent", "gone"}
    BY <1>1, Known0 DEF RowOf
  <1>10. ~InlineNow(r) \/ status[r] = "absent"
    BY Known0 DEF RowOf
  <1>11. RowStep(r)
    BY <1>6, <1>9 DEF RowStep, Known, Over, InlineNow
  <1>12. \A q \in Rows : RowStep(q)
    BY <1>5, <1>6, <1>11 DEF RowStep, Known, Over, InlineNow
  <1>13. \A o \in Ids : ObjectOf(o)'
    BY <1>6, <1>12, ObjectsRest
  <1>14. RowOf(r)' /\ WorksOn(r)'
    BY <1>1, <1>2, <1>3, <1>4, <1>5, <1>6, <1>9 DEF RowOf, WorksOn, HasGroup, Writing, InlineNow
  <1>15. Live(r)' \/ InlineNow(r)' => Live(r) \/ InlineNow(r)
    BY <1>3, <1>4, <1>5, <1>6 DEF Live, InlineNow
  <1>16. \A q \in Rows \ {r} : q \in queued' => q \in queued
    BY <1>1
  <1> QED BY <1>1, <1>5, <1>6, <1>7, <1>8, <1>11, <1>13, <1>14, <1>15, <1>16, HandlerMoves

LEMMA DesiredGroupInv ==
  ASSUME Inv, NEW u \in Users, DesiredGroup(u)
  PROVE  Inv'
  <1> DEFINE g == pointer[TenantOf[u]]
  <1>1. task[u].at = "tenant" /\ UNCHANGED <<pointer, keycloak, gc>> /\ u \in Rows
    BY Facts DEF DesiredGroup, At
  <1>2. CASE g = None
    <2>1. Throw(u)
      BY <1>2 DEF DesiredGroup
    <2> QED BY <1>1, <2>1, ThrowInv
  <1>3. CASE g # None
    <2> DEFINE t == [task[u] EXCEPT !.at = "stored", !.group = g]
    <2>1. g \in Ids \cup {None}
      BY Facts, Known0
    <2>2. UNCHANGED <<status, queued>> /\ task' = [task EXCEPT ![u] = t]
      BY <1>1, <1>3, Known0 DEF DesiredGroup, TasksTyped
    <2>3. /\ t \in Task /\ t.at = "stored" /\ t.inline = task[u].inline /\ t.row = task[u].row
          /\ t.id = task[u].id /\ t.group = g
      BY <1>1, <2>1, Known0 DEF Task, Steps
    <2>4. PICK k : k = t
      OBVIOUS
    <2> HIDE DEF t, g
    <2>5. task'[u] = k => WorksOn(u)'
      BY <1>1, <1>3, <2>3, <2>4, Known0 DEF WorksOn, HasGroup, Writing, Of, Exists, Marker, keycloak
    <2> QED BY <1>1, <2>2, <2>3, <2>4, <2>5, Known0, HandlerLooks DEF database, keycloak, ObjectsTyped
  <1> QED BY <1>2, <1>3

\* What the answer that an object is there makes of the task.
LEMMA FoundIs ==
  ASSUME Inv, NEW r \in Rows, NEW o \in Ids, Marker(o) = r
  PROVE  /\ Found(r, o) \in Task /\ Found(r, o).id = o
         /\ Found(r, o).at \in {"delete", "update", "groups", "store"}
         /\ Found(r, o).at = "delete" <=> task[r].row = "deleted"
         /\ Found(r, o).at = "groups" => r \in Users
         /\ Found(r, o).inline = task[r].inline /\ Found(r, o).row = task[r].row
         /\ Found(r, o).group = task[r].group
         /\ Of(o, r) /\ o # None
  <1> DEFINE step == IF task[r].row = "deleted" THEN "delete"
                     ELSE IF Marker(o) # r THEN "adopt"
                     ELSE IF object[o].enabled # Enabled(r) THEN "update"
                     ELSE InPlace(r)
  <1>1. /\ step \in {"delete", "update", "groups", "store"} /\ step \in Steps
        /\ step = "delete" <=> task[r].row = "deleted"
        /\ step = "groups" => r \in Users
    BY DEF InPlace, Steps
  <1>2. Found(r, o) = [task[r] EXCEPT !.id = o, !.at = step]
    BY DEF Found
  <1>3. task[r] \in Task /\ o \in Ids \cup {None}
    BY Known0
  <1> HIDE DEF step
  <1>4. [task[r] EXCEPT !.id = o, !.at = step] \in Task
    BY <1>1, <1>3 DEF Task
  <1>5. /\ Found(r, o).id = o /\ Found(r, o).at = step /\ Found(r, o).inline = task[r].inline
        /\ Found(r, o).row = task[r].row /\ Found(r, o).group = task[r].group
    BY <1>2, <1>3 DEF Task
  <1>6. Of(o, r)
    <2>1. ObjectOf(o)
      BY DEF Inv
    <2> QED BY <2>1, Known0, Existing DEF ObjectOf, Of
  <1> QED BY <1>1, <1>2, <1>4, <1>5, <1>6, Facts

\* A handler that has found the object of its row.
LEMMA FindsInv ==
  ASSUME Inv, NEW r \in Rows, task[r].at \in {"stored", "byName"}, NEW o \in Ids, Marker(o) = r,
         task' = [task EXCEPT ![r] = Found(r, o)], UNCHANGED <<database, keycloak, queued, gc>>
  PROVE  Inv'
  <1>1. PICK k : k = Found(r, o)
    OBVIOUS
  <1>2. /\ k \in Task /\ k.id = o /\ k.at \in {"delete", "update", "groups", "store"}
        /\ k.at = "delete" <=> task[r].row = "deleted"
        /\ k.at = "groups" => r \in Users
        /\ k.inline = task[r].inline /\ k.row = task[r].row /\ k.group = task[r].group
        /\ Of(o, r) /\ o # None
    BY <1>1, FoundIs
  <1>3. task'[r] = k => WorksOn(r)'
    BY <1>2, Known0 DEF WorksOn, HasGroup, Writing, Of, Exists, Marker, keycloak
  <1> QED BY <1>1, <1>2, <1>3, Known0, HandlerLooks DEF keycloak, ObjectsTyped

\* A handler that goes on with what it has.
LEMMA GoesOnInv ==
  ASSUME Inv, NEW r \in Rows, task[r].at # "idle",
         NEW step \in {"stored", "byName", "create", "clear", "adopt", "groups", "join", "roles",
                       "store", "commit"},
         Go(r, step), step = "commit" => task[r].inline,
         step \notin {"byName", "create", "clear"} => task[r].id # None,
         step \in {"groups", "join"} => r \in Users,
         step \in Writing => task[r].row # "deleted", step = "clear" => task[r].row = "deleted",
         step \in Writing \cup {"stored", "byName"} => task[r].at \in Writing \cup {"stored", "byName"},
         UNCHANGED <<database, object, top, gc>>, member' \subseteq Ids \X Ids
  PROVE  Inv'
  <1>1. step \in Steps
    BY DEF Steps
  <1>2. PICK t \in Task : task' = [task EXCEPT ![r] = t] /\ t.at = step /\ Same(t, task[r])
    BY <1>1, Known0, TaskGoes DEF Go
  <1>3. task'[r] = t => WorksOn(r)'
    BY <1>2, Known0 DEF WorksOn, HasGroup, Writing, Same, Of, Exists, Marker
  <1> QED BY <1>2, <1>3, HandlerLooks DEF Same, Go
LEMMA StoredInv ==
  ASSUME Inv, NEW r \in Rows, Stored(r)
  PROVE  Inv'
  <1>1. task[r].at = "stored" /\ UNCHANGED <<database, keycloak, gc>>
    BY DEF Stored, At
  <1>2. CASE StillMine(r)
    <2>1. task' = [task EXCEPT ![r] = Found(r, task[r].ptr)] /\ UNCHANGED queued
      BY <1>2 DEF Stored
    <2>2. task[r].ptr \in Ids /\ Marker(task[r].ptr) = r
      BY <1>2, Known0 DEF StillMine
    <2> QED BY <1>1, <2>1, <2>2, FindsInv
  <1>3. CASE ~StillMine(r)
    <2>1. Go(r, "byName")
      BY <1>3 DEF Stored
    <2> QED BY <1>1, <2>1, Known0, GoesOnInv DEF Writing, keycloak, ObjectsTyped
  <1> QED BY <1>2, <1>3

LEMMA ByNameInv ==
  ASSUME Inv, NEW r \in Rows, ByName(r)
  PROVE  Inv'
  <1>1. task[r].at = "byName" /\ UNCHANGED <<database, keycloak, gc>>
    BY DEF ByName, At
  <1>2. CASE Go(r, IF task[r].row = "deleted" THEN "clear" ELSE "create")
    <2>1. PICK step \in {"clear", "create"} : Go(r, step) /\ (step = "create" <=> task[r].row # "deleted")
      BY <1>2
    <2> QED BY <1>1, <2>1, Known0, GoesOnInv DEF Writing, keycloak, ObjectsTyped
  <1>3. ASSUME NEW o \in Named(r), UNCHANGED queued,
               task' = [task EXCEPT ![r] =
                 IF task[r].row = "deleted" THEN NamedForDelete(r, o) ELSE NamedForWrite(r, o)]
        PROVE  Inv'
    <2>1. o \in Ids /\ Exists(o) /\ NameOf[Marker(o)] = NameOf[r]
      BY DEF Named
    <2>2. CASE Marker(o) = r
      <3>1. task' = [task EXCEPT ![r] = Found(r, o)]
        BY <1>3, <2>2 DEF NamedForDelete, NamedForWrite
      <3> QED BY <1>1, <1>3, <2>1, <2>2, <3>1, FindsInv
    <2>3. CASE Marker(o) # r /\ task[r].row = "deleted"
      <3>1. task' = [task EXCEPT ![r] = [task[r] EXCEPT !.at = "clear"]]
        BY <1>3, <2>3 DEF NamedForDelete
      <3>2. Go(r, "clear")
        BY <1>3, <3>1, Known0 DEF Go, TasksTyped
      <3> QED BY <1>1, <2>3, <3>2, Known0, GoesOnInv DEF Writing, keycloak, ObjectsTyped
    <2>4. CASE Marker(o) # r /\ task[r].row # "deleted"
      <3> DEFINE t == [task[r] EXCEPT !.at = "owner", !.id = o, !.owner = Marker(o)]
      <3>1. task' = [task EXCEPT ![r] = t]
        BY <1>3, <2>4 DEF NamedForWrite
      <3>2. Marker(o) \in Rows /\ o <= top
        BY <2>1, Known0, Existing DEF Inv, ObjectOf
      <3>3. /\ t \in Task /\ t.at = "owner" /\ t.id = o /\ t.inline = task[r].inline
            /\ t.row = task[r].row /\ t.group = task[r].group
        <4>1. task[r] \in Task /\ o \in Ids \cup {None} /\ Marker(o) \in Rows \cup {"none"}
              /\ "owner" \in Steps
          BY <2>1, <3>2, Known0 DEF Steps
        <4> QED BY <4>1 DEF Task
      <3>4. PICK k : k = t
        OBVIOUS
      <3> HIDE DEF t
      <3>5. task'[r] = k => WorksOn(r)'
        BY <1>1, <2>1, <2>4, <3>2, <3>3, <3>4, Facts, Known0 DEF WorksOn, HasGroup, Writing, Of, Exists, Marker, keycloak
      <3> QED BY <1>1, <1>3, <3>1, <3>3, <3>4, <3>5, Known0, HandlerLooks DEF keycloak, ObjectsTyped
    <2> QED BY <2>2, <2>3, <2>4
  <1> QED BY <1>2, <1>3 DEF ByName

LEMMA OwnerInv ==
  ASSUME Inv, NEW r \in Rows, Owner(r)
  PROVE  Inv'
  <1>1. task[r].at = "owner" /\ UNCHANGED <<pointer, keycloak, gc>>
    BY DEF Owner, At
  <1>2. CASE Throw(r)
    BY <1>1, <1>2, ThrowInv
  <1>3. CASE Proceed(r, "adopt")
    <2>1. task[r].id # None /\ task[r].row # "deleted"
      BY <1>1, Known0 DEF WorksOn, HasGroup, Writing
    <2> QED BY <1>1, <1>3, <2>1, Known0, GoesOnInv DEF Writing, keycloak, database, ObjectsTyped, Proceed
  <1> QED BY <1>2, <1>3 DEF Owner

LEMMA AssertMarkerInv ==
  ASSUME Inv, NEW u \in Rows, u \in Users, AssertMarker(u)
  PROVE  Inv'
  <1>1. task[u].at = "assertMarker" /\ UNCHANGED <<pointer, keycloak, gc>>
    BY DEF AssertMarker, At
  <1>2. CASE Throw(u)
    BY <1>1, <1>2, ThrowInv
  <1>3. CASE Proceed(u, "groups")
    <2>1. task[u].id # None /\ task[u].row # "deleted"
      BY <1>1, Known0 DEF WorksOn, HasGroup, Writing
    <2> QED BY <1>1, <1>3, <2>1, Known0, GoesOnInv DEF Writing, keycloak, database, ObjectsTyped, Proceed
  <1> QED BY <1>2, <1>3 DEF AssertMarker

LEMMA GetGroupsInv ==
  ASSUME Inv, NEW u \in Rows, GetGroups(u)
  PROVE  Inv'
  <1> DEFINE rest == GroupsOf(task[u].id) \ {task[u].group}
  <1> DEFINE joins == task[u].group \notin GroupsOf(task[u].id)
  <1>1. task[u].at = "groups" /\ UNCHANGED <<pointer, keycloak, gc>>
    BY DEF GetGroups, At
  <1>2. CASE Throw(u)
    BY <1>1, <1>2, ThrowInv
  <1>3. CASE /\ task' = [task EXCEPT ![u].at = "leave", ![u].others = rest, ![u].join = joins]
             /\ UNCHANGED <<status, queued>>
    <2>1. rest \subseteq Ids /\ joins \in BOOLEAN
      BY DEF GroupsOf
    <2>2. PICK s \in SUBSET Ids, j \in BOOLEAN : s = rest /\ j = joins
      BY <2>1
    <2> HIDE DEF rest, joins
    <2> DEFINE t == [task[u] EXCEPT !.at = "leave", !.others = s, !.join = j]
    <2>3. task' = [task EXCEPT ![u] = t]
      BY <1>3, <2>2, Known0 DEF TasksTyped
    <2>4. /\ t \in Task /\ t.at = "leave" /\ t.id = task[u].id /\ t.inline = task[u].inline
          /\ t.row = task[u].row /\ t.group = task[u].group
      BY Known0 DEF Task, Steps
    <2>5. PICK k : k = t
      OBVIOUS
    <2> HIDE DEF t
    <2>6. task'[u] = k => WorksOn(u)'
      BY <1>1, <2>4, <2>5, Known0 DEF WorksOn, HasGroup, Writing, Of, Exists, Marker, keycloak
    <2> QED BY <1>1, <1>3, <2>3, <2>4, <2>5, <2>6, Known0, HandlerLooks DEF keycloak, database, ObjectsTyped
  <1> QED BY <1>2, <1>3 DEF GetGroups

LEMMA LeaveInv ==
  ASSUME Inv, NEW u \in Rows, Leave(u)
  PROVE  Inv'
  <1>1. /\ task[u].at = "leave" /\ UNCHANGED <<database, object, top, gc>>
        /\ task[u].id # None /\ task[u].row # "deleted" /\ u \in Users
    BY Known0 DEF Leave, At, WorksOn, HasGroup, Writing
  <1>2. member' \subseteq Ids \X Ids
    BY Known0 DEF Leave, ObjectsTyped
  <1>3. ASSUME NEW g \in task[u].others, task' = [task EXCEPT ![u].others = @ \ {g}], UNCHANGED queued
        PROVE  Inv'
    <2> DEFINE t == [task[u] EXCEPT !.others = task[u].others \ {g}]
    <2>1. task' = [task EXCEPT ![u] = t]
      BY <1>3, Known0 DEF TasksTyped
    <2>2. /\ t \in Task /\ t.at = "leave" /\ t.id = task[u].id /\ t.inline = task[u].inline
          /\ t.row = task[u].row /\ t.group = task[u].group
      BY <1>1, Known0 DEF Task
    <2>3. PICK k : k = t
      OBVIOUS
    <2> HIDE DEF t
    <2>4. task'[u] = k => WorksOn(u)'
      BY <1>1, <2>2, <2>3, Known0 DEF WorksOn, HasGroup, Writing, Of, Exists, Marker
    <2> QED BY <1>1, <1>2, <1>3, <2>1, <2>2, <2>3, <2>4, HandlerLooks
  <1>4. ASSUME Go(u, IF task[u].join THEN "join" ELSE "roles")
        PROVE  Inv'
    <2>1. PICK step \in {"join", "roles"} : Go(u, step)
      BY <1>4
    <2> QED BY <1>1, <1>2, <2>1, GoesOnInv DEF Writing
  <1> QED BY <1>3, <1>4 DEF Leave

LEMMA ClearInv ==
  ASSUME Inv, NEW r \in Rows, Clear(r)
  PROVE  Inv'
  <1>1. /\ task[r].at = "clear" /\ UNCHANGED <<status, keycloak, gc, queued>>
        /\ pointer' = [pointer EXCEPT ![r] = None] /\ task' = [task EXCEPT ![r] = Idle]
    BY DEF Clear, At, Return
  <1>2. ~task[r].inline
    BY <1>1, Known0 DEF RowOf, WorksOn, InlineNow
  <1> QED BY <1>1, <1>2, HandlerEnds

\* The row of an inline handler becomes visible.
LEMMA CommitInv ==
  ASSUME Inv, NEW r \in Rows, Commit(r)
  PROVE  Inv'
  <1>1. /\ task[r].at = "commit" /\ UNCHANGED <<keycloak, gc>>
        /\ status' = [status EXCEPT ![r] = "active"] /\ queued' = queued \cup {r}
        /\ pointer' = [pointer EXCEPT ![r] = task[r].id] /\ task' = [task EXCEPT ![r] = Idle]
    BY DEF Commit, At
  <1>2. task[r].inline /\ task[r].id \in Ids \cup {None}
    BY <1>1, Known0 DEF RowOf, InlineNow
  <1> QED BY <1>1, <1>2, HandlerEnds

LEMMA StoreInv ==
  ASSUME Inv, NEW r \in Rows, NEW table, StoreIn(r, table)
  PROVE  Inv'
  <1>1. task[r].at = "store" /\ UNCHANGED <<keycloak, gc>> /\ task[r].id # None
    BY Known0 DEF StoreIn, At, WorksOn
  <1>2. CASE Throw(r) /\ UNCHANGED pointer
    BY <1>1, <1>2, ThrowInv
  <1>3. CASE task[r].inline /\ Go(r, "commit") /\ UNCHANGED <<status, pointer>>
    BY <1>1, <1>3, Known0, GoesOnInv DEF Writing, keycloak, database, ObjectsTyped
  <1>4. CASE /\ ~task[r].inline /\ Return(r) /\ UNCHANGED status
             /\ pointer' = [pointer EXCEPT ![r] = task[r].id]
    <2>1. task[r].id \in Ids \cup {None}
      BY Known0
    <2> QED BY <1>1, <1>4, <2>1, HandlerEnds DEF Return
  <1> QED BY <1>2, <1>3, <1>4 DEF StoreIn

LEMMA JoinInv ==
  ASSUME Inv, NEW u \in Rows, Join(u)
  PROVE  Inv'
  <1>1. /\ task[u].at = "join" /\ UNCHANGED <<pointer, object, top, gc>>
        /\ task[u].id \in Ids /\ task[u].group \in Ids /\ task[u].row # "deleted"
    BY Known0 DEF Join, At, WorksOn, HasGroup, Writing
  <1>2. CASE Throw(u) /\ UNCHANGED member
    BY <1>1, <1>2, ThrowInv DEF keycloak
  <1>3. CASE member' = member \cup {<<task[u].id, task[u].group>>} /\ Proceed(u, "roles")
    <2>1. member' \subseteq Ids \X Ids
      BY <1>1, <1>3, Known0 DEF ObjectsTyped
    <2>2. task[u].id # None
      BY <1>1, Facts
    <2> QED BY <1>1, <1>3, <2>1, <2>2, GoesOnInv DEF Writing, Proceed, database
  <1> QED BY <1>2, <1>3 DEF Join

\* An object that is removed, or written for a row of its name.
LEMMA ObjectWritten ==
  ASSUME Inv, NEW o \in Ids, NEW x \in Objects \cup {NoObject}, object' = [object EXCEPT ![o] = x],
         UNCHANGED top, member' \subseteq Ids \X Ids, \A r \in Rows : RowStep(r),
         x # NoObject => /\ Exists(o) /\ NameOf[x.marker] = NameOf[Marker(o)]
                         /\ Known(x.marker)' \/ InlineNow(x.marker)'
  PROVE  ObjectsTyped' /\ ObjectStep /\ \A p \in Ids : ObjectOf(p)'
  <1>1. ObjectsTyped /\ top \in Nat
    BY Facts DEF Inv, Typed, ObjectsTyped
  <1>2. object'[o] = x /\ \A p \in Ids \ {o} : object'[p] = object[p]
    BY <1>1 DEF ObjectsTyped
  <1>3. ObjectsTyped'
    BY <1>1 DEF ObjectsTyped
  <1>4. ObjectStep
    BY <1>1, <1>2 DEF ObjectStep, Exists, Marker
  <1>5. ASSUME NEW p \in Ids
        PROVE  ObjectOf(p)'
    <2>1. PICK m : m = Marker(p)
      OBVIOUS
    <2>2. Exists(p) => p <= top /\ m \in Rows /\ (Known(m) \/ InlineNow(m))
      BY <2>1 DEF Inv, ObjectOf
    <2>3. Exists(p) => Known(m)' \/ InlineNow(m)'
      BY <2>2 DEF RowStep
    <2>4. CASE p # o
      BY <1>2, <2>1, <2>2, <2>3, <2>4 DEF ObjectOf, Exists, Marker, Known, InlineNow
    <2>5. CASE p = o
      <3>1. x # NoObject => x.marker \in Rows
        BY DEF Objects
      <3> QED BY <1>2, <2>1, <2>2, <2>5, <3>1 DEF ObjectOf, Exists, Marker, Known, InlineNow
    <2> QED BY <2>4, <2>5
  <1> QED BY <1>3, <1>4, <1>5

\* A handler writes the object it works on, and goes on.
LEMMA HandlerWrites ==
  ASSUME Inv, NEW r \in Rows, task[r].at # "idle", NEW o \in Ids, task[r].id = o,
         NEW x \in Objects \cup {NoObject}, object' = [object EXCEPT ![o] = x],
         x # NoObject => Exists(o) /\ x.marker \in {r, Marker(o)},
         NEW step \in {"groups", "assertMarker", "store", "clear"}, Go(r, step),
         step = "groups" => r \in Users, step = "clear" => task[r].at = "delete",
         step \in {"groups", "assertMarker"} => task[r].at \in Writing,
         UNCHANGED <<database, top, gc>>, member' \subseteq Ids \X Ids
  PROVE  Inv'
  <1>1. step \in Steps
    BY DEF Steps
  <1>2. PICK t \in Task : task' = [task EXCEPT ![r] = t] /\ t.at = step /\ Same(t, task[r])
    BY <1>1, Known0, TaskGoes DEF Go
  <1>3. task'[r] = t /\ \A q \in Rows \ {r} : task'[q] = task[q]
    BY <1>2, Known0 DEF TasksTyped
  <1>4. \A q \in Rows : RowStep(q) /\ (Known(q)' <=> Known(q)) /\ (InlineNow(q)' <=> InlineNow(q))
    BY <1>2, <1>3 DEF RowStep, Known, Over, InlineNow, Same, database
  <1>5. Of(o, r) /\ o # None
    BY Known0, Facts DEF WorksOn
  <1>6. Known(r)' \/ InlineNow(r)'
    BY <1>4, Known0 DEF RowOf, Known
  <1>7. PICK m : m = Marker(o)
    OBVIOUS
  <1>8. x # NoObject => /\ Exists(o) /\ NameOf[x.marker] = NameOf[Marker(o)]
                        /\ Known(x.marker)' \/ InlineNow(x.marker)'
    <2>1. Exists(o) => m \in Rows /\ (Known(m) \/ InlineNow(m)) /\ NameOf[m] = NameOf[r]
      BY <1>5, <1>7 DEF Inv, ObjectOf, Of
    <2>2. Exists(o) => Known(m)' \/ InlineNow(m)'
      BY <1>4, <2>1
    <2> QED BY <1>6, <1>7, <2>1, <2>2
  <1>9. ObjectsTyped' /\ ObjectStep /\ \A p \in Ids : ObjectOf(p)'
    BY <1>4, <1>8, ObjectWritten
  <1>10. task'[r] = t => WorksOn(r)'
    <2>1. Of(o, r)'
      BY <1>5, <1>9, Known0, OfStays
    <2>2. task'[r] = t => HasGroup(r)'
      BY <1>2, Known0 DEF WorksOn, HasGroup, Writing, Same
    <2>3. task'[r] = t => /\ task'[r].at = step /\ task'[r].id = o
                          /\ step = "clear" => task'[r].row = "deleted"
      BY <1>2, Known0 DEF Same, WorksOn
    <2> QED BY <1>5, <2>1, <2>2, <2>3 DEF WorksOn, Of, Exists, Marker
  <1> QED BY <1>2, <1>9, <1>10, Known0, HandlerGoes DEF Same, Go, database, RowsTyped

\* An object is made under a new id, for a row that is there or open.
LEMMA CreateInv ==
  ASSUME Inv, NEW r \in Rows, NEW next \in {"assertMarker", "store"}, Create(r, next),
         next = "assertMarker" => r \in Users
  PROVE  Inv'
  <1> DEFINE new == top + 1
  <1> DEFINE x == [marker |-> r, enabled |-> Enabled(r), role |-> "none"]
  <1>1. task[r].at = "create" /\ UNCHANGED <<pointer, member, gc>>
    BY DEF Create, At
  <1>2. CASE Throw(r) /\ UNCHANGED <<object, top>>
    BY <1>1, <1>2, ThrowInv DEF keycloak
  <1>3. CASE /\ new \in Ids /\ object' = [object EXCEPT ![new] = x] /\ top' = new
             /\ task' = [task EXCEPT ![r].id = new, ![r].at = next] /\ UNCHANGED <<status, queued>>
    <2>1. PICK i : i = new
      OBVIOUS
    <2>2. top \in Nat /\ i \in Ids /\ i \in Nat /\ ~(i <= top) /\ top <= i /\ i # None
      BY <1>3, <2>1, Known0, Facts DEF ObjectsTyped
    <2>3. x \in Objects /\ x.marker = r
      <3>1. Enabled(r) \in BOOLEAN
        BY DEF Enabled
      <3>2. PICK e \in BOOLEAN : e = Enabled(r)
        BY <3>1
      <3>3. [marker |-> r, enabled |-> e, role |-> "none"] \in Objects
        BY DEF Objects
      <3> QED BY <3>2, <3>3
    <2> HIDE DEF x
    <2>4. PICK y \in Objects : y = x
      BY <2>3
    <2> HIDE DEF new
    <2>5. ObjectsTyped /\ ObjectsTyped' /\ object'[i] = y /\ \A p \in Ids \ {i} : object'[p] = object[p]
      BY <1>1, <1>3, <2>1, <2>2, <2>4, Known0 DEF ObjectsTyped
    <2>6. ObjectStep
      BY <1>3, <2>1, <2>2, <2>5 DEF ObjectStep, Exists, Marker
    <2> DEFINE t == [task[r] EXCEPT !.id = i, !.at = next]
    <2>7. task' = [task EXCEPT ![r] = t]
      BY <1>3, <2>1, Known0 DEF TasksTyped
    <2>8. /\ t \in Task /\ t.at = next /\ t.id = i /\ t.inline = task[r].inline
          /\ t.row = task[r].row /\ t.group = task[r].group
      <3>1. next \in Steps /\ i \in Ids \cup {None} /\ task[r] \in Task
        BY <2>2, Known0 DEF Steps
      <3> QED BY <3>1 DEF Task
    <2>9. PICK k : k = t
      OBVIOUS
    <2> HIDE DEF t
    <2>10. task'[r] = k /\ \A q \in Rows \ {r} : task'[q] = task[q]
      BY <2>7, <2>9, Known0 DEF TasksTyped
    <2>11. \A q \in Rows : (Known(q)' <=> Known(q)) /\ (InlineNow(q)' <=> InlineNow(q))
      BY <1>3, <2>8, <2>9, <2>10 DEF Known, InlineNow
    <2>12. Known(r)' \/ InlineNow(r)'
      BY <1>1, <2>11, Known0 DEF RowOf, Known
    <2>13. ASSUME NEW p \in Ids
           PROVE  ObjectOf(p)'
      <3>1. PICK m : m = Marker(p)
        OBVIOUS
      <3>2. Exists(p) => p <= top /\ m \in Rows /\ (Known(m) \/ InlineNow(m))
        BY <3>1 DEF Inv, ObjectOf
      <3>3. p <= top => p <= i
        BY <2>2, Facts
      <3>4. CASE p # i
        <4>1. Exists(p) => p <= top' /\ m \in Rows /\ (Known(m)' \/ InlineNow(m)')
          BY <1>3, <2>1, <2>11, <3>2, <3>3
        <4>2. object'[p] = object[p]
          BY <2>5, <3>4
        <4> QED BY <3>1, <4>1, <4>2 DEF ObjectOf, Exists, Marker, Known, InlineNow
      <3>5. CASE p = i
        <4>1. i <= top'
          BY <1>3, <2>1, <2>2
        <4>2. object'[i].marker = r
          BY <2>3, <2>4, <2>5
        <4> QED BY <2>12, <3>5, <4>1, <4>2 DEF ObjectOf, Exists, Marker, Known, InlineNow
      <3> QED BY <3>4, <3>5
    <2>14. WorksOn(r)'
      <3>1. Of(i, r)'
        BY <1>3, <2>1, <2>2, <2>3, <2>4, <2>5 DEF Of, Exists, Marker
      <3>2. HasGroup(r)'
        BY <1>1, <2>8, <2>9, <2>10, Known0 DEF WorksOn, HasGroup, Writing
      <3> QED BY <2>2, <2>8, <2>9, <2>10, <3>1, <3>2 DEF WorksOn, Of, Exists, Marker
    <2> QED BY <1>1, <1>3, <2>5, <2>6, <2>7, <2>8, <2>9, <2>13, <2>14, Known0, HandlerGoes DEF RowsTyped
  <1> QED BY <1>2, <1>3 DEF Create

LEMMA UpdateInv ==
  ASSUME Inv, NEW r \in Rows, NEW step \in {"update", "adopt"},
         NEW next \in {"groups", "assertMarker", "store"}, Update(r, step, next),
         next \in {"groups", "assertMarker"} => r \in Users
  PROVE  Inv'
  <1> DEFINE o == task[r].id
  <1> DEFINE y == [object[o] EXCEPT !.marker = r, !.enabled = Enabled(r)]
  <1>1. task[r].at = step /\ UNCHANGED <<pointer, member, top, gc>> /\ o \in Ids
    BY Known0 DEF Update, At, WorksOn
  <1>2. CASE ~Exists(o)
    <2>1. Throw(r) /\ UNCHANGED object
      BY <1>2 DEF Update
    <2> QED BY <1>1, <2>1, ThrowInv DEF keycloak
  <1>3. CASE Exists(o)
    <2>1. Proceed(r, next) /\ object' = [object EXCEPT ![o] = y]
      BY <1>1, <1>3, Known0 DEF Update, ObjectsTyped
    <2>2. y \in Objects /\ y.marker = r
      <3>1. PICK e \in BOOLEAN : e = Enabled(r)
        BY DEF Enabled
      <3>2. object[o] \in Objects
        BY <1>1, <1>3, Known0, Existing
      <3>3. [object[o] EXCEPT !.marker = r, !.enabled = e] \in Objects
        BY <3>2 DEF Objects
      <3>4. [object[o] EXCEPT !.marker = r, !.enabled = e].marker = r
        BY <3>2 DEF Objects
      <3> QED BY <3>1, <3>3, <3>4
    <2>3. member' \subseteq Ids \X Ids
      BY <1>1, Known0 DEF ObjectsTyped
    <2>4. PICK x \in Objects : x = y
      BY <2>2
    <2>5. PICK i \in Ids : i = o
      BY <1>1
    <2> HIDE DEF y, o
    <2>6. x.marker = r /\ Exists(i) /\ task[r].id = i
      BY <1>3, <2>2, <2>4, <2>5 DEF o
    <2>7. task[r].at \in Writing
      BY <1>1 DEF Writing
    <2>8. object' = [object EXCEPT ![i] = x] /\ Go(r, next) /\ UNCHANGED status
      BY <2>1, <2>4, <2>5 DEF Proceed
    <2> QED BY <1>1, <2>3, <2>6, <2>7, <2>8, HandlerWrites DEF database
  <1> QED BY <1>2, <1>3

LEMMA SyncRolesInv ==
  ASSUME Inv, NEW u \in Users, SyncRoles(u)
  PROVE  Inv'
  <1> DEFINE o == task[u].id
  <1> DEFINE y == RightRoles(o, u)
  <1>1. task[u].at = "roles" /\ UNCHANGED <<pointer, member, top, gc>> /\ o \in Ids /\ u \in Rows
    BY Known0, Facts DEF SyncRoles, At, WorksOn
  <1>2. CASE ~Exists(o)
    <2>1. Throw(u) /\ UNCHANGED object
      BY <1>2 DEF SyncRoles
    <2> QED BY <1>1, <2>1, ThrowInv DEF keycloak
  <1>3. CASE Exists(o)
    <2>1. Proceed(u, "store") /\ object' = [object EXCEPT ![o] = y]
      BY <1>3 DEF SyncRoles
    <2>2. y \in Objects /\ y.marker = Marker(o)
      <3>1. object[o] \in Objects
        BY <1>1, <1>3, Known0, Existing
      <3> QED BY <3>1 DEF Objects, RightRoles, Marker
    <2>3. member' \subseteq Ids \X Ids
      BY <1>1, Known0 DEF ObjectsTyped
    <2>4. PICK x \in Objects : x = y
      BY <2>2
    <2>5. PICK i \in Ids : i = o
      BY <1>1
    <2> HIDE DEF y, o
    <2>6. x.marker = Marker(i) /\ Exists(i) /\ task[u].id = i
      BY <1>3, <2>2, <2>4, <2>5 DEF o
    <2>7. object' = [object EXCEPT ![i] = x] /\ Go(u, "store") /\ UNCHANGED status
      BY <2>1, <2>4, <2>5 DEF Proceed
    <2> QED BY <1>1, <2>3, <2>6, <2>7, HandlerWrites DEF database
  <1> QED BY <1>2, <1>3

LEMMA DeleteInv ==
  ASSUME Inv, NEW r \in Rows, Delete(r)
  PROVE  Inv'
  <1>1. /\ task[r].at = "delete" /\ UNCHANGED <<database, top, gc>> /\ task[r].id \in Ids
        /\ object' = [object EXCEPT ![task[r].id] = NoObject] /\ Go(r, "clear")
        /\ member' = Without(task[r].id)
    BY Known0 DEF Delete, At, WorksOn
  <1>2. member' \subseteq Ids \X Ids
    BY <1>1, Known0 DEF Without, ObjectsTyped
  <1>3. PICK x \in Objects \cup {NoObject} : x = NoObject
    OBVIOUS
  <1>4. PICK i \in Ids : i = task[r].id
    BY <1>1
  <1>5. object' = [object EXCEPT ![i] = x]
    BY <1>1, <1>3, <1>4
  <1> QED BY <1>1, <1>2, <1>3, <1>4, <1>5, HandlerWrites

-----------------------------------------------------------------------------
(* Steps of the domain services                                            *)

\* Nobody of the name is there or being inserted.
LEMMA InsertInv ==
  ASSUME Inv, NEW r \in Rows, Insert(r)
  PROVE  Inv'
  <1> DEFINE step == FirstStep(r, "active")
  <1> DEFINE t == [Idle EXCEPT !.at = step, !.inline = TRUE, !.row = "active"]
  <1>1. /\ status[r] = "absent" /\ task[r].at = "idle" /\ ~Taken(r)
        /\ \A q \in Inline : NameOf[q] # NameOf[r]
        /\ task' = [task EXCEPT ![r] = t] /\ UNCHANGED <<database, keycloak, queued, gc>>
    BY DEF Insert, At
  <1>2. step \in {"tenant", "stored"} /\ (step = "stored" => r \notin Users)
    BY DEF FirstStep
  <1>3. t \in Task /\ t.at = step /\ t.inline = TRUE /\ t.row = "active" /\ t.id = None
    <2>1. step \in Steps /\ "active" \in Status
      BY <1>2 DEF Steps, Status
    <2> HIDE DEF step
    <2> QED BY <2>1, IdleTask DEF Task
  <1>4. PICK k : k = t
    OBVIOUS
  <1> HIDE DEF t, step
  <1>5. TasksTyped' /\ task'[r] = k /\ \A q \in Rows \ {r} : task'[q] = task[q]
    BY <1>1, <1>3, <1>4, Known0 DEF TasksTyped
  <1>6. status' = status /\ pointer' = pointer /\ object' = object /\ top' = top /\ member' = member
    BY <1>1 DEF database, keycloak
  <1>7. ObjectsTyped' /\ ObjectStep
    BY <1>6, Known0, ObjectsStay DEF ObjectsTyped
  <1>8. Typed'
    BY <1>1, <1>5, <1>6, <1>7, Known0 DEF Typed, RowsTyped, CollectorsTyped
  <1>9. RowStep(r) /\ \A q \in Rows : RowStep(q)
    BY <1>3, <1>4, <1>5, <1>6 DEF RowStep, Known, Over, InlineNow
  <1>10. \A o \in Ids : ObjectOf(o)'
    BY <1>6, <1>9, ObjectsRest
  <1>11. r \notin queued /\ pointer[r] = None
    BY <1>1, Known0 DEF RowOf
  <1>12. RowOf(r)' /\ WorksOn(r)'
    BY <1>1, <1>2, <1>3, <1>4, <1>5, <1>6, <1>11 DEF RowOf, WorksOn, HasGroup, Writing, InlineNow
  <1>13. \A q \in Rows \ {r} : NameOf[q] = NameOf[r] => ~Live(q) /\ ~InlineNow(q)
    <2>1. \A q \in Rows \ {r} : NameOf[q] = NameOf[r] => ~Live(q)
      BY <1>1 DEF Taken, Live
    <2>2. \A q \in Rows : InlineNow(q) => q \in Inline
      BY DEF InlineNow, Inline
    <2> QED BY <1>1, <2>1, <2>2
  <1> QED BY <1>1, <1>5, <1>6, <1>7, <1>8, <1>9, <1>10, <1>12, <1>13, HandlerMoves

\* A row that is live is disabled, enabled or deleted, and enqueued.
LEMMA RowsChange ==
  ASSUME Inv, UNCHANGED <<task, pointer, keycloak, gc>>, status' \in [Rows -> Status],
         \A r \in Rows : \/ status'[r] = status[r]
                         \/ Live(r) /\ status'[r] \in {"active", "disabled", "deleted"},
         \A r \in queued' : r \in Rows /\ (r \in queued \/ status[r] \notin {"absent", "gone"})
  PROVE  Inv'
  <1>1. ObjectsTyped' /\ ObjectStep
    BY ObjectsStay DEF Inv, Typed, ObjectsTyped, keycloak
  <1>2. Typed'
    BY <1>1 DEF Inv, Typed, RowsTyped, TasksTyped, CollectorsTyped
  <1>3. \A r \in Rows : RowStep(r)
    BY DEF RowStep, Known, Over, InlineNow, Live
  <1>4. \A o \in Ids : ObjectOf(o)'
    BY <1>3, ObjectsRest DEF keycloak
  <1>5. \A r \in Rows : WorksOn(r)'
    BY <1>1, TaskRests
  <1>6. ASSUME NEW r \in Rows
        PROVE  RowOf(r)'
    <2>1. RowOf(r)
      BY Known0
    <2> QED BY <2>1 DEF RowOf, InlineNow, Live
  <1>7. NamesApart'
    <2>1. \A r \in Rows : (Live(r)' => Live(r)) /\ (InlineNow(r)' <=> InlineNow(r))
      BY DEF Live, InlineNow
    <2>2. NamesApart
      BY DEF Inv
    <2> QED BY <2>1, <2>2 DEF NamesApart
  <1>8. \A c \in Collectors : Collects(c)'
    BY <1>1, <1>3, CollectorRests
  <1> QED BY <1>2, <1>4, <1>5, <1>6, <1>7, <1>8 DEF Inv

LEMMA ChangeUserInv ==
  ASSUME Inv, NEW u \in Users, ChangeUser(u)
  PROVE  Inv'
  <1>1. PICK from \in SUBSET {"active", "disabled"}, to \in {"active", "disabled", "deleted"} :
          SetUser(u, from, to)
    BY DEF ChangeUser
  <1>2. /\ status[u] \in {"active", "disabled"} /\ status' = [status EXCEPT ![u] = to]
        /\ queued' = queued \cup {u} /\ UNCHANGED <<pointer, keycloak, task, gc>>
    BY <1>1 DEF SetUser
  <1>3. status \in [Rows -> Status] /\ queued \subseteq Rows /\ u \in Rows
    BY Facts DEF Inv, Typed, RowsTyped
  <1>4. status' \in [Rows -> Status] /\ \A r \in Rows : status'[r] = IF r = u THEN to ELSE status[r]
    BY <1>1, <1>2, <1>3 DEF Status
  <1> QED BY <1>1, <1>2, <1>3, <1>4, RowsChange DEF Live

LEMMA DeleteTenantInv ==
  ASSUME Inv, NEW t \in Tenants, DeleteTenant(t)
  PROVE  Inv'
  <1> DEFINE ended == {u \in UsersOf(t) : Live(u)}
  <1>1. /\ status[t] = "active" /\ UNCHANGED <<pointer, keycloak, task, gc>>
        /\ status' = [r \in Rows |-> IF r \in {t} \cup ended THEN "deleted" ELSE status[r]]
        /\ queued' = queued \cup {t} \cup ended
    BY DEF DeleteTenant
  <1>2. status \in [Rows -> Status] /\ queued \subseteq Rows /\ t \in Rows
    BY Facts DEF Inv, Typed, RowsTyped
  <1>3. \A r \in {t} \cup ended : r \in Rows /\ Live(r)
    BY <1>1, <1>2, Facts DEF UsersOf, Live
  <1> HIDE DEF ended
  <1>4. /\ status' \in [Rows -> Status]
        /\ \A r \in Rows : status'[r] = IF r \in {t} \cup ended THEN "deleted" ELSE status[r]
    BY <1>1, <1>2 DEF Status
  <1> QED BY <1>1, <1>2, <1>3, <1>4, RowsChange DEF Live

-----------------------------------------------------------------------------
(* Steps of the garbage collector                                          *)

LEMMA CollectorMoves ==
  ASSUME Inv, NEW c \in Collectors, NEW g \in Collector, gc' = [gc EXCEPT ![c] = g],
         UNCHANGED <<database, task>>, ObjectsTyped', ObjectStep, \A o \in Ids : ObjectOf(o)',
         \A r \in queued' : r \in Rows /\ (r \in queued \/ status[r] \notin {"absent", "gone"}),
         gc'[c] = g => Collects(c)'
  PROVE  Inv'
  <1>1. gc \in [Collectors -> Collector] /\ status' = status /\ pointer' = pointer /\ task' = task
    BY DEF Inv, Typed, CollectorsTyped, database
  <1>2. gc' \in [Collectors -> Collector] /\ gc'[c] = g /\ \A b \in Collectors \ {c} : gc'[b] = gc[b]
    BY <1>1
  <1>3. Typed'
    BY <1>1, <1>2 DEF Inv, Typed, RowsTyped, TasksTyped, CollectorsTyped
  <1>4. \A r \in Rows : RowStep(r)
    BY <1>1 DEF RowStep, Known, Over, InlineNow
  <1>5. \A r \in Rows : WorksOn(r)'
    BY <1>1, TaskRests
  <1>6. ASSUME NEW r \in Rows
        PROVE  RowOf(r)'
    <2>1. RowOf(r)
      BY Known0
    <2> QED BY <1>1, <2>1 DEF RowOf, InlineNow
  <1>7. NamesApart'
    <2>1. \A r \in Rows : (Live(r)' <=> Live(r)) /\ (InlineNow(r)' <=> InlineNow(r))
      BY <1>1 DEF Live, InlineNow
    <2>2. NamesApart
      BY DEF Inv
    <2> QED BY <2>1, <2>2 DEF NamesApart
  <1>8. \A b \in Collectors : Collects(b)'
    BY <1>2, <1>4, CollectorRests
  <1> QED BY <1>3, <1>5, <1>6, <1>7, <1>8 DEF Inv

\* Of what a collector knows nothing gets wrong that it forgets, or that it
\* keeps while nothing happens to the objects.
LEMMA CollectorLooks ==
  ASSUME Inv, NEW c \in Collectors, NEW g \in Collector, gc' = [gc EXCEPT ![c] = g],
         UNCHANGED <<database, keycloak, task>>,
         \A r \in queued' : r \in Rows /\ (r \in queued \/ status[r] \notin {"absent", "gone"}),
         g.at \in {"list", "judge"} => g.open = {},
         \A r \in g.open : Known(r) \/ InlineNow(r),
         \A e \in g.listed : Of(e[1], e[2]) /\ (Known(e[2]) \/ InlineNow(e[2])),
         \A o \in g.seen : \E r \in Rows : Of(o, r) /\ (Known(r) \/ r \in g.open),
         \A o \in g.remove : Forfeited(o)
  PROVE  Inv'
  <1>1. status' = status /\ task' = task /\ object' = object /\ top' = top /\ member' = member
    BY DEF database, keycloak
  <1>2. ObjectsTyped' /\ ObjectStep
    BY <1>1, ObjectsStay DEF Inv, Typed, ObjectsTyped
  <1>3. \A r \in Rows : RowStep(r)
    BY <1>1 DEF RowStep, Known, Over, InlineNow
  <1>4. \A o \in Ids : ObjectOf(o)'
    BY <1>1, <1>3, ObjectsRest
  <1>5. gc'[c] = g => Collects(c)'
    BY <1>1 DEF Collects, Forfeited, Of, Known, Over, InlineNow, Exists, Marker
  <1> QED BY <1>2, <1>4, <1>5, CollectorMoves

LEMMA Collecting ==
  ASSUME Inv, NEW c \in Collectors
  PROVE  /\ gc[c] \in Collector /\ Collects(c) /\ gc \in [Collectors -> Collector]
         /\ gc[c].listed \subseteq Ids \X Rows /\ gc[c].seen \subseteq Ids
         /\ gc[c].remove \subseteq Ids /\ gc[c].open \subseteq Rows /\ queued \subseteq Rows
  <1>1. gc[c] \in Collector /\ Collects(c) /\ gc \in [Collectors -> Collector] /\ queued \subseteq Rows
    BY DEF Inv, Typed, CollectorsTyped, RowsTyped
  <1> QED BY <1>1 DEF Collector

\* What it saw open is over when the next run starts: the row is there.
LEMMA ResyncInv ==
  ASSUME Inv, NEW c \in Collectors, Resync(c)
  PROVE  Inv'
  <1> DEFINE g == [gc[c] EXCEPT !.at = "list", !.open = {}]
  <1>1. /\ gc[c].open \cap Inline = {} /\ queued' = queued \cup Resynced
        /\ gc' = [gc EXCEPT ![c] = g] /\ UNCHANGED <<database, keycloak, task>>
    BY Collecting DEF Resync
  <1>2. g \in Collector /\ g.open = {}
    BY Collecting DEF Collector
  <1>3. g.listed = gc[c].listed /\ g.seen = gc[c].seen /\ g.remove = gc[c].remove
    BY Collecting DEF Collector
  <1>4. PICK k : k = g
    OBVIOUS
  <1> HIDE DEF g
  <1>5. \A r \in gc[c].open : Known(r)
    BY <1>1, Collecting DEF Collects, Inline, InlineNow
  <1>6. \A r \in queued' : r \in Rows /\ (r \in queued \/ status[r] \notin {"absent", "gone"})
    <2>1. \A r \in Resynced : r \in Rows /\ status[r] \notin {"absent", "gone"}
      BY Known0 DEF Resynced, RowOf, Live
    <2> QED BY <1>1, <2>1, Collecting
  <1>7. \A o \in k.seen : \E r \in Rows : Of(o, r) /\ (Known(r) \/ r \in k.open)
    BY <1>3, <1>4, <1>5, Collecting DEF Collects
  <1>8. /\ \A e \in k.listed : Of(e[1], e[2]) /\ (Known(e[2]) \/ InlineNow(e[2]))
        /\ \A o \in k.remove : Forfeited(o)
    BY <1>3, <1>4, Collecting DEF Collects
  <1> QED BY <1>1, <1>2, <1>4, <1>6, <1>7, <1>8, CollectorLooks

LEMMA ListInv ==
  ASSUME Inv, NEW c \in Collectors, List(c)
  PROVE  Inv'
  <1> DEFINE g == [gc[c] EXCEPT !.at = "judge", !.listed = Marked]
  <1>1. /\ gc[c].at = "list" /\ gc' = [gc EXCEPT ![c] = g]
        /\ UNCHANGED <<database, keycloak, queued, task>>
    BY Collecting DEF List
  <1>2. Marked \subseteq Ids \X Rows
    BY DEF Marked
  <1>3. g \in Collector /\ g.open = gc[c].open /\ g.listed = Marked /\ g.seen = gc[c].seen
        /\ g.remove = gc[c].remove
    BY <1>2, Collecting DEF Collector
  <1>4. PICK k : k = g
    OBVIOUS
  <1> HIDE DEF g
  <1>5. ASSUME NEW e \in Marked
        PROVE  Of(e[1], e[2]) /\ (Known(e[2]) \/ InlineNow(e[2]))
    <2>1. \E o \in Ids, r \in Rows : o = e[1] /\ r = e[2]
      BY <1>2, <1>5
    <2>2. PICK o \in Ids, r \in Rows : o = e[1] /\ r = e[2]
      BY <2>1
    <2>3. Marker(o) = r
      BY <1>5, <2>2 DEF Marked
    <2>4. Exists(o) /\ ObjectOf(o)
      BY <2>3, Existing, Known0 DEF Inv
    <2>5. Of(o, r) /\ (Known(r) \/ InlineNow(r))
      BY <2>3, <2>4 DEF ObjectOf, Of
    <2> QED BY <2>2, <2>5
  <1>6. k.open = {}
    BY <1>1, <1>3, <1>4, Collecting DEF Collects
  <1>7. /\ \A o \in k.seen : \E r \in Rows : Of(o, r) /\ (Known(r) \/ r \in k.open)
        /\ \A o \in k.remove : Forfeited(o)
        /\ \A e \in k.listed : Of(e[1], e[2]) /\ (Known(e[2]) \/ InlineNow(e[2]))
    BY <1>3, <1>4, <1>5, Collecting DEF Collects
  <1>8. \A r \in queued' : r \in Rows /\ (r \in queued \/ status[r] \notin {"absent", "gone"})
    BY <1>1, Collecting
  <1> QED BY <1>1, <1>3, <1>4, <1>6, <1>7, <1>8, CollectorLooks

\* An orphan is a listed object of a row that is not live.
LEMMA OrphansAre ==
  ASSUME NEW c \in Collectors, NEW kind
  PROVE  Orphans(c, kind) \subseteq {e \in gc[c].listed : ~Live(e[2])}
  BY DEF Orphans, Sane

\* An orphan that was seen before: its row was known then, so that it is over
\* now, whatever row of the name the object belongs to.
LEMMA JudgeInv ==
  ASSUME Inv, NEW c \in Collectors, Judge(c)
  PROVE  Inv'
  <1> DEFINE orphans == {e[1] : e \in OrphanUsers(c) \cup OrphanGroups(c)}
  <1> DEFINE g == [at |-> "remove", listed |-> {}, seen |-> orphans,
                   remove |-> Confirmed(c, orphans), open |-> Inline]
  <1>1. /\ gc[c].at = "judge" /\ gc' = [gc EXCEPT ![c] = g]
        /\ UNCHANGED <<database, keycloak, queued, task>>
    BY DEF Judge
  <1>2. \A o \in orphans : \E r \in Rows :
          o \in Ids /\ Of(o, r) /\ (Known(r) \/ InlineNow(r)) /\ ~Live(r)
    <2>1. ASSUME NEW e \in OrphanUsers(c) \cup OrphanGroups(c)
          PROVE  \E r \in Rows : e[1] \in Ids /\ Of(e[1], r) /\ (Known(r) \/ InlineNow(r)) /\ ~Live(r)
      <3>1. e \in gc[c].listed /\ ~Live(e[2])
        BY <2>1, OrphansAre DEF OrphanUsers, OrphanGroups
      <3>2. e[1] \in Ids /\ e[2] \in Rows
        BY <3>1, Collecting
      <3> QED BY <3>1, <3>2, Collecting DEF Collects
    <2> QED BY <2>1
  <1>3. orphans \subseteq Ids
    BY <1>2
  <1> HIDE DEF orphans
  <1>4. g \in Collector
    BY <1>3 DEF Collector, Confirmed, Inline
  <1>5. /\ g.at = "remove" /\ g.listed = {} /\ g.seen = orphans /\ g.open = Inline
        /\ g.remove = orphans \cap gc[c].seen
    BY DEF Confirmed
  <1>6. PICK k : k = g
    OBVIOUS
  <1> HIDE DEF g
  <1>7. \A o \in k.seen : \E r \in Rows : Of(o, r) /\ (Known(r) \/ r \in k.open)
    BY <1>2, <1>5, <1>6 DEF Inline, InlineNow
  <1>8. \A r \in k.open : Known(r) \/ InlineNow(r)
    BY <1>5, <1>6 DEF Inline, InlineNow
  <1>9. ASSUME NEW o \in k.remove
        PROVE  Forfeited(o)
    <2>1. o \in orphans /\ o \in gc[c].seen
      BY <1>5, <1>6, <1>9
    <2>2. PICK r \in Rows : o \in Ids /\ Of(o, r) /\ (Known(r) \/ InlineNow(r)) /\ ~Live(r)
      BY <1>2, <2>1
    <2>3. PICK q \in Rows : Of(o, q) /\ Known(q)
      BY <1>1, <2>1, Collecting DEF Collects
    <2>4. ASSUME Exists(o), ~Over(r), ~Over(q)
          PROVE  FALSE
      <3>1. InlineNow(r) /\ Live(q)
        BY <2>2, <2>3, <2>4, Known0 DEF Known, Over, Live, Status
      <3>2. NameOf[r] = NameOf[q]
        BY <2>2, <2>3, <2>4 DEF Of
      <3>3. r = q
        BY <3>1, <3>2 DEF Inv, NamesApart
      <3> QED BY <2>2, <3>1, <3>3
    <2> QED BY <2>2, <2>3, <2>4 DEF Forfeited, Of
  <1> QED BY <1>1, <1>4, <1>5, <1>6, <1>7, <1>8, <1>9, Collecting, CollectorLooks

LEMMA RemoveInv ==
  ASSUME Inv, NEW c \in Collectors, Remove(c)
  PROVE  Inv'
  <1>1. gc[c].at = "remove" /\ UNCHANGED <<database, top, queued, task>>
    BY DEF Remove
  <1>2. ASSUME NEW o \in gc[c].remove, object' = [object EXCEPT ![o] = NoObject],
               member' = Without(o), gc' = [gc EXCEPT ![c].remove = @ \ {o}, ![c].seen = @ \ {o}]
        PROVE  Inv'
    <2> DEFINE g == [gc[c] EXCEPT !.remove = @ \ {o}, !.seen = @ \ {o}]
    <2>1. gc' = [gc EXCEPT ![c] = g]
      BY <1>2, Collecting
    <2>2. /\ g \in Collector /\ g.at = gc[c].at /\ g.listed = gc[c].listed /\ g.open = gc[c].open
          /\ g.seen \subseteq gc[c].seen /\ g.remove \subseteq gc[c].remove
      BY Collecting DEF Collector
    <2>3. PICK k : k = g
      OBVIOUS
    <2> HIDE DEF g
    <2>4. o \in Ids /\ task' = task /\ status' = status
      BY <1>1, <1>2, Collecting DEF database
    <2>5. member' \subseteq Ids \X Ids
      BY <1>2 DEF Without, Inv, Typed, ObjectsTyped
    <2>6. \A r \in Rows : RowStep(r)
      BY <2>4 DEF RowStep, Known, Over, InlineNow
    <2>7. PICK x \in Objects \cup {NoObject} : x = NoObject
      OBVIOUS
    <2>8. ObjectsTyped' /\ ObjectStep /\ \A p \in Ids : ObjectOf(p)'
      BY <1>1, <1>2, <2>4, <2>5, <2>6, <2>7, ObjectWritten
    <2>9. gc'[c] = k => Collects(c)'
      BY <2>2, <2>3, <2>6, <2>8, CollectorForgets
    <2>10. \A r \in queued' : r \in Rows /\ (r \in queued \/ status[r] \notin {"absent", "gone"})
      BY <1>1, Collecting
    <2> QED BY <1>1, <2>1, <2>2, <2>3, <2>8, <2>9, <2>10, CollectorMoves
  <1>3. ASSUME gc' = [gc EXCEPT ![c].at = "idle"], UNCHANGED <<object, member>>
        PROVE  Inv'
    <2> DEFINE g == [gc[c] EXCEPT !.at = "idle"]
    <2>1. gc' = [gc EXCEPT ![c] = g]
      BY <1>3, Collecting
    <2>2. /\ g \in Collector /\ g.at = "idle" /\ g.listed = gc[c].listed /\ g.open = gc[c].open
          /\ g.seen = gc[c].seen /\ g.remove = gc[c].remove
      BY Collecting DEF Collector
    <2>3. PICK k : k = g
      OBVIOUS
    <2> HIDE DEF g
    <2>4. \A r \in queued' : r \in Rows /\ (r \in queued \/ status[r] \notin {"absent", "gone"})
      BY <1>1, Collecting
    <2>5. UNCHANGED keycloak
      BY <1>1, <1>3 DEF keycloak
    <2> QED BY <1>1, <2>1, <2>2, <2>3, <2>4, <2>5, Collecting, CollectorLooks DEF Collects
  <1> QED BY <1>2, <1>3 DEF Remove

LEMMA CollectionFailsInv ==
  ASSUME Inv, NEW c \in Collectors, CollectionFails(c)
  PROVE  Inv'
  <1>1. PICK seen \in {gc[c].seen, {}} :
          gc' = [gc EXCEPT ![c] = [NotCollecting EXCEPT !.seen = seen, !.open = gc[c].open]]
    BY DEF CollectionFails
  <1> DEFINE g == [NotCollecting EXCEPT !.seen = seen, !.open = gc[c].open]
  <1>2. /\ g \in Collector /\ g.at = "idle" /\ g.listed = {} /\ g.seen = seen /\ g.remove = {}
        /\ g.open = gc[c].open
    BY Collecting DEF Collector, NotCollecting
  <1>3. PICK k : k = g
    OBVIOUS
  <1>4. gc' = [gc EXCEPT ![c] = g] /\ UNCHANGED <<database, keycloak, queued, task>>
    BY <1>1 DEF CollectionFails
  <1> HIDE DEF g
  <1>5. \A r \in queued' : r \in Rows /\ (r \in queued \/ status[r] \notin {"absent", "gone"})
    BY <1>4, Collecting
  <1> QED BY <1>2, <1>3, <1>4, <1>5, Collecting, CollectorLooks DEF Collects

-----------------------------------------------------------------------------
(* All steps                                                               *)

LEMMA StutterInv ==
  ASSUME Inv, UNCHANGED vars
  PROVE  Inv'
  <1>1. UNCHANGED <<database, keycloak, queued, task, gc>>
    BY DEF vars
  <1> QED BY <1>1 DEF database, keycloak, Inv, Typed, RowsTyped, ObjectsTyped, TasksTyped,
       CollectorsTyped, ObjectOf, RowOf, WorksOn, HasGroup, Writing, NamesApart, Collects, Forfeited,
       Of, Known, InlineNow, Over, Live, Exists, Marker

LEMMA HandleInv ==
  ASSUME Inv, NEW r \in Rows, Handle(r)
  PROVE  Inv'
  <1>1. CASE Read(r) \/ Stored(r) \/ ByName(r) \/ Owner(r) \/ Commit(r)
    BY <1>1, ReadInv, StoredInv, ByNameInv, OwnerInv, CommitInv
  <1>2. CASE r \in Users /\ (DesiredGroup(r) \/ CreateUser(r) \/ UpdateUser(r))
    BY <1>2, DesiredGroupInv, CreateInv, UpdateInv DEF CreateUser, UpdateUser
  <1>3. CASE r \in Users /\ (AssertMarker(r) \/ GetGroups(r) \/ Leave(r) \/ Join(r))
    BY <1>3, AssertMarkerInv, GetGroupsInv, LeaveInv, JoinInv
  <1>4. CASE r \in Users /\ (SyncRoles(r) \/ SetKeycloakUserId(r) \/ RemoveUser(r))
    BY <1>4, SyncRolesInv, StoreInv, DeleteInv, ClearInv DEF SetKeycloakUserId, RemoveUser
  <1>5. CASE r \in Tenants /\ (CreateGroup(r) \/ UpdateGroup(r))
    BY <1>5, CreateInv, UpdateInv DEF CreateGroup, UpdateGroup
  <1>6. CASE r \in Tenants /\ (SetKeycloakGroupId(r) \/ RemoveGroup(r))
    BY <1>6, StoreInv, DeleteInv, ClearInv DEF SetKeycloakGroupId, RemoveGroup
  <1> QED BY <1>1, <1>2, <1>3, <1>4, <1>5, <1>6 DEF Handle

LEMMA NextInv ==
  ASSUME Inv, [Next]_vars
  PROVE  Inv'
  <1>1. ASSUME NEW r \in Rows, Fail(r)
        PROVE  Inv'
    BY <1>1, ThrowInv DEF Fail, At
  <1>2. ASSUME NEW c \in Collectors, Collect(c)
        PROVE  Inv'
    BY <1>2, ResyncInv, ListInv, JudgeInv, RemoveInv DEF Collect
  <1>3. ASSUME NEW r \in Rows, Insert(r) \/ Handle(r)
        PROVE  Inv'
    BY <1>3, InsertInv, HandleInv
  <1>4. ASSUME NEW u \in Users, ChangeUser(u)
        PROVE  Inv'
    BY <1>4, ChangeUserInv
  <1>5. ASSUME NEW t \in Tenants, DeleteTenant(t)
        PROVE  Inv'
    BY <1>5, DeleteTenantInv
  <1>6. ASSUME NEW c \in Collectors, CollectionFails(c)
        PROVE  Inv'
    BY <1>6, CollectionFailsInv
  <1> QED BY <1>1, <1>2, <1>3, <1>4, <1>5, <1>6, StutterInv DEF Next

\* Ids have been given out from 1 on, to rows with a name of their own.
LEMMA InitInv == Init => Inv
  <1> SUFFICES ASSUME Init
               PROVE  Inv
    OBVIOUS
  <1> DEFINE n == Cardinality(Present)
  <1>1. PICK id \in [Present -> 1..n] :
          /\ \A q, r \in Present : id[q] = id[r] => q = r
          /\ status = [r \in Rows |-> IF r \in Present THEN "active" ELSE "absent"]
          /\ pointer = [r \in Rows |-> IF r \in Present THEN id[r] ELSE None]
          /\ object = [o \in Ids |->
               IF \E r \in Present : id[r] = o
                 THEN LET r == CHOOSE r \in Present : id[r] = o
                      IN [marker |-> r, enabled |-> TRUE, role |-> IF r \in Users THEN r ELSE "none"]
                 ELSE NoObject]
          /\ member = {<<id[u], id[TenantOf[u]]>> : u \in Present \cap Users}
          /\ top = n /\ queued = {}
          /\ task = [r \in Rows |-> Idle]
          /\ gc = [c \in Collectors |-> NotCollecting]
    BY DEF Init
  <1>2. n \in Nat /\ 1..n \subseteq Ids /\ Present \subseteq Rows
    BY KeycloakAssumption, FS_CardinalityType DEF Rows
  <1> HIDE DEF n
  <1>3. \A r \in Present : id[r] \in Ids /\ id[r] <= n
    BY <1>1, <1>2
  <1>4. RowsTyped
    BY <1>1, <1>3 DEF RowsTyped, Status
  <1>5. ASSUME NEW o \in Ids
        PROVE  \/ object[o] = NoObject
               \/ object[o] \in Objects /\ object[o].marker \in Present /\ id[object[o].marker] = o
    <2>1. CASE \E r \in Present : id[r] = o
      <3> DEFINE r == CHOOSE r \in Present : id[r] = o
      <3>1. r \in Present /\ id[r] = o /\ r \in Rows
        BY <1>2, <2>1
      <3>2. object[o] = [marker |-> r, enabled |-> TRUE, role |-> IF r \in Users THEN r ELSE "none"]
        BY <1>1, <2>1
      <3> HIDE DEF r
      <3>3. object[o] \in Objects
        BY <3>1, <3>2 DEF Objects
      <3> QED BY <3>1, <3>2, <3>3
    <2>2. CASE ~ \E r \in Present : id[r] = o
      BY <1>1, <2>2
    <2> QED BY <2>1, <2>2
  <1>6. ObjectsTyped
    <2>1. object \in [Ids -> Objects \cup {NoObject}]
      <3>1. object = [o \in Ids |-> object[o]]
        BY <1>1
      <3> QED BY <1>5, <3>1
    <2>2. \A u \in Present \cap Users : u \in Present /\ TenantOf[u] \in Present
      BY KeycloakAssumption
    <2>3. member \subseteq Ids \X Ids
      BY <1>1, <1>3, <2>2
    <2>4. top \in Ids \cup {0}
      BY <1>1, <1>2
    <2> QED BY <2>1, <2>3, <2>4 DEF ObjectsTyped
  <1>7. TasksTyped /\ \A r \in Rows : task[r] = Idle
    BY <1>1, IdleTask DEF TasksTyped
  <1>8. NotCollecting \in Collector
    BY DEF NotCollecting, Collector
  <1>9. CollectorsTyped /\ \A c \in Collectors : gc[c] = NotCollecting
    BY <1>1, <1>8 DEF CollectorsTyped
  <1>10. ASSUME NEW o \in Ids, Exists(o)
         PROVE  o <= top /\ Marker(o) \in Rows /\ Known(Marker(o))
    <2>1. object[o].marker \in Present /\ id[object[o].marker] = o
      BY <1>5, <1>10 DEF Exists
    <2> QED BY <1>1, <1>2, <1>3, <2>1 DEF Marker, Known
  <1>11. ASSUME NEW r \in Rows
         PROVE  RowOf(r) /\ WorksOn(r)
    <2>1. RowOf(r)
      BY <1>1, <1>3, <1>7, IdleTask, Facts DEF RowOf, InlineNow
    <2>2. WorksOn(r)
      BY <1>7, IdleTask DEF WorksOn, HasGroup, Writing
    <2> QED BY <2>1, <2>2
  <1>12. NamesApart
    <2>1. \A r \in Rows : Live(r) \/ InlineNow(r) => r \in Present
      BY <1>1, <1>7, IdleTask DEF Live, InlineNow
    <2> QED BY <2>1, KeycloakAssumption DEF NamesApart
  <1>13. ASSUME NEW c \in Collectors
         PROVE  Collects(c)
    BY <1>9 DEF Collects, NotCollecting
  <1> QED BY <1>4, <1>6, <1>7, <1>9, <1>10, <1>11, <1>12, <1>13 DEF Inv, Typed, ObjectOf

\* Every request of the domain services and every failure is counted.
LEMMA Counted ==
  ASSUME [Next]_vars
  PROVE  \/ UNCHANGED <<changes, fails>>
         \/ changes < MaxChanges /\ changes' = changes + 1 /\ UNCHANGED fails
         \/ fails < MaxFails /\ fails' = fails + 1 /\ UNCHANGED changes
  <1>1. ASSUME NEW r \in Rows, Handle(r)
        PROVE  UNCHANGED <<changes, fails>>
    <2>1. CASE Read(r) \/ Stored(r) \/ ByName(r) \/ Owner(r) \/ Commit(r)
      BY <2>1 DEF Read, Stored, ByName, Owner, Commit
    <2>2. CASE \E next \in Steps : Create(r, next) \/ \E step \in Steps : Update(r, step, next)
      BY <2>2 DEF Create, Update
    <2>3. CASE CreateUser(r) \/ CreateGroup(r) \/ UpdateUser(r) \/ UpdateGroup(r)
      BY <2>3 DEF CreateUser, CreateGroup, UpdateUser, UpdateGroup, Create, Update
    <2>4. CASE DesiredGroup(r) \/ AssertMarker(r) \/ GetGroups(r) \/ Leave(r) \/ Join(r) \/ SyncRoles(r)
      BY <2>4 DEF DesiredGroup, AssertMarker, GetGroups, Leave, Join, SyncRoles
    <2>5. CASE SetKeycloakUserId(r) \/ SetKeycloakGroupId(r) \/ RemoveUser(r) \/ RemoveGroup(r)
      BY <2>5 DEF SetKeycloakUserId, SetKeycloakGroupId, StoreIn, RemoveUser, RemoveGroup, Delete, Clear
    <2> QED BY <1>1, <2>1, <2>3, <2>4, <2>5 DEF Handle
  <1>2. ASSUME NEW r \in Rows, Insert(r) \/ Fail(r)
        PROVE  \/ changes < MaxChanges /\ changes' = changes + 1 /\ UNCHANGED fails
               \/ fails < MaxFails /\ fails' = fails + 1 /\ UNCHANGED changes
    BY <1>2 DEF Insert, Fail, Bounded
  <1>3. ASSUME NEW u \in Users, ChangeUser(u)
        PROVE  changes < MaxChanges /\ changes' = changes + 1 /\ UNCHANGED fails
    BY <1>3 DEF ChangeUser, SetUser, Bounded
  <1>4. ASSUME NEW t \in Tenants, DeleteTenant(t)
        PROVE  changes < MaxChanges /\ changes' = changes + 1 /\ UNCHANGED fails
    BY <1>4 DEF DeleteTenant, Bounded
  <1>5. ASSUME NEW c \in Collectors, Collect(c)
        PROVE  UNCHANGED <<changes, fails>>
    BY <1>5 DEF Collect, Resync, List, Judge, Remove
  <1>6. ASSUME NEW c \in Collectors, CollectionFails(c)
        PROVE  fails < MaxFails /\ fails' = fails + 1 /\ UNCHANGED changes
    BY <1>6 DEF CollectionFails
  <1>7. CASE UNCHANGED vars
    BY <1>7 DEF vars
  <1> QED BY <1>1, <1>2, <1>3, <1>4, <1>5, <1>6, <1>7 DEF Next

LEMMA InvHolds == Spec => []Inv
  BY InitInv, NextInv, PTL DEF Spec

-----------------------------------------------------------------------------
(* Theorems                                                                *)

\* Every variable has its type: whatever the interleaving of the handlers, the
\* collectors and the domain services, a handler knows one row and one object.
THEOREM TypeCorrect == Spec => []TypeOK
  <1>1. Init => BoundsTyped
    BY KeycloakAssumption DEF Init, BoundsTyped
  <1>2. BoundsTyped /\ [Next]_vars => BoundsTyped'
    BY KeycloakAssumption, Counted DEF BoundsTyped
  <1>3. Inv /\ BoundsTyped => TypeOK
    BY TypeParts DEF Inv
  <1> QED BY <1>1, <1>2, <1>3, InvHolds, PTL DEF Spec

\* Only a handler of a deleted row and a collector delete an object;
LEMMA OthersKeep ==
  ASSUME Inv, [Next]_vars, NEW o \in Ids, Exists(o), ~Exists(o)'
  PROVE  \/ \E r \in Rows : Delete(r) /\ o = task[r].id
         \/ \E c \in Collectors : o \in gc[c].remove
  <1>1. Exists(o) /\ object' = object => Exists(o)'
    BY DEF Exists
  <1>2. ASSUME NEW r \in Rows, Handle(r)
        PROVE  Delete(r) /\ o = task[r].id
    <2>1. CASE Read(r) \/ Stored(r) \/ ByName(r) \/ Owner(r) \/ Commit(r)
      BY <1>1, <2>1 DEF Read, Stored, ByName, Owner, Commit, keycloak
    <2>2. CASE DesiredGroup(r) \/ AssertMarker(r) \/ GetGroups(r) \/ Leave(r) \/ Join(r)
      BY <1>1, <2>2 DEF DesiredGroup, AssertMarker, GetGroups, Leave, Join, keycloak
    <2>3. CASE SetKeycloakUserId(r) \/ SetKeycloakGroupId(r) \/ Clear(r)
      BY <1>1, <2>3 DEF SetKeycloakUserId, SetKeycloakGroupId, StoreIn, Clear, keycloak
    <2>4. CASE \E next : Create(r, next)
      <3>1. object' = [object EXCEPT ![top + 1] =
                         [marker |-> r, enabled |-> Enabled(r), role |-> "none"]]
        BY <1>1, <2>4 DEF Create
      <3>2. object \in [Ids -> Objects \cup {NoObject}] /\ NoObject.marker = "none" /\ r # "none"
        BY Facts DEF Inv, Typed, ObjectsTyped, NoObject
      <3> QED BY <1>1, <3>1, <3>2 DEF Exists
    <2>5. CASE \E step, next : Update(r, step, next)
      <3>1. object' = [object EXCEPT ![task[r].id] =
                         [@ EXCEPT !.marker = r, !.enabled = Enabled(r)]]
        BY <1>1, <2>5 DEF Update
      <3>2. object \in [Ids -> Objects \cup {NoObject}] /\ NoObject.marker = "none" /\ r # "none"
        BY Facts DEF Inv, Typed, ObjectsTyped, NoObject
      <3>3. object[o] \in Objects
        BY <3>2 DEF Exists
      <3> QED BY <1>1, <3>1, <3>2, <3>3 DEF Exists, Objects
    <2>6. CASE SyncRoles(r)
      <3>1. /\ object' = [object EXCEPT ![task[r].id] = RightRoles(task[r].id, r)]
            /\ Exists(task[r].id)
        BY <1>1, <2>6 DEF SyncRoles
      <3>2. object \in [Ids -> Objects \cup {NoObject}] /\ NoObject.marker = "none"
        BY Facts DEF Inv, Typed, ObjectsTyped, NoObject
      <3>3. object[o] \in Objects /\ object[o].marker # "none"
        BY <3>2, Facts DEF Exists, Objects
      <3> QED BY <1>1, <3>1, <3>2, <3>3 DEF Exists, Objects, RightRoles
    <2>7. CASE Delete(r)
      <3>1. object' = [object EXCEPT ![task[r].id] = NoObject]
        BY <2>7 DEF Delete
      <3>2. object \in [Ids -> Objects \cup {NoObject}]
        BY DEF Inv, Typed, ObjectsTyped
      <3> QED BY <2>7, <3>1, <3>2 DEF Exists
    <2> QED BY <1>2, <2>1, <2>2, <2>3, <2>4, <2>5, <2>6, <2>7
         DEF Handle, CreateUser, CreateGroup, UpdateUser, UpdateGroup, RemoveUser, RemoveGroup
  <1>3. ASSUME NEW c \in Collectors, Collect(c) \/ CollectionFails(c)
        PROVE  o \in gc[c].remove
    <2>1. CASE Resync(c) \/ List(c) \/ Judge(c) \/ CollectionFails(c)
      BY <1>1, <2>1 DEF Resync, List, Judge, CollectionFails, keycloak
    <2>2. CASE Remove(c)
      <3>1. PICK p \in gc[c].remove : object' = [object EXCEPT ![p] = NoObject]
        BY <1>1, <2>2 DEF Remove
      <3>2. object \in [Ids -> Objects \cup {NoObject}]
        BY DEF Inv, Typed, ObjectsTyped
      <3> QED BY <3>1, <3>2 DEF Exists
    <2> QED BY <1>3, <2>1, <2>2 DEF Collect
  <1>4. ASSUME NEW r \in Rows, Insert(r) \/ Fail(r)
        PROVE  FALSE
    BY <1>1, <1>4 DEF Insert, Fail, keycloak
  <1>5. ASSUME NEW u \in Users, ChangeUser(u)
        PROVE  FALSE
    BY <1>1, <1>5 DEF ChangeUser, SetUser, keycloak
  <1>6. ASSUME NEW t \in Tenants, DeleteTenant(t)
        PROVE  FALSE
    BY <1>1, <1>6 DEF DeleteTenant, keycloak
  <1>7. CASE UNCHANGED vars
    BY <1>1, <1>7 DEF vars, keycloak
  <1> QED BY <1>2, <1>3, <1>4, <1>5, <1>6, <1>7 DEF Next

\* what they delete is of the name of a row that is over.
LEMMA OnlyOfTheOver ==
  ASSUME Inv, [Next]_vars, NEW o \in Ids, Exists(o), ~Exists(o)'
  PROVE  \E r \in Rows : Of(o, r) /\ Over(r)
  <1>1. CASE \E r \in Rows : Delete(r) /\ o = task[r].id
    <2>1. PICK r \in Rows : Delete(r) /\ o = task[r].id
      BY <1>1
    <2>2. Of(task[r].id, r) /\ Over(r)
      BY <2>1, Known0, Facts DEF Delete, At, WorksOn, RowOf, Over
    <2> QED BY <2>1, <2>2
  <1>2. CASE \E c \in Collectors : o \in gc[c].remove
    BY <1>2, Collecting DEF Collects, Forfeited
  <1> QED BY <1>1, <1>2, OthersKeep

\* A step of KeepsLive.
LiveKept ==
  \A o \in Ids :
    Exists(o) /\ ~Exists(o)' /\ Live(Marker(o)) => NameReused(Marker(o))

\* As long as its name is its own, a live row keeps its group or account: a
\* collector removes only what it has seen under a row that was there before
\* and is over, so that no inline creation is taken for an orphan, and a
\* handler deletes only the object of a row that is deleted.
THEOREM LiveRowsKeepTheirObjects == Spec => KeepsLive
  <1>1. Inv /\ [Next]_vars => [LiveKept]_vars
    <2> SUFFICES ASSUME Inv, [Next]_vars, NEW o \in Ids, Exists(o), ~Exists(o)', Live(Marker(o))
                 PROVE  NameReused(Marker(o))
      BY DEF LiveKept
    <2>1. PICK r \in Rows : Of(o, r) /\ Over(r)
      BY OnlyOfTheOver
    <2>2. Marker(o) # r /\ NameOf[r] = NameOf[Marker(o)] /\ status[r] # "absent"
      BY <2>1 DEF Of, Over, Live
    <2> QED BY <2>1, <2>2 DEF NameReused
  <1>2. KeepsLive <=> [][LiveKept]_vars
    BY PTL DEF KeepsLive, LiveKept
  <1> QED BY <1>1, <1>2, InvHolds, PTL DEF Spec
-----------------------------------------------------------------------------
(* What handlers leave behind.  The objects Keycloak has under the name of a *)
(* row are as the row says, once nothing is pending for it.                  *)

\* The objects made or taken for a row; its insert is committed.
Mine(r) == {o \in Ids : Marker(o) = r}
Committed(r) == status[r] \notin {"absent", "gone"}

\* Keycloak refuses a name that is taken.
OneOfAName ==
  \A o, p \in Ids : Exists(o) /\ Exists(p) /\ NameOf[Marker(o)] = NameOf[Marker(p)] => o = p

\* What a handler has found out, or done, about the objects of its row, and that
\* it works for the row as it is unless that is queued again.
Wrote == {"assertMarker", "groups", "leave", "join", "roles", "store", "commit"}
Knows(r) ==
  /\ task[r].at \in {"create", "owner", "adopt", "clear"} => Mine(r) = {}
  /\ task[r].at \in {"delete", "update"} => Mine(r) \subseteq {task[r].id}
  /\ task[r].at \in Wrote => \A o \in Mine(r) : (object[o].enabled <=> Enabled(r))
  /\ task[r].row = "deleted" => task[r].at \in {"stored", "byName", "delete", "clear"}
  /\ task[r].at # "idle" /\ ~InlineNow(r) /\ r \notin queued => task[r].row = status[r]

\* A row that is deleted has no object and no pointer, a live one has none that
\* is not enabled or disabled as it is.
AsItsRow(r) ==
  /\ \A o \in Mine(r) : Live(r) /\ (object[o].enabled <=> status[r] = "active")
  /\ status[r] = "deleted" => pointer[r] = None

AtRest(r) == Committed(r) /\ r \notin queued \cup Running

Left ==
  /\ OneOfAName
  /\ \A r \in Rows : Knows(r) /\ (AtRest(r) => AsItsRow(r))

\* Everybody else's objects stay what they are, or go, or are taken.
Fewer(r) == \A o \in Ids : Marker(o)' = r => Marker(o) = r /\ object'[o].enabled = object[o].enabled

LEMMA FewerMine ==
  ASSUME NEW r \in Rows, Fewer(r)
  PROVE  Mine(r)' \subseteq Mine(r) /\ \A o \in Mine(r)' : object'[o].enabled = object[o].enabled
  BY DEF Fewer, Mine

\* A row that nothing happens to.
LEMMA RowRests ==
  ASSUME Inv, Left, NEW r \in Rows, task'[r] = task[r], status'[r] = status[r],
         pointer'[r] = pointer[r], r \in queued => r \in queued', Fewer(r)
  PROVE  Knows(r)' /\ (AtRest(r)' => AsItsRow(r)')
  <1>1. Mine(r)' \subseteq Mine(r) /\ \A o \in Mine(r)' : object'[o].enabled = object[o].enabled
    BY FewerMine
  <1>2. Knows(r) /\ (AtRest(r) => AsItsRow(r))
    BY DEF Left
  <1>3. Knows(r)'
    <2>1. task[r].at \in {"create", "owner", "adopt", "clear"} => Mine(r)' = {}
      BY <1>1, <1>2 DEF Knows
    <2>2. task[r].at \in {"delete", "update"} => Mine(r)' \subseteq {task[r].id}
      BY <1>1, <1>2 DEF Knows
    <2>3. task[r].at \in Wrote => \A o \in Mine(r)' : object'[o].enabled <=> Enabled(r)
      BY <1>1, <1>2 DEF Knows
    <2> QED BY <1>2, <2>1, <2>2, <2>3 DEF Knows, Enabled, InlineNow
  <1>4. AtRest(r)' => AtRest(r)
    BY DEF AtRest, Committed, Running, At
  <1>5. AsItsRow(r) => AsItsRow(r)'
    BY <1>1 DEF AsItsRow, Live
  <1> QED BY <1>2, <1>3, <1>4, <1>5

\* A row that is queued, or not there, while its handler does nothing.
LEMMA RowWaits ==
  ASSUME Inv, Left, NEW r \in Rows, task'[r] = task[r], r \in queued', Fewer(r)
  PROVE  Knows(r)' /\ (AtRest(r)' => AsItsRow(r)')
  <1>1. Mine(r)' \subseteq Mine(r) /\ \A o \in Mine(r)' : object'[o].enabled = object[o].enabled
    BY FewerMine
  <1>2. Knows(r)
    BY DEF Left
  <1>3. Knows(r)'
    <2>1. task[r].at \in {"create", "owner", "adopt", "clear"} => Mine(r)' = {}
      BY <1>1, <1>2 DEF Knows
    <2>2. task[r].at \in {"delete", "update"} => Mine(r)' \subseteq {task[r].id}
      BY <1>1, <1>2 DEF Knows
    <2>3. task[r].at \in Wrote => \A o \in Mine(r)' : object'[o].enabled <=> Enabled(r)
      BY <1>1, <1>2 DEF Knows
    <2> QED BY <1>2, <2>1, <2>2, <2>3 DEF Knows, Enabled, InlineNow
  <1> QED BY <1>3 DEF AtRest

\* Of a name there is one object, as long as none is made or renamed.
LEMMA NameStays ==
  ASSUME Inv, Inv', Left,
         \A o \in Ids : Exists(o)' => Exists(o) /\ NameOf[Marker(o)]' = NameOf[Marker(o)]
  PROVE  OneOfAName'
  BY DEF Left, OneOfAName

\* A step of the handler of r is left to its row.
LEMMA HandlerLeaves ==
  ASSUME Inv, Left, NEW r \in Rows, OneOfAName',
         \A q \in Rows \ {r} : /\ task'[q] = task[q] /\ status'[q] = status[q]
                               /\ pointer'[q] = pointer[q] /\ (q \in queued => q \in queued')
                               /\ Fewer(q),
         Knows(r)', AtRest(r)' => AsItsRow(r)'
  PROVE  Left'
  <1>1. \A q \in Rows \ {r} : Knows(q)' /\ (AtRest(q)' => AsItsRow(q)')
    BY RowRests
  <1> QED BY <1>1 DEF Left

\* A handler that looks, or writes no object.
LEMMA LooksLeft ==
  ASSUME Inv, Inv', Left, NEW r \in Rows, NEW t \in Task, task' = [task EXCEPT ![r] = t],
         UNCHANGED <<status, pointer, object, queued>>, t.at # "idle",
         t.row = task[r].row, t.inline = task[r].inline, task[r].at # "idle",
         t.at \in {"create", "owner", "adopt", "clear"} => Mine(r) = {},
         t.at \in {"delete", "update"} => Mine(r) \subseteq {t.id},
         t.at \in Wrote => \A o \in Mine(r) : object[o].enabled <=> t.row = "active",
         t.row = "deleted" => t.at \in {"stored", "byName", "delete", "clear"}
  PROVE  Left'
  <1>1. task \in [Rows -> Task]
    BY Known0 DEF TasksTyped
  <1>2. task'[r] = t /\ \A q \in Rows \ {r} : task'[q] = task[q]
    BY <1>1
  <1>3. \A q : Fewer(q)
    BY DEF Fewer, Marker
  <1>4. OneOfAName'
    BY DEF Left, OneOfAName, Exists, Marker
  <1>5. Mine(r)' = Mine(r)
    BY DEF Mine, Marker
  <1>6. Knows(r)'
    BY <1>2, <1>5 DEF Left, Knows, Enabled, InlineNow
  <1>7. ~AtRest(r)'
    <2>1. InlineNow(r) => status[r] = "absent"
      BY DEF Inv, RowOf
    <2> QED BY <1>2, <2>1 DEF AtRest, Committed, Running, At, InlineNow
  <1> QED BY <1>2, <1>3, <1>4, <1>6, <1>7, HandlerLeaves

\* One that throws is queued again, or its row is gone.
LEMMA ThrowLeft ==
  ASSUME Inv, Inv', Left, NEW r \in Rows, Throw(r), UNCHANGED <<pointer, object>>
  PROVE  Left'
  <1>1. task \in [Rows -> Task] /\ status \in [Rows -> Status] /\ queued \subseteq Rows
    BY Known0 DEF TasksTyped, RowsTyped
  <1>2. /\ task'[r] = Idle /\ \A q \in Rows \ {r} : task'[q] = task[q] /\ status'[q] = status[q]
        /\ \A q \in Rows : q \in queued => q \in queued'
        /\ status'[r] = "gone" \/ r \in queued'
    BY <1>1 DEF Throw
  <1>3. \A q : Fewer(q)
    BY DEF Fewer, Marker
  <1>4. OneOfAName'
    BY DEF Left, OneOfAName, Exists, Marker
  <1>5. Knows(r)'
    BY <1>2, IdleTask DEF Knows, Wrote
  <1>6. ~AtRest(r)'
    BY <1>2 DEF AtRest, Committed
  <1> QED BY <1>2, <1>3, <1>4, <1>5, <1>6, HandlerLeaves

-----------------------------------------------------------------------------
\* A handler that is handed another step keeps what it knows.
LEMMA StepLeft ==
  ASSUME Inv, Inv', Left, NEW r \in Rows, NEW step \in Steps, Go(r, step),
         UNCHANGED <<status, pointer, object>>, step # "idle", task[r].at # "idle",
         step \in {"create", "owner", "adopt", "clear"} => Mine(r) = {},
         step \in {"delete", "update"} => Mine(r) \subseteq {task[r].id},
         step \in Wrote => \A o \in Mine(r) : object[o].enabled <=> Enabled(r),
         task[r].row = "deleted" => step \in {"stored", "byName", "delete", "clear"}
  PROVE  Left'
  <1>1. task' = [task EXCEPT ![r].at = step] /\ UNCHANGED queued
    BY DEF Go
  <1>2. PICK t \in Task : task' = [task EXCEPT ![r] = t] /\ t.at = step /\ Same(t, task[r])
    BY <1>1, Known0, TaskGoes
  <1> QED BY <1>1, <1>2, LooksLeft DEF Same, Enabled

LEMMA ReadLeft ==
  ASSUME Inv, Inv', Left, NEW r \in Rows, Read(r)
  PROVE  Left'
  <1>1. PICK t : t = [Idle EXCEPT !.at = FirstStep(r, status[r]), !.row = status[r],
                                  !.ptr = pointer[r]]
    OBVIOUS
  <1>2. /\ task' = [task EXCEPT ![r] = t] /\ queued' = queued \ {r}
        /\ UNCHANGED <<status, pointer, object>> /\ task \in [Rows -> Task] /\ At(r, "idle")
        /\ Committed(r)
    BY <1>1, Known0 DEF Read, database, keycloak, TasksTyped, Inv, RowOf, Committed
  <1>3. /\ t.at \in {"tenant", "stored"} /\ t.row = status[r] /\ t.inline = FALSE
        /\ t.row = "deleted" => t.at = "stored"
    BY <1>1 DEF Idle, FirstStep
  <1>4. task'[r] = t /\ \A q \in Rows \ {r} : task'[q] = task[q] /\ (q \in queued => q \in queued')
    BY <1>2
  <1>5. \A q : Fewer(q)
    BY <1>2 DEF Fewer, Marker
  <1>6. OneOfAName'
    BY <1>2 DEF Left, OneOfAName, Exists, Marker
  <1>7. Knows(r)'
    BY <1>2, <1>3, <1>4 DEF Knows, Wrote
  <1>8. ~AtRest(r)'
    BY <1>3, <1>4 DEF AtRest, Running, At
  <1> QED BY <1>2, <1>4, <1>5, <1>6, <1>7, <1>8, HandlerLeaves

LEMMA DesiredGroupLeft ==
  ASSUME Inv, Inv', Left, NEW u \in Rows, DesiredGroup(u)
  PROVE  Left'
  <1>1. task[u].at = "tenant" /\ UNCHANGED <<pointer, object>>
    BY DEF DesiredGroup, At, keycloak
  <1>2. CASE Throw(u)
    BY <1>1, <1>2, ThrowLeft
  <1>3. CASE ~Throw(u)
    <2>1. PICK t : t = [task[u] EXCEPT !.at = "stored", !.group = pointer[TenantOf[u]]]
      OBVIOUS
    <2>2. /\ task' = [task EXCEPT ![u] = t] /\ UNCHANGED <<status, queued>>
      BY <1>3, <2>1 DEF DesiredGroup
    <2>3. task'[u] = t /\ task' \in [Rows -> Task]
      BY <2>2, Known0 DEF TasksTyped, Inv, Typed
    <2>4. t \in Task
      BY <2>3
    <2>5. t.at = "stored" /\ t.row = task[u].row /\ t.inline = task[u].inline
      BY <2>1, Known0 DEF Task
    <2> QED BY <1>1, <2>2, <2>4, <2>5, LooksLeft DEF Wrote
  <1> QED BY <1>2, <1>3

\* The object that is found is the only one of its row.
LEMMA FindsLeft ==
  ASSUME Inv, Inv', Left, NEW r \in Rows, task[r].at \in {"stored", "byName"},
         NEW o \in Ids, Marker(o) = r, task' = [task EXCEPT ![r] = Found(r, o)],
         UNCHANGED <<database, object, queued>>
  PROVE  Left'
  <1>1. PICK t : t = Found(r, o)
    OBVIOUS
  <1>2. /\ t \in Task /\ t.id = o /\ t.at \in {"delete", "update", "groups", "store"}
        /\ t.at = "delete" <=> task[r].row = "deleted"
        /\ t.inline = task[r].inline /\ t.row = task[r].row
    BY <1>1, FoundIs
  <1>3. Mine(r) \subseteq {o}
    <2>1. \A p \in Ids : Marker(p) = r => Exists(p)
      BY Known0, Existing
    <2> QED BY <2>1 DEF Mine, Left, OneOfAName
  <1>4. t.at \in Wrote => (object[o].enabled <=> t.row = "active")
    <2>1. task[r] \in Task /\ object[o] \in Objects
      BY Known0, Existing
    <2>2. object[o].enabled \in BOOLEAN
      BY <2>1 DEF Objects
    <2>3. t.at = IF task[r].row = "deleted" THEN "delete"
                 ELSE IF object[o].enabled # Enabled(r) THEN "update" ELSE InPlace(r)
      BY <1>1, <2>1 DEF Found, Task
    <2>4. CASE object[o].enabled # Enabled(r)
      BY <2>3, <2>4 DEF Wrote
    <2>5. CASE object[o].enabled = Enabled(r)
      BY <1>2, <2>5, Zenon DEF Enabled
    <2> QED BY <2>4, <2>5
  <1>5. task' = [task EXCEPT ![r] = t]
    BY <1>1
  <1>6. t.at \in Wrote => \A p \in Mine(r) : object[p].enabled <=> t.row = "active"
    BY <1>3, <1>4
  <1>7. /\ UNCHANGED <<status, pointer, object, queued>> /\ task[r].at # "idle"
        /\ t.at # "idle" /\ t.at \notin {"create", "owner", "adopt", "clear"}
        /\ t.row = "deleted" => t.at = "delete"
    BY <1>2 DEF database
  <1> QED BY <1>2, <1>3, <1>5, <1>6, <1>7, LooksLeft

LEMMA StoredLeft ==
  ASSUME Inv, Inv', Left, NEW r \in Rows, Stored(r)
  PROVE  Left'
  <1>1. task[r].at = "stored" /\ UNCHANGED <<database, object>>
    BY DEF Stored, At, keycloak
  <1>2. CASE StillMine(r)
    <2>1. task[r].ptr \in Ids /\ Marker(task[r].ptr) = r
      BY <1>2, Known0 DEF StillMine
    <2>2. task' = [task EXCEPT ![r] = Found(r, task[r].ptr)] /\ UNCHANGED queued
      BY <1>2 DEF Stored
    <2> QED BY <1>1, <2>1, <2>2, FindsLeft
  <1>3. CASE ~StillMine(r)
    <2>1. Go(r, "byName") /\ "byName" \in Steps
      BY <1>3 DEF Stored, Steps
    <2> QED BY <1>1, <2>1, StepLeft DEF Wrote, database
  <1> QED BY <1>2, <1>3

\* If the name has no object, or another row's, the row has none.
LEMMA NoneMine ==
  ASSUME Inv, Left, NEW r \in Rows, Named(r) = {} \/ \E o \in Named(r) : Marker(o) # r
  PROVE  Mine(r) = {}
  <1> SUFFICES ASSUME NEW p \in Ids, Marker(p) = r PROVE FALSE
    BY DEF Mine
  <1>1. Exists(p) /\ p \in Named(r)
    BY Known0, Existing DEF Named
  <1>2. PICK o \in Named(r) : Marker(o) # r
    BY <1>1
  <1> QED BY <1>1, <1>2 DEF Named, Left, OneOfAName

LEMMA ByNameLeft ==
  ASSUME Inv, Inv', Left, NEW r \in Rows, ByName(r)
  PROVE  Left'
  <1>1. task[r].at = "byName" /\ UNCHANGED <<database, object, status, pointer>>
    BY DEF ByName, At, keycloak, database
  <1>2. CASE Named(r) = {} /\ Go(r, IF task[r].row = "deleted" THEN "clear" ELSE "create")
    <2>1. Mine(r) = {}
      BY <1>2, NoneMine
    <2>2. "clear" \in Steps /\ "create" \in Steps
      BY DEF Steps
    <2>3. CASE task[r].row = "deleted"
      BY <1>1, <1>2, <2>1, <2>2, <2>3, StepLeft DEF Wrote
    <2>4. CASE task[r].row # "deleted"
      BY <1>1, <1>2, <2>1, <2>2, <2>4, StepLeft DEF Wrote
    <2> QED BY <2>3, <2>4
  <1>3. CASE \E o \in Named(r) :
               /\ task' = [task EXCEPT ![r] =
                    IF task[r].row = "deleted" THEN NamedForDelete(r, o) ELSE NamedForWrite(r, o)]
               /\ UNCHANGED queued
    <2>1. PICK o \in Named(r) :
               /\ task' = [task EXCEPT ![r] =
                    IF task[r].row = "deleted" THEN NamedForDelete(r, o) ELSE NamedForWrite(r, o)]
               /\ UNCHANGED queued
      BY <1>3
    <2>2. o \in Ids
      BY DEF Named
    <2>3. CASE Marker(o) = r
      <3>1. task' = [task EXCEPT ![r] = Found(r, o)]
        BY <2>1, <2>3 DEF NamedForDelete, NamedForWrite
      <3> QED BY <1>1, <2>1, <2>2, <2>3, <3>1, FindsLeft
    <2>4. CASE Marker(o) # r
      <3>1. Mine(r) = {}
        BY <2>4, NoneMine
      <3>2. PICK t : t = IF task[r].row = "deleted" THEN [task[r] EXCEPT !.at = "clear"]
                         ELSE [task[r] EXCEPT !.at = "owner", !.id = o, !.owner = Marker(o)]
        OBVIOUS
      <3>3. task' = [task EXCEPT ![r] = t]
        BY <2>1, <2>4, <3>2 DEF NamedForDelete, NamedForWrite
      <3>4. t \in Task
        BY <3>3, Known0 DEF TasksTyped, Inv, Typed
      <3>5. /\ t.row = task[r].row /\ t.inline = task[r].inline
            /\ t.at = IF task[r].row = "deleted" THEN "clear" ELSE "owner"
        BY <3>2, Known0 DEF Task
      <3> QED BY <1>1, <2>1, <3>1, <3>3, <3>4, <3>5, LooksLeft DEF Wrote
    <2> QED BY <2>3, <2>4
  <1> QED BY <1>2, <1>3 DEF ByName

LEMMA OwnerLeft ==
  ASSUME Inv, Inv', Left, NEW r \in Rows, Owner(r)
  PROVE  Left'
  <1>1. task[r].at = "owner" /\ UNCHANGED <<pointer, object>> /\ Mine(r) = {} /\ Knows(r)
    BY DEF Owner, At, keycloak, Left, Knows
  <1>2. task[r].row # "deleted" /\ "adopt" \in Steps
    BY <1>1 DEF Knows, Steps
  <1>3. CASE Proceed(r, "adopt")
    BY <1>1, <1>2, <1>3, StepLeft DEF Proceed, Wrote
  <1> QED BY <1>1, <1>3, ThrowLeft DEF Owner

\* An object is made under a name nobody has.
LEMMA CreateLeft ==
  ASSUME Inv, Inv', Left, NEW r \in Rows, NEW next \in {"assertMarker", "store"}, Create(r, next)
  PROVE  Left'
  <1>1. task[r].at = "create" /\ UNCHANGED pointer /\ Knows(r)
    BY DEF Create, At, Left
  <1>2. CASE Throw(r) /\ UNCHANGED object
    BY <1>1, <1>2, ThrowLeft
  <1>3. CASE ~(Throw(r) /\ UNCHANGED object)
    <2>1. PICK new : new = top + 1
      OBVIOUS
    <2>2. PICK x : x = [marker |-> r, enabled |-> Enabled(r), role |-> "none"]
      OBVIOUS
    <2>3. /\ Named(r) = {} /\ new \in Ids /\ object' = [object EXCEPT ![new] = x]
          /\ task' = [task EXCEPT ![r].id = new, ![r].at = next]
          /\ UNCHANGED <<status, queued>>
      BY <1>3, <2>1, <2>2 DEF Create
    <2>4. task \in [Rows -> Task] /\ task[r] \in Task /\ object \in [Ids -> Objects \cup {NoObject}]
      BY Known0 DEF TasksTyped, ObjectsTyped
    <2>5. /\ task'[r].at = next /\ task'[r].row = task[r].row /\ task'[r].inline = task[r].inline
          /\ \A q \in Rows \ {r} : task'[q] = task[q]
      BY <2>3, <2>4 DEF Task
    <2>6. x.marker = r /\ (x.enabled <=> Enabled(r))
      BY <2>2
    <2>7. object'[new] = x /\ \A o \in Ids \ {new} : object'[o] = object[o]
      BY <2>3, <2>4
    <2>8. \A q \in Rows \ {r} : Fewer(q)
      BY <2>6, <2>7 DEF Fewer, Marker
    <2>9. OneOfAName'
      <3>1. \A o \in Ids \ {new} : Exists(o)' => Exists(o) /\ Marker(o)' = Marker(o)
        BY <2>7 DEF Exists, Marker
      <3>2. \A o \in Ids : Exists(o) => NameOf[Marker(o)] # NameOf[r]
        BY <2>3 DEF Named
      <3>3. Marker(new)' = r
        BY <2>6, <2>7 DEF Marker
      <3> QED BY <3>1, <3>2, <3>3 DEF Left, OneOfAName
    <2>10. Mine(r) = {}
      BY <1>1 DEF Knows
    <2>11. \A o \in Mine(r)' : object'[o].enabled <=> Enabled(r)
      BY <2>6, <2>7, <2>10 DEF Mine, Marker
    <2>12. task[r].row # "deleted"
      BY <1>1 DEF Knows
    <2>13. Knows(r)'
      BY <1>1, <2>3, <2>5, <2>11, <2>12 DEF Knows, Enabled, InlineNow
    <2>14. ~AtRest(r)'
      <3>1. InlineNow(r) => status[r] = "absent"
        BY DEF Inv, RowOf
      <3> QED BY <2>3, <2>5, <3>1 DEF AtRest, Committed, Running, At, InlineNow
    <2> QED BY <1>1, <2>3, <2>5, <2>8, <2>9, <2>13, <2>14, HandlerLeaves
  <1> QED BY <1>2, <1>3

\* An object is written, and what it is written for is known of its row.
LEMMA WritesLeft ==
  ASSUME Inv, Inv', Left, NEW r \in Rows, NEW step \in Steps \ {"idle"}, Go(r, step),
         task[r].at # "idle", UNCHANGED <<status, pointer>>,
         NEW o \in Ids, NEW x, object' = [object EXCEPT ![o] = x],
         x = NoObject \/ (Exists(o) /\ NameOf[x.marker] = NameOf[Marker(o)]),
         x.marker \in {r, "none"} \/ (x.marker = Marker(o) /\ x.enabled = object[o].enabled),
         step \in {"create", "owner", "adopt", "clear"} => Mine(r)' = {},
         step \in {"delete", "update"} => Mine(r)' \subseteq {task[r].id},
         step \in Wrote => \A p \in Mine(r)' : object'[p].enabled <=> Enabled(r),
         task[r].row = "deleted" => step \in {"stored", "byName", "delete", "clear"}
  PROVE  Left'
  <1>1. task' = [task EXCEPT ![r].at = step] /\ UNCHANGED queued
    BY DEF Go
  <1>2. PICK t \in Task : task' = [task EXCEPT ![r] = t] /\ t.at = step /\ Same(t, task[r])
    BY <1>1, Known0, TaskGoes
  <1>3. task \in [Rows -> Task] /\ object \in [Ids -> Objects \cup {NoObject}]
    BY Known0 DEF TasksTyped, ObjectsTyped
  <1>4. /\ task'[r].at = step /\ task'[r].row = task[r].row /\ task'[r].inline = task[r].inline
        /\ task'[r].id = task[r].id /\ \A q \in Rows \ {r} : task'[q] = task[q]
    BY <1>2, <1>3 DEF Same
  <1>5. object'[o] = x /\ \A p \in Ids \ {o} : object'[p] = object[p]
    BY <1>3
  <1>6. \A q \in Rows \ {r} : Fewer(q)
    BY <1>5, Facts DEF Fewer, Marker
  <1>7. OneOfAName'
    <2>1. \A p \in Ids : Exists(p)' => Exists(p) /\ NameOf[Marker(p)]' = NameOf[Marker(p)]
      BY <1>5 DEF Exists, Marker
    <2> QED BY <2>1, NameStays
  <1>8. Knows(r)'
    BY <1>1, <1>4 DEF Left, Knows, Enabled, InlineNow
  <1>9. ~AtRest(r)'
    <2>1. InlineNow(r) => status[r] = "absent"
      BY DEF Inv, RowOf
    <2> QED BY <1>4, <2>1 DEF AtRest, Committed, Running, At, InlineNow
  <1> QED BY <1>1, <1>4, <1>6, <1>7, <1>8, <1>9, HandlerLeaves

\* The object of the row is written as the row is, or another row's is taken.
LEMMA UpdateLeft ==
  ASSUME Inv, Inv', Left, NEW r \in Rows, NEW step \in {"update", "adopt"},
         NEW next \in {"groups", "assertMarker", "store"}, Update(r, step, next)
  PROVE  Left'
  <1>1. task[r].at = step /\ UNCHANGED pointer /\ Knows(r)
    BY DEF Update, At, Left
  <1>2. CASE Throw(r) /\ UNCHANGED object
    BY <1>1, <1>2, ThrowLeft
  <1>3. CASE ~(Throw(r) /\ UNCHANGED object)
    <2>1. PICK o : o = task[r].id
      OBVIOUS
    <2>2. PICK x : x = [object[o] EXCEPT !.marker = r, !.enabled = Enabled(r)]
      OBVIOUS
    <2>3. /\ Exists(o) /\ object' = [object EXCEPT ![o] = x]
          /\ Go(r, next) /\ UNCHANGED status
      BY <1>3, <2>1, <2>2 DEF Update, Proceed
    <2>4. o \in Ids /\ NameOf[Marker(o)] = NameOf[r]
      <3>1. o \in Ids \cup {None} /\ WorksOn(r) /\ o # None
        BY <1>1, <2>1, Known0 DEF WorksOn
      <3> QED BY <2>1, <2>3, <3>1 DEF WorksOn, Of
    <2>5. object[o] \in Objects /\ object \in [Ids -> Objects \cup {NoObject}]
      BY <2>3, <2>4, Known0, Existing DEF ObjectsTyped
    <2>6. x.marker = r /\ (x.enabled <=> Enabled(r))
      BY <2>2, <2>5 DEF Objects
    <2>7. Mine(r) \subseteq {o}
      BY <1>1, <2>1 DEF Knows
    <2>8. \A p \in Mine(r)' : object'[p].enabled <=> Enabled(r)
      BY <2>3, <2>4, <2>5, <2>6, <2>7 DEF Mine, Marker
    <2>9. task[r].row # "deleted" /\ next \in Steps \ {"idle"} /\ next \in Wrote
      BY <1>1 DEF Knows, Steps, Wrote
    <2>10. next \notin {"create", "owner", "adopt", "clear", "delete", "update"}
      OBVIOUS
    <2> QED BY <1>1, <2>3, <2>4, <2>6, <2>8, <2>9, <2>10, WritesLeft
  <1> QED BY <1>2, <1>3

LEMMA SyncRolesLeft ==
  ASSUME Inv, Inv', Left, NEW u \in Rows, SyncRoles(u)
  PROVE  Left'
  <1>1. task[u].at = "roles" /\ UNCHANGED pointer /\ Knows(u)
    BY DEF SyncRoles, At, Left
  <1>2. CASE Throw(u) /\ UNCHANGED object
    BY <1>1, <1>2, ThrowLeft
  <1>3. CASE ~(Throw(u) /\ UNCHANGED object)
    <2>1. PICK o : o = task[u].id
      OBVIOUS
    <2>2. PICK x : x = [object[o] EXCEPT !.role = u]
      OBVIOUS
    <2>3. /\ Exists(o) /\ object' = [object EXCEPT ![o] = x]
          /\ Go(u, "store") /\ UNCHANGED status
      BY <1>3, <2>1, <2>2 DEF SyncRoles, RightRoles, Proceed
    <2>4. o \in Ids
      BY <1>1, <2>1, Known0 DEF WorksOn
    <2>5. object[o] \in Objects /\ object \in [Ids -> Objects \cup {NoObject}]
      BY <2>3, <2>4, Known0, Existing DEF ObjectsTyped
    <2>6. x.marker = Marker(o) /\ x.enabled = object[o].enabled
      BY <2>2, <2>5 DEF Objects, Marker
    <2>7. \A p \in Ids : Marker(p)' = Marker(p) /\ object'[p].enabled = object[p].enabled
      BY <2>3, <2>5, <2>6 DEF Marker
    <2>8. \A p \in Mine(u)' : object'[p].enabled <=> Enabled(u)
      BY <1>1, <2>7 DEF Mine, Knows, Wrote
    <2>9. task[u].row # "deleted" /\ "store" \in Steps \ {"idle"}
      BY <1>1 DEF Knows, Steps
    <2> QED BY <1>1, <2>3, <2>4, <2>6, <2>8, <2>9, WritesLeft
  <1> QED BY <1>2, <1>3

\* The only object there may be of a row that is deleted is deleted.
LEMMA DeleteLeft ==
  ASSUME Inv, Inv', Left, NEW r \in Rows, Delete(r)
  PROVE  Left'
  <1>1. task[r].at = "delete" /\ UNCHANGED <<status, pointer>> /\ Knows(r)
    BY DEF Delete, At, Left, database
  <1>2. PICK o : o = task[r].id
    OBVIOUS
  <1>3. /\ object' = [object EXCEPT ![o] = NoObject] /\ Go(r, "clear")
    BY <1>2 DEF Delete
  <1>4. o \in Ids /\ object \in [Ids -> Objects \cup {NoObject}]
    BY <1>1, <1>2, Known0 DEF WorksOn, ObjectsTyped
  <1>5. Mine(r) \subseteq {o} /\ NoObject.marker = "none"
    BY <1>1, <1>2 DEF Knows, NoObject
  <1>6. Mine(r)' = {}
    BY <1>3, <1>4, <1>5, Facts DEF Mine, Marker
  <1>7. "clear" \in Steps \ {"idle"} /\ "clear" \notin Wrote
    BY DEF Steps, Wrote
  <1>8. PICK x : x = NoObject
    OBVIOUS
  <1>9. object' = [object EXCEPT ![o] = x] /\ x.marker = "none"
    BY <1>3, <1>5, <1>8
  <1>10. PICK step \in Steps \ {"idle"} :
           Go(r, step) /\ step \notin Wrote /\ step \notin {"delete", "update"}
           /\ step \in {"stored", "byName", "delete", "clear"}
    BY <1>3, <1>7
  <1> QED BY <1>1, <1>4, <1>6, <1>8, <1>9, <1>10, WritesLeft

\* The other requests about an account only go on.
LEMMA MembersLeft ==
  ASSUME Inv, Inv', Left, NEW u \in Rows,
         AssertMarker(u) \/ GetGroups(u) \/ Leave(u) \/ Join(u)
  PROVE  Left'
  <1>1. task[u].at \in Wrote /\ UNCHANGED <<pointer, object>> /\ Knows(u) /\ task[u].at # "idle"
    BY DEF AssertMarker, GetGroups, Leave, Join, At, Left, Wrote, keycloak, database
  <1>2. /\ task[u].row # "deleted" /\ task[u] \in Task
        /\ \A o \in Mine(u) : object[o].enabled <=> Enabled(u)
    BY <1>1, Known0 DEF Knows, Wrote
  <1>3. CASE Throw(u)
    BY <1>1, <1>3, ThrowLeft
  <1>4. ASSUME NEW step \in {"groups", "join", "roles"}, Go(u, step), UNCHANGED status
        PROVE  Left'
    <2>1. step \in Steps /\ step \in Wrote
      BY DEF Steps, Wrote
    <2> QED BY <1>1, <1>2, <1>4, <2>1, StepLeft
  <1>5. CASE AssertMarker(u) \/ Join(u)
    BY <1>3, <1>4, <1>5 DEF AssertMarker, Join, Proceed
  <1>6. ASSUME NEW t, task' = [task EXCEPT ![u] = t], UNCHANGED <<status, queued>>,
               t.at = "leave", t.row = task[u].row, t.inline = task[u].inline
        PROVE  Left'
    <2>1. t \in Task
      BY <1>6, Known0 DEF TasksTyped, Inv, Typed
    <2> QED BY <1>1, <1>2, <1>6, <2>1, LooksLeft DEF Wrote, Enabled
  <1>7. CASE GetGroups(u) /\ ~Throw(u)
    <2>1. PICK t : t = [task[u] EXCEPT !.at = "leave",
                          !.others = GroupsOf(task[u].id) \ {task[u].group},
                          !.join = task[u].group \notin GroupsOf(task[u].id)]
      OBVIOUS
    <2>2. task' = [task EXCEPT ![u] = t] /\ UNCHANGED <<status, queued>>
      BY <1>7, <2>1 DEF GetGroups
    <2>3. t.at = "leave" /\ t.row = task[u].row /\ t.inline = task[u].inline
      BY <1>2, <2>1 DEF Task
    <2> QED BY <1>6, <2>2, <2>3
  <1>8. CASE Leave(u)
    <2>1. task[u].at = "leave" /\ UNCHANGED status
      BY <1>8 DEF Leave, At, database
    <2>2. CASE Go(u, IF task[u].join THEN "join" ELSE "roles")
      BY <1>4, <2>1, <2>2
    <2>3. CASE ~Go(u, IF task[u].join THEN "join" ELSE "roles")
      <3>1. PICK g \in task[u].others :
              task' = [task EXCEPT ![u].others = @ \ {g}] /\ UNCHANGED queued
        BY <1>8, <2>3 DEF Leave
      <3>2. PICK t : t = [task[u] EXCEPT !.others = @ \ {g}]
        OBVIOUS
      <3>3. task' = [task EXCEPT ![u] = t]
        BY <3>1, <3>2
      <3>4. t.at = "leave" /\ t.row = task[u].row /\ t.inline = task[u].inline
        BY <1>2, <2>1, <3>2 DEF Task
      <3> QED BY <1>6, <2>1, <3>1, <3>3, <3>4
    <2> QED BY <2>2, <2>3
  <1> QED BY <1>3, <1>5, <1>7, <1>8

\* A handler that returns has done what the row asked for, if nothing was asked
\* for since.
LEMMA ReturnLeft ==
  ASSUME Inv, Inv', Left, NEW r \in Rows, Return(r), task[r].at # "idle", ~task[r].inline,
         UNCHANGED <<status, object>>,
         \A q \in Rows \ {r} : pointer'[q] = pointer[q],
         r \notin queued => AsItsRow(r)'
  PROVE  Left'
  <1>1. task \in [Rows -> Task]
    BY Known0 DEF TasksTyped
  <1>2. task'[r] = Idle /\ \A q \in Rows \ {r} : task'[q] = task[q]
    BY <1>1 DEF Return
  <1>3. UNCHANGED queued
    BY DEF Return
  <1>4. \A q : Fewer(q)
    BY DEF Fewer, Marker
  <1>5. OneOfAName'
    BY DEF Left, OneOfAName, Exists, Marker
  <1>6. Knows(r)'
    BY <1>2, IdleTask DEF Knows, Wrote
  <1>7. AtRest(r)' => AsItsRow(r)'
    BY <1>3 DEF AtRest
  <1> QED BY <1>2, <1>3, <1>4, <1>5, <1>6, <1>7, HandlerLeaves

LEMMA StoreLeft ==
  ASSUME Inv, Inv', Left, NEW r \in Rows, NEW table, StoreIn(r, table)
  PROVE  Left'
  <1>1. /\ task[r].at = "store" /\ UNCHANGED object /\ Knows(r) /\ task[r].at \in Wrote
        /\ task[r].row # "deleted"
    BY DEF StoreIn, At, Left, keycloak, Wrote, Knows
  <1>2. CASE Throw(r) /\ UNCHANGED pointer
    BY <1>1, <1>2, ThrowLeft
  <1>3. CASE Go(r, "commit") /\ UNCHANGED <<pointer, status>>
    <2>1. "commit" \in Steps /\ "commit" \in Wrote
      BY DEF Steps, Wrote
    <2> QED BY <1>1, <1>3, <2>1, StepLeft DEF Knows
  <1>4. CASE /\ ~task[r].inline /\ Return(r) /\ UNCHANGED status
             /\ pointer' = [pointer EXCEPT ![r] = task[r].id]
    <2>1. \A q \in Rows \ {r} : pointer'[q] = pointer[q]
      BY <1>4, Known0 DEF RowsTyped
    <2>2. ASSUME r \notin queued PROVE AsItsRow(r)'
      <3>1. task[r].row = status[r] /\ status[r] \in {"active", "disabled"}
        BY <1>1, <1>4, <2>2, Known0 DEF Knows, InlineNow, RowOf, Status
      <3>2. \A o \in Mine(r) : object[o].enabled <=> status[r] = "active"
        BY <1>1, <3>1 DEF Knows, Enabled
      <3>3. Mine(r)' = Mine(r)
        BY <1>1 DEF Mine, Marker
      <3> QED BY <1>1, <1>4, <3>1, <3>2, <3>3 DEF AsItsRow, Live
    <2> QED BY <1>1, <1>4, <2>1, <2>2, ReturnLeft
  <1> QED BY <1>2, <1>3, <1>4 DEF StoreIn

LEMMA ClearLeft ==
  ASSUME Inv, Inv', Left, NEW r \in Rows, Clear(r)
  PROVE  Left'
  <1>1. /\ task[r].at = "clear" /\ Return(r) /\ pointer' = [pointer EXCEPT ![r] = None]
        /\ UNCHANGED <<status, object>> /\ Knows(r) /\ task[r].row = "deleted"
    BY Known0 DEF Clear, At, Left, keycloak, WorksOn
  <1>2. pointer'[r] = None /\ \A q \in Rows \ {r} : pointer'[q] = pointer[q]
    BY <1>1, Known0 DEF RowsTyped
  <1>3. ~task[r].inline
    BY <1>1, Known0 DEF RowOf, InlineNow
  <1>4. Mine(r)' = {}
    BY <1>1 DEF Knows, Mine, Marker
  <1>5. AsItsRow(r)'
    BY <1>2, <1>4 DEF AsItsRow
  <1> QED BY <1>1, <1>2, <1>3, <1>5, ReturnLeft

\* The row that becomes visible is queued with it.
LEMMA CommitLeft ==
  ASSUME Inv, Inv', Left, NEW r \in Rows, Commit(r)
  PROVE  Left'
  <1>1. /\ status' = [status EXCEPT ![r] = "active"]
        /\ pointer' = [pointer EXCEPT ![r] = task[r].id]
        /\ queued' = queued \cup {r} /\ task' = [task EXCEPT ![r] = Idle] /\ UNCHANGED object
    BY DEF Commit, keycloak
  <1>2. /\ task'[r] = Idle
        /\ \A q \in Rows \ {r} : /\ task'[q] = task[q] /\ status'[q] = status[q]
                                 /\ pointer'[q] = pointer[q]
    BY <1>1, Known0 DEF RowsTyped, TasksTyped
  <1>3. \A q : Fewer(q)
    BY <1>1 DEF Fewer, Marker
  <1>4. OneOfAName'
    BY <1>1 DEF Left, OneOfAName, Exists, Marker
  <1>5. Knows(r)' /\ ~AtRest(r)'
    BY <1>1, <1>2, IdleTask DEF Knows, Wrote, AtRest
  <1> QED BY <1>1, <1>2, <1>3, <1>4, <1>5, HandlerLeaves

LEMMA HandleLeft ==
  ASSUME Inv, Inv', Left, NEW r \in Rows, Handle(r)
  PROVE  Left'
  <1>1. CASE Read(r) \/ Stored(r) \/ ByName(r) \/ Owner(r) \/ Commit(r)
    BY <1>1, ReadLeft, StoredLeft, ByNameLeft, OwnerLeft, CommitLeft
  <1>2. CASE CreateUser(r) \/ CreateGroup(r)
    BY <1>2, CreateLeft DEF CreateUser, CreateGroup
  <1>3. CASE UpdateUser(r) \/ UpdateGroup(r)
    BY <1>3, UpdateLeft DEF UpdateUser, UpdateGroup
  <1>4. CASE SetKeycloakUserId(r) \/ SetKeycloakGroupId(r)
    BY <1>4, StoreLeft DEF SetKeycloakUserId, SetKeycloakGroupId
  <1>5. CASE RemoveUser(r) \/ RemoveGroup(r)
    BY <1>5, DeleteLeft, ClearLeft DEF RemoveUser, RemoveGroup
  <1>6. CASE \/ DesiredGroup(r) \/ AssertMarker(r) \/ GetGroups(r) \/ Leave(r) \/ Join(r)
             \/ SyncRoles(r)
    BY <1>6, DesiredGroupLeft, MembersLeft, SyncRolesLeft
  <1> QED BY <1>1, <1>2, <1>3, <1>4, <1>5, <1>6 DEF Handle

-----------------------------------------------------------------------------
\* A row that is being inserted is not there yet.
LEMMA InsertLeft ==
  ASSUME Inv, Inv', Left, NEW r \in Rows, Insert(r)
  PROVE  Left'
  <1>1. PICK t : t = [Idle EXCEPT !.at = FirstStep(r, "active"), !.inline = TRUE, !.row = "active"]
    OBVIOUS
  <1>2. /\ task' = [task EXCEPT ![r] = t] /\ status[r] = "absent"
        /\ UNCHANGED <<status, pointer, object, queued>> /\ task \in [Rows -> Task]
    BY <1>1, Known0 DEF Insert, database, keycloak, TasksTyped
  <1>3. t.at \in {"tenant", "stored"} /\ t.row = "active" /\ t.inline = TRUE
    BY <1>1 DEF Idle, FirstStep
  <1>4. task'[r] = t /\ \A q \in Rows \ {r} : task'[q] = task[q]
    BY <1>2
  <1>5. \A q : Fewer(q)
    BY <1>2 DEF Fewer, Marker
  <1>6. OneOfAName'
    BY <1>2 DEF Left, OneOfAName, Exists, Marker
  <1>7. Knows(r)' /\ ~AtRest(r)'
    BY <1>2, <1>3, <1>4 DEF Knows, Wrote, AtRest, Committed, InlineNow
  <1> QED BY <1>2, <1>4, <1>5, <1>6, <1>7, HandlerLeaves

\* Rows change and are queued, rows are queued, or objects go.
LEMMA OutsideLeft ==
  ASSUME Inv, Inv', Left, UNCHANGED <<task, pointer>>,
         \A r \in Rows : /\ status'[r] = status[r] \/ r \in queued'
                         /\ r \in queued => r \in queued',
         \A o \in Ids : object'[o] \in {object[o], NoObject}
  PROVE  Left'
  <1>1. \A r \in Rows : Fewer(r)
    BY Facts DEF Fewer, Marker, NoObject
  <1>2. OneOfAName'
    <2>1. \A o \in Ids : Exists(o)' => Exists(o) /\ NameOf[Marker(o)]' = NameOf[Marker(o)]
      BY DEF Exists, Marker
    <2> QED BY <2>1, NameStays
  <1>3. \A r \in Rows : Knows(r)' /\ (AtRest(r)' => AsItsRow(r)')
    BY <1>1, RowRests, RowWaits
  <1> QED BY <1>2, <1>3 DEF Left

LEMMA ServicesLeft ==
  ASSUME Inv, Inv', Left,
         (\E u \in Users : ChangeUser(u)) \/ (\E t \in Tenants : DeleteTenant(t))
  PROVE  Left'
  <1>1. UNCHANGED <<task, pointer, object>>
    BY DEF ChangeUser, SetUser, DeleteTenant, keycloak
  <1>2. status \in [Rows -> Status] /\ queued \subseteq Rows
    BY DEF Inv, Typed, RowsTyped
  <1>3. \A r \in Rows : (status'[r] = status[r] \/ r \in queued') /\ (r \in queued => r \in queued')
    <2>1. CASE \E u \in Users : ChangeUser(u)
      BY <1>2, <2>1 DEF ChangeUser, SetUser
    <2>2. CASE \E t \in Tenants : DeleteTenant(t)
      BY <1>2, <2>2 DEF DeleteTenant
    <2> QED BY <2>1, <2>2
  <1> QED BY <1>1, <1>3, OutsideLeft

\* A collector queues rows and removes objects.
LEMMA CollectorLeft ==
  ASSUME Inv, Inv', Left, NEW c \in Collectors, Collect(c) \/ CollectionFails(c)
  PROVE  Left'
  <1>1. UNCHANGED <<task, pointer, status>> /\ queued \subseteq queued'
    BY DEF Collect, Resync, List, Judge, Remove, CollectionFails, database
  <1>2. \A o \in Ids : object'[o] \in {object[o], NoObject}
    <2>1. CASE UNCHANGED object
      BY <2>1
    <2>2. CASE \E o \in Ids : object' = [object EXCEPT ![o] = NoObject]
      BY <2>2 DEF Inv, Typed, ObjectsTyped
    <2>3. UNCHANGED object \/ \E o \in Ids : object' = [object EXCEPT ![o] = NoObject]
      <3>1. gc[c].remove \subseteq Ids
        BY Collecting
      <3> QED BY <3>1 DEF Collect, Resync, List, Judge, Remove, CollectionFails, keycloak
    <2> QED BY <2>1, <2>2, <2>3
  <1> QED BY <1>1, <1>2, OutsideLeft

LEMMA InitLeft == Init => Left
  <1> SUFFICES ASSUME Init PROVE Left
    OBVIOUS
  <1>1. Inv
    BY InitInv
  <1>2. PICK id \in [Present -> 1..Cardinality(Present)] :
          /\ \A q, r \in Present : id[q] = id[r] => q = r
          /\ status = [r \in Rows |-> IF r \in Present THEN "active" ELSE "absent"]
          /\ object = [o \in Ids |->
               IF \E r \in Present : id[r] = o
                 THEN LET r == CHOOSE r \in Present : id[r] = o
                      IN [marker |-> r, enabled |-> TRUE,
                          role |-> IF r \in Users THEN r ELSE "none"]
                 ELSE NoObject]
          /\ task = [r \in Rows |-> Idle]
    BY DEF Init
  <1>3. ASSUME NEW o \in Ids, Exists(o)
        PROVE  /\ Marker(o) \in Present /\ id[Marker(o)] = o /\ object[o].enabled
    <2>1. \E r \in Present : id[r] = o
      BY <1>2, <1>3 DEF Exists
    <2>2. PICK r : r = CHOOSE q \in Present : id[q] = o
      OBVIOUS
    <2>3. r \in Present /\ id[r] = o
      BY <2>1, <2>2
    <2>4. object[o] = [marker |-> r, enabled |-> TRUE, role |-> IF r \in Users THEN r ELSE "none"]
      BY <1>2, <2>1, <2>2
    <2> QED BY <2>3, <2>4 DEF Marker
  <1>4. OneOfAName
    BY <1>3, KeycloakAssumption DEF OneOfAName
  <1>5. ASSUME NEW r \in Rows
        PROVE  Knows(r) /\ AsItsRow(r)
    <2>1. task[r] = Idle
      BY <1>2
    <2>2. Knows(r)
      BY <2>1, IdleTask DEF Knows, Wrote
    <2>3. \A o \in Mine(r) : Exists(o)
      BY <1>1, Existing DEF Mine, Inv, Typed
    <2>4. \A o \in Mine(r) : Live(r) /\ object[o].enabled /\ status[r] = "active"
      BY <1>2, <1>3, <2>3 DEF Mine, Live
    <2>5. status[r] # "deleted"
      BY <1>2
    <2> QED BY <2>2, <2>4, <2>5 DEF AsItsRow
  <1> QED BY <1>4, <1>5 DEF Left

LEMMA NextLeft ==
  ASSUME Inv, Inv', Left, [Next]_vars
  PROVE  Left'
  <1>1. CASE \E r \in Rows : Insert(r) \/ Handle(r)
    BY <1>1, InsertLeft, HandleLeft
  <1>2. CASE \E r \in Rows : Fail(r)
    BY <1>2, ThrowLeft DEF Fail, keycloak
  <1>3. CASE (\E u \in Users : ChangeUser(u)) \/ (\E t \in Tenants : DeleteTenant(t))
    BY <1>3, ServicesLeft
  <1>4. CASE \E c \in Collectors : Collect(c) \/ CollectionFails(c)
    BY <1>4, CollectorLeft
  <1>5. CASE UNCHANGED vars
    BY <1>5, OutsideLeft DEF vars, database, keycloak
  <1> QED BY <1>1, <1>2, <1>3, <1>4, <1>5 DEF Next

-----------------------------------------------------------------------------
(* A live row has a pointer.  It comes with the row, in one commit; later   *)
(* handlers replace it, and only that of a deleted row clears it.           *)

Pointed == \A r \in Rows : Live(r) => pointer[r] # None

LEMMA NextPointed ==
  ASSUME Inv, Pointed, [Next]_vars
  PROVE  Pointed'
  <1>1. status \in [Rows -> Status] /\ pointer \in [Rows -> Ids \cup {None}]
    BY DEF Inv, Typed, RowsTyped
  <1>2. ASSUME pointer' = pointer, \A r \in Rows : Live(r)' => Live(r)
        PROVE  Pointed'
    BY <1>2 DEF Pointed
  <1>3. ASSUME NEW r \in Rows, Commit(r) PROVE Pointed'
    <2>1. task[r].id # None
      BY <1>3, Known0 DEF Commit, At, WorksOn
    <2> QED BY <1>1, <1>3, <2>1 DEF Commit, Pointed, Live
  <1>4. ASSUME NEW r \in Rows, NEW table, StoreIn(r, table) PROVE Pointed'
    <2>1. task[r].id # None
      BY <1>4, Known0 DEF StoreIn, At, WorksOn
    <2>2. CASE UNCHANGED pointer
      <3>1. \A q \in Rows : Live(q)' => Live(q)
        BY <1>1, <1>4 DEF StoreIn, Throw, Live
      <3> QED BY <1>2, <2>2, <3>1
    <2>3. CASE pointer' # pointer
      BY <1>1, <1>4, <2>1, <2>3 DEF StoreIn, Pointed, Live
    <2> QED BY <2>2, <2>3
  <1>5. ASSUME NEW r \in Rows, Clear(r) PROVE Pointed'
    <2>1. ~Live(r)
      BY <1>5, Known0 DEF Clear, At, WorksOn, RowOf, Live
    <2> QED BY <1>1, <1>5, <2>1 DEF Clear, Pointed, Live
  <1>6. ASSUME NEW r \in Rows,
               \/ Read(r) \/ Stored(r) \/ ByName(r) \/ Delete(r) \/ Leave(r)
               \/ DesiredGroup(r) \/ Owner(r) \/ AssertMarker(r) \/ GetGroups(r) \/ Join(r)
               \/ SyncRoles(r) \/ Fail(r) \/ Insert(r)
               \/ \E next : Create(r, next)
               \/ \E step, next : Update(r, step, next)
        PROVE  Pointed'
    <2>1. UNCHANGED pointer
      BY <1>6 DEF Read, Stored, ByName, Delete, Leave, DesiredGroup, Owner, AssertMarker,
                  GetGroups, Join, SyncRoles, Fail, Insert, Create, Update, database
    <2>2. UNCHANGED status \/ Throw(r)
      BY <1>6 DEF Read, Stored, ByName, Delete, Leave, DesiredGroup, Owner, AssertMarker,
                  GetGroups, Join, SyncRoles, Fail, Insert, Create, Update, database, Proceed
    <2>3. \A q \in Rows : Live(q)' => Live(q)
      BY <1>1, <2>2 DEF Throw, Live
    <2> QED BY <1>2, <2>1, <2>3
  <1>7. CASE \E r \in Rows : Insert(r) \/ Handle(r) \/ Fail(r)
    BY <1>3, <1>4, <1>5, <1>6, <1>7
    DEF Handle, CreateUser, CreateGroup, UpdateUser, UpdateGroup, SetKeycloakUserId,
        SetKeycloakGroupId, RemoveUser, RemoveGroup
  <1>8. CASE (\E u \in Users : ChangeUser(u)) \/ (\E t \in Tenants : DeleteTenant(t))
    <2>1. UNCHANGED pointer
      BY <1>8 DEF ChangeUser, SetUser, DeleteTenant
    <2>2. \A r \in Rows : Live(r)' => Live(r)
      <3>1. CASE \E u \in Users : ChangeUser(u)
        BY <1>1, <3>1 DEF ChangeUser, SetUser, Live
      <3>2. CASE \E t \in Tenants : DeleteTenant(t)
        BY <1>1, <3>2 DEF DeleteTenant, Live
      <3> QED BY <1>8, <3>1, <3>2
    <2> QED BY <1>2, <2>1, <2>2
  <1>9. CASE (\E c \in Collectors : Collect(c) \/ CollectionFails(c)) \/ UNCHANGED vars
    <2>1. UNCHANGED <<status, pointer>>
      BY <1>9 DEF Collect, Resync, List, Judge, Remove, CollectionFails, vars, database
    <2> QED BY <1>2, <2>1 DEF Live
  <1> QED BY <1>7, <1>8, <1>9 DEF Next

\* Keycloak keeps nothing for a row that is deleted, and nothing enabled for one
\* that is disabled, once nothing is pending for it, and a live row is never
\* without its pointer: whatever names passed from row to row, whatever failed
\* and whatever collectors removed meanwhile, the row was queued again
\* (keycloak-user.mirror.ts, keycloak-tenant.mirror.ts).
THEOREM NothingStaysOpenAtRest ==
  Spec => [](\A r \in Rows : /\ AtRest(r) => AsItsRow(r)
                            /\ Live(r) => pointer[r] # None)
  <1>1. Left /\ Pointed => \A r \in Rows : /\ AtRest(r) => AsItsRow(r)
                                          /\ Live(r) => pointer[r] # None
    BY DEF Left, Pointed
  <1>2. Init => Left /\ Pointed
    <2> SUFFICES ASSUME Init PROVE Pointed
      BY InitLeft
    <2>1. PICK id \in [Present -> 1..Cardinality(Present)] :
            /\ status = [r \in Rows |-> IF r \in Present THEN "active" ELSE "absent"]
            /\ pointer = [r \in Rows |-> IF r \in Present THEN id[r] ELSE None]
      BY DEF Init
    <2>2. \A r \in Present : id[r] # None
      BY <2>1 DEF None
    <2> QED BY <2>1, <2>2 DEF Pointed, Live
  <1>3. Inv /\ Inv' /\ Left /\ Pointed /\ [Next]_vars => Left' /\ Pointed'
    BY NextLeft, NextPointed
  <1>4. Spec => []Inv
    BY InvHolds
  <1> QED BY <1>1, <1>2, <1>3, <1>4, PTL DEF Spec
=============================================================================
