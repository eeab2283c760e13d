--------------------------- MODULE OutboxContract ---------------------------
(***************************************************************************)
(* What the outbox promises to the rest of the control plane, without its  *)
(* table, workers and leases: a change leaves every mirror of the row      *)
(* dirty until a sync has read that change or a later one.                 *)
(***************************************************************************)
EXTENDS Naturals

CONSTANTS Aggregates, Keys, AggregateOf, Handled

VARIABLES
  db,      \* the version of each business row
  synced,  \* the newest version a sync of the key has read
  dirty    \* the key still has to be looked at

vars == <<db, synced, dirty>>

Init ==
  /\ db = [a \in Aggregates |-> 0]
  /\ synced = [k \in Keys |-> 0]
  /\ dirty = [k \in Keys |-> FALSE]

Change(a) ==
  /\ db' = [db EXCEPT ![a] = @ + 1]
  /\ dirty' = [k \in Keys |-> dirty[k] \/ AggregateOf[k] = a]
  /\ UNCHANGED synced

Request(k) ==
  /\ dirty' = [dirty EXCEPT ![k] = TRUE]
  /\ UNCHANGED <<db, synced>>

Sync(k) ==
  /\ \E v \in synced[k]..db[AggregateOf[k]] : synced' = [synced EXCEPT ![k] = v]
  /\ UNCHANGED <<db, dirty>>

Settle(k) ==
  /\ k \in Handled => synced[k] = db[AggregateOf[k]]
  /\ dirty' = [dirty EXCEPT ![k] = FALSE]
  /\ UNCHANGED <<db, synced>>

Next ==
  \/ \E a \in Aggregates : Change(a)
  \/ \E k \in Keys : Request(k) \/ Sync(k) \/ Settle(k)

Spec == Init /\ [][Next]_vars
=============================================================================
