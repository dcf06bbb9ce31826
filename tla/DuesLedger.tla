------------------------------ MODULE DuesLedger ------------------------------
(***************************************************************************)
(* What the Customer Dues register promises, with no sessions, locks or    *)
(* branches: every id is used once, an entry changes what its customer     *)
(* owes by its effect, a payment never takes that below zero, and an entry *)
(* that stands can be cancelled once, which undoes its effect.             *)
(***************************************************************************)
EXTENDS Integers

CONSTANTS
  Customers,
  Ids,       \* of entries and cancellations
  Entries    \* records with id, customer, effect and payment fields

VARIABLES owed, standing, used

vars == <<owed, standing, used>>

Init ==
  /\ owed \in [Customers -> Int]
  /\ standing \in SUBSET Entries
  /\ used = {e.id : e \in standing}

Post(e) ==
  /\ standing' = standing \cup {e}
  /\ owed' = [owed EXCEPT ![e.customer] = @ + e.effect]
  /\ e.payment => owed'[e.customer] >= 0

Cancel(e) ==
  /\ standing' = standing \ {e}
  /\ owed' = [owed EXCEPT ![e.customer] = @ - e.effect]

Next ==
  \E id \in Ids \ used :
    /\ used' = used \cup {id}
    /\ \/ \E e \in Entries : e.id = id /\ Post(e)
       \/ \E e \in standing : Cancel(e)

Spec == Init /\ [][Next]_vars
=============================================================================
