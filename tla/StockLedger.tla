------------------------------ MODULE StockLedger ------------------------------
(***************************************************************************)
(* What the stock of an organization promises: an append-only journal of   *)
(* movements, the balance of each item in each branch, and the catalogue.  *)
(* Movements are appended whole, a balance moves by exactly the movements  *)
(* appended for it and never below zero, a movement is reversed at most    *)
(* once, by its inverse, and a goods receipt not at all.  The detailed     *)
(* specification is Stock.                                                 *)
(***************************************************************************)
EXTENDS Integers

CONSTANTS Items, Branches, Keys, Units, Imported

VARIABLES items, balances, movements

vars == <<items, balances, movements>>

NoItem == [status |-> "none"]
Places == Items \X Branches
Place(m) == <<m.item, m.branch>>

Init ==
  /\ items \in [Items -> {NoItem} \cup [status : {"active"}, unit : Units, key : {{}}]]
  /\ \A i \in Items : items[i] # NoItem <=> i \in Imported
  /\ balances = [p \in Places |-> 0]
  /\ movements = {}

New == movements' \ movements

Inverse(m, n) == /\ Place(m) = Place(n)
                 /\ m.delta = -n.delta

(* m may be appended: nobody else has its id; it concerns an active item,  *)
(* or is the one and only inverse of a movement that can be reversed.      *)
Admissible(m) ==
  /\ \A n \in movements' : n.id = m.id => n = m
  /\ \/ m.kind # "reversal" /\ m.reverses = {} /\ items'[m.item].status = "active"
     \/ /\ m.kind = "reversal"
        /\ \E n \in movements :
             /\ n.kind \in {"opening", "change"}
             /\ m.reverses = {n.id}
             /\ Inverse(m, n)
        /\ \A n \in movements' : n.reverses = m.reverses => n = m

Append ==
  /\ movements \subseteq movements'
  /\ \A m \in New : Admissible(m)
  /\ \A m, n \in New : Place(m) = Place(n) => m = n
  /\ balances' \in [Places -> Nat]
  /\ \A m \in New : balances'[Place(m)] = balances[Place(m)] + m.delta
  /\ \A p \in Places : (\A m \in New : Place(m) # p) => balances'[p] = balances[p]

CreateItem(i) ==
  /\ items[i] = NoItem
  /\ items' = [items EXCEPT ![i] = items'[i]]
  /\ items'[i].status = "active"
  /\ Append
  /\ \A m \in New : m.kind = "opening" /\ m.item = i

(* The unit of an item is what its quantities are counted in, so it stays  *)
(* as it is once there are movements.                                      *)
EditItem(i) ==
  /\ items[i] # NoItem
  /\ items' = [items EXCEPT ![i] = items'[i]]
  /\ items'[i].status \in {"active", "inactive"}
  /\ items'[i].unit # items[i].unit => \A m \in movements : m.item # i
  /\ UNCHANGED <<balances, movements>>

PostMovements ==
  /\ Append
  /\ New # {}
  /\ \A m \in New : m.kind # "opening"
  /\ UNCHANGED items

Next == PostMovements \/ \E i \in Items : CreateItem(i) \/ EditItem(i)

Spec == Init /\ [][Next]_vars
=============================================================================
