--------------------------------- MODULE Stock ---------------------------------
(***************************************************************************)
(* Inventory and purchasing of one organization.                           *)
(*                                                                         *)
(* Each command is one READ COMMITTED transaction.  It takes its advisory, *)
(* row and share locks one at a time, in the order of the code, checks     *)
(* what it reads under a lock at the moment it gets it, and does all its   *)
(* writes in the step that commits: nobody reads them before.  A share     *)
(* lock is as exclusive as the others, since every command that takes one  *)
(* holds the organization's lock.  The unique indexes and the triggers     *)
(* that only repeat what the commands check are left out, except the index *)
(* on movement keys, which item creation relies on, and the one that       *)
(* freezes units.                                                          *)
(***************************************************************************)
EXTENDS Integers, FiniteSets, FiniteSetsExt

CONSTANTS
  Items, Branches, Units,
  Imported,    \* the items that were in the catalogue from the start
  Keys,        \* idempotency keys that clients choose
  Orders,      \* ids of purchase_orders rows
  Txns,        \* concurrent database sessions
  Deltas,      \* signed quantities of receive, consume and adjust commands
  MaxQty,      \* the largest opening or ordered quantity
  MaxVersion   \* orders are written this many times at most

ASSUME ConstantsAssumption ==
  /\ Imported \subseteq Items
  /\ Deltas \subseteq Int \ {0}
  /\ MaxQty \in Nat \ {0} /\ MaxVersion \in Nat
  /\ Keys \cap (Keys \X Items) = {}

VARIABLES
  items,      \* inventory_items
  balances,   \* stock_balances.quantity; an absent row counts 0
  movements,  \* stock_movements
  orders,     \* purchase_orders with their lines
  receipts,   \* purchase_receipts with their lines, as the commands they store
  txn         \* what each session is doing, and the locks it holds

vars == <<items, balances, movements, orders, receipts, txn>>

-----------------------------------------------------------------------------
(* Rows.  A movement made by a receipt has a key of its own per line.      *)

Places == Items \X Branches
Ids == Keys \cup (Keys \X Items)

NoItem == [status |-> "none"]
ItemRow == [status : {"active", "inactive"}, unit : Units, key : SUBSET Keys]
MovementRow == [id : Ids, kind : {"opening", "change", "reversal", "receipt"},
                item : Items, branch : Branches, delta : Int, reverses : SUBSET Ids]

Lines(V) == UNION {[S -> V] : S \in (SUBSET Items) \ {{}}}
NoOrder == [status |-> "none"]
OrderRow == [status : {"draft", "ordered", "partially_received", "received", "cancelled"},
             version : 1 .. MaxVersion, branch : Branches,
             lines : Lines([qty : 1 .. MaxQty, unit : Units])]

(* Commands.  Version 0 saves a new order.                                 *)
CreateCmd == [op : {"create"}, key : Keys, item : Items, branch : Branches,
              unit : Units, opening : 0 .. MaxQty]
UpdateCmd == [op : {"update"}, item : Items, branch : Branches,
              status : {"active", "inactive"}, unit : Units, threshold : BOOLEAN]
ChangeCmd == [op : {"change"}, key : Keys, item : Items, branch : Branches, delta : Deltas]
ReverseCmd == [op : {"reverse"}, key : Keys, target : MovementRow]
SaveCmd == [op : {"save"}, order : Orders, branch : Branches,
            version : 0 .. MaxVersion, lines : Lines(1 .. MaxQty)]
TransitionCmd == [op : {"transition"}, order : Orders, branch : Branches,
                  version : 1 .. MaxVersion, to : {"ordered", "cancelled"}]
ReceiveCmd == [op : {"receive"}, key : Keys, order : Orders, branch : Branches,
               version : 1 .. MaxVersion, lines : Lines(1 .. MaxQty)]
Commands == CreateCmd \cup UpdateCmd \cup ChangeCmd \cup ReverseCmd
              \cup SaveCmd \cup TransitionCmd \cup ReceiveCmd

Org == <<"organization">>
CreationKey(k) == <<"item:", k>>
MovementKey(k) == <<"movement:", k>>
Order(o) == <<"order", o>>
Location(b) == <<"location", b>>
Movement(id) == <<"movement", id>>
Item(i) == <<"item", i>>
Balance(p) == <<"balance", p>>

Idle == [cmd |-> [op |-> "idle"], held |-> {}]
Free(l) == \A t \in Txns : l \notin txn[t].held

Place(m) == <<m.item, m.branch>>
Row(id, kind, p, delta, reverses) ==
  [id |-> id, kind |-> kind, item |-> p[1], branch |-> p[2],
   delta |-> delta, reverses |-> reverses]

TakenBy(rs, o, i) ==
  MapThenSumSet(LAMBDA r : r.lines[i], {r \in rs : r.order = o /\ i \in DOMAIN r.lines})
Received(o, i) == TakenBy(receipts, o, i)

TypeOK ==
  /\ items \in [Items -> ItemRow \cup {NoItem}]
  /\ balances \in [Places -> Nat]
  /\ movements \subseteq MovementRow
  /\ orders \in [Orders -> OrderRow \cup {NoOrder}]
  /\ receipts \subseteq ReceiveCmd
  /\ \A t \in Txns : txn[t] = Idle \/ txn[t].cmd \in Commands

Init ==
  /\ items \in [Items -> {NoItem} \cup [status : {"active"}, unit : Units, key : {{}}]]
  /\ \A i \in Items : items[i] # NoItem <=> i \in Imported
  /\ balances = [p \in Places |-> 0]
  /\ movements = {}
  /\ orders = [o \in Orders |-> NoOrder]
  /\ receipts = {}
  /\ txn = [t \in Txns |-> Idle]

-----------------------------------------------------------------------------
(* Locks.  Every command takes what it needs by kind, in this order, except *)
(* that a receipt finishes a line, item and balance, before the next.       *)

(* Mutant: nothing says which of location and item is locked first.         *)
LocationAnytime(l) ==
  CASE l = Org                    -> 1
    [] l[1] \in {"item:", "movement:", "order"} -> 2
    [] l[1] \in {"location", "movement", "item"} -> 3
    [] OTHER                      -> 4

Rank(l) ==
  CASE l = Org                    -> 1
    [] l[1] \in {"item:", "movement:", "order"} -> 2
    [] l[1] \in {"location", "movement"}        -> 3
    [] l[1] = "item"              -> 4
    [] OTHER                      -> 5

(* Mutant: a stock command takes no lock on its idempotency key.            *)
ChangeWithoutKey(c) == {Location(c.branch), Item(c.item), Balance(Place(c))}

ChangeLocks(c) ==
  {MovementKey(c.key), Location(c.branch), Item(c.item), Balance(Place(c))}

(* Mutant: a reversal reads its target without locking it.                  *)
TargetUnlocked(c) == {MovementKey(c.key), Balance(Place(c.target))}

ReverseLocks(c) ==
  {MovementKey(c.key), Movement(c.target.id), Balance(Place(c.target))}

UpdateLocks(c) ==
  {Org, Location(c.branch), Item(c.item)}
    \cup (IF c.threshold THEN {Balance(Place(c))} ELSE {})

SaveLocks(c) ==
  {Org} \cup (IF c.version = 0 THEN {} ELSE {Order(c.order)})
        \cup {Item(i) : i \in DOMAIN c.lines}

TransitionLocks(c) ==
  {Org, Order(c.order)}
    \cup (IF c.to = "ordered" THEN {Item(i) : i \in DOMAIN orders[c.order].lines} ELSE {})

ReceiveLocks(c) ==
  {Org, Order(c.order), Location(c.branch)}
    \cup UNION {{Item(i), Balance(<<i, c.branch>>)} : i \in DOMAIN c.lines}

Needs(c) ==
  CASE c.op = "create"     -> {Org, CreationKey(c.key), Location(c.branch)}
    [] c.op = "update"     -> UpdateLocks(c)
    [] c.op = "change"     -> ChangeLocks(c)
    [] c.op = "reverse"    -> ReverseLocks(c)
    [] c.op = "save"       -> SaveLocks(c)
    [] c.op = "transition" -> TransitionLocks(c)
    [] c.op = "receive"    -> ReceiveLocks(c)
    [] OTHER               -> {}

Missing(t) == Needs(txn[t].cmd) \ txn[t].held

Wants(t) ==
  LET open == {l \in Missing(t) : l[1] = "balance" /\ Item(l[2][1]) \in txn[t].held}
  IN  IF open # {} THEN open
      ELSE {l \in Missing(t) : \A k \in Missing(t) : Rank(l) <= Rank(k)}

-----------------------------------------------------------------------------
(* What a command must find under each lock to go on.                       *)

Active(i) == items[i].status = "active"

Remaining(o, i) == orders[o].lines[i].qty - Received(o, i)

OrderAdmits(c) ==
  LET o == orders[c.order] IN
  /\ o # NoOrder
  /\ o.branch = c.branch
  /\ o.version = c.version
  /\ CASE c.op = "save"       -> o.status = "draft"
       [] c.op = "transition" -> \/ o.status = "draft"
                                 \/ o.status = "ordered" /\ c.to = "cancelled"
       [] c.op = "receive"    -> /\ o.status \in {"ordered", "partially_received"}
                                 /\ \A r \in receipts : r.key # c.key
                                 /\ DOMAIN c.lines \subseteq DOMAIN o.lines
                                 /\ \A i \in DOMAIN c.lines :
                                      c.lines[i] <= Remaining(c.order, i)

(* Mutant: a receipt does not compare the item's unit with the order's.     *)
ItemActive(c, i) == items[i] # NoItem /\ (c.op # "update" => Active(i))

ItemAdmits(c, i) ==
  /\ items[i] # NoItem
  /\ c.op # "update" => Active(i)
  /\ c.op \in {"transition", "receive"} =>
       items[i].unit = orders[c.order].lines[i].unit
  /\ c.op = "update" /\ items[i].unit # c.unit => \A m \in movements : m.item # i

Reversible(m) ==
  /\ m.kind \in {"opening", "change"}
  /\ \A n \in movements : n.reverses # {m.id}

Delta(c) == IF c.op = "reverse" THEN -c.target.delta ELSE c.delta

BalanceAdmits(c, p) == c.op \in {"change", "reverse"} => balances[p] + Delta(c) >= 0

Admits(c, l) ==
  CASE l[1] = "item:"     -> \A i \in Items : items[i] # NoItem => c.key \notin items[i].key
    [] l[1] = "movement:" -> \A m \in movements : m.id # c.key
    [] l[1] = "order"     -> OrderAdmits(c)
    [] l[1] = "movement"  -> Reversible(c.target)
    [] l[1] = "item"      -> ItemAdmits(c, l[2])
    [] l[1] = "balance"   -> BalanceAdmits(c, l[2])
    [] OTHER              -> TRUE

-----------------------------------------------------------------------------
(* Steps of a command: begin, one lock after the other, commit or abort.    *)

(* Clients name rows they have seen.                                        *)
Known(c) ==
  CASE c.op = "create"              -> items[c.item] = NoItem
    [] c.op \in {"update", "change"} -> items[c.item] # NoItem
    [] c.op = "reverse"             -> c.target \in movements
    [] c.op = "save" /\ c.version = 0 -> orders[c.order] = NoOrder
    [] OTHER                        -> /\ orders[c.order] # NoOrder
                                       /\ c.version <= orders[c.order].version

Begin(t, c) ==
  /\ txn[t] = Idle
  /\ Known(c)
  /\ txn' = [txn EXCEPT ![t] = [cmd |-> c, held |-> {}]]
  /\ UNCHANGED <<items, balances, movements, orders, receipts>>

BeginReverse(t) ==
  \E k \in Keys, m \in movements : Begin(t, [op |-> "reverse", key |-> k, target |-> m])

Acquire(t) ==
  /\ \E l \in Wants(t) :
       /\ Free(l)
       /\ Admits(txn[t].cmd, l)
       /\ txn' = [txn EXCEPT ![t].held = @ \cup {l}]
  /\ UNCHANGED <<items, balances, movements, orders, receipts>>

(* A refusal, the replay of a stored result, or a lost connection.          *)
Abort(t) ==
  /\ txn[t] # Idle
  /\ txn' = [txn EXCEPT ![t] = Idle]
  /\ UNCHANGED <<items, balances, movements, orders, receipts>>

Ready(t, op) == txn[t].cmd.op = op /\ Wants(t) = {}

(* Inserts movements, at most one per balance, and adds each to its balance.*)
Post(new) ==
  /\ \A m \in new, n \in movements : m.id # n.id
  /\ movements' = movements \cup new
  /\ balances' = [p \in Places |->
                    IF \E m \in new : Place(m) = p
                    THEN balances[p] + (CHOOSE m \in new : Place(m) = p).delta
                    ELSE balances[p]]

CommitCreate(t) ==
  LET c == txn[t].cmd IN
  /\ Ready(t, "create")
  /\ items[c.item] = NoItem
  /\ items' = [items EXCEPT ![c.item] =
                 [status |-> "active", unit |-> c.unit, key |-> {c.key}]]
  /\ Post(IF c.opening = 0 THEN {}
          ELSE {Row(c.key, "opening", Place(c), c.opening, {})})
  /\ txn' = [txn EXCEPT ![t] = Idle]
  /\ UNCHANGED <<orders, receipts>>

(* Mutant: the upsert of a reorder threshold also writes the quantity.      *)
UpdateResetsQuantity(t) ==
  LET c == txn[t].cmd IN
  /\ Ready(t, "update")
  /\ items' = [items EXCEPT ![c.item].status = c.status, ![c.item].unit = c.unit]
  /\ balances' = IF c.threshold THEN [balances EXCEPT ![Place(c)] = 0] ELSE balances
  /\ txn' = [txn EXCEPT ![t] = Idle]
  /\ UNCHANGED <<movements, orders, receipts>>

(* The reorder threshold itself is not kept.                                *)
CommitUpdate(t) ==
  LET c == txn[t].cmd IN
  /\ Ready(t, "update")
  /\ items' = [items EXCEPT ![c.item].status = c.status, ![c.item].unit = c.unit]
  /\ txn' = [txn EXCEPT ![t] = Idle]
  /\ UNCHANGED <<balances, movements, orders, receipts>>

CommitChange(t) ==
  LET c == txn[t].cmd IN
  /\ Ready(t, "change")
  /\ Post({Row(c.key, "change", Place(c), c.delta, {})})
  /\ txn' = [txn EXCEPT ![t] = Idle]
  /\ UNCHANGED <<items, orders, receipts>>

CommitReverse(t) ==
  LET c == txn[t].cmd IN
  /\ Ready(t, "reverse")
  /\ Post({Row(c.key, "reversal", Place(c.target), -c.target.delta, {c.target.id})})
  /\ txn' = [txn EXCEPT ![t] = Idle]
  /\ UNCHANGED <<items, orders, receipts>>

(* Every write of an order row raises its version.                          *)
SetOrder(o, row) ==
  /\ row.version <= MaxVersion
  /\ orders' = [orders EXCEPT ![o] = row]

(* The lines are deleted and inserted anew, with the items' units copied.   *)
CommitSave(t) ==
  LET c == txn[t].cmd IN
  /\ Ready(t, "save")
  /\ c.version = 0 => orders[c.order] = NoOrder
  /\ SetOrder(c.order, [status |-> "draft", version |-> c.version + 1, branch |-> c.branch,
                        lines |-> [i \in DOMAIN c.lines |->
                                    [qty |-> c.lines[i], unit |-> items[i].unit]]])
  /\ txn' = [txn EXCEPT ![t] = Idle]
  /\ UNCHANGED <<items, balances, movements, receipts>>

CommitTransition(t) ==
  LET c == txn[t].cmd IN
  /\ Ready(t, "transition")
  /\ SetOrder(c.order, [orders[c.order] EXCEPT !.status = c.to, !.version = @ + 1])
  /\ txn' = [txn EXCEPT ![t] = Idle]
  /\ UNCHANGED <<items, balances, movements, receipts>>

Complete(o, rs) ==
  \A i \in DOMAIN orders[o].lines : TakenBy(rs, o, i) = orders[o].lines[i].qty

CommitReceive(t) ==
  LET c == txn[t].cmd IN
  /\ Ready(t, "receive")
  /\ Post({Row(<<c.key, i>>, "receipt", <<i, c.branch>>, c.lines[i], {}) :
            i \in DOMAIN c.lines})
  /\ receipts' = receipts \cup {c}
  /\ SetOrder(c.order, [orders[c.order] EXCEPT
                          !.status = IF Complete(c.order, receipts') THEN "received"
                                     ELSE "partially_received",
                          !.version = @ + 1])
  /\ txn' = [txn EXCEPT ![t] = Idle]
  /\ UNCHANGED items

Next ==
  \E t \in Txns :
    \/ \E c \in CreateCmd \cup UpdateCmd \cup ChangeCmd : Begin(t, c)
    \/ \E c \in SaveCmd \cup TransitionCmd \cup ReceiveCmd : Begin(t, c)
    \/ BeginReverse(t)
    \/ Acquire(t) \/ Abort(t)
    \/ CommitCreate(t) \/ CommitUpdate(t) \/ CommitChange(t) \/ CommitReverse(t)
    \/ CommitSave(t) \/ CommitTransition(t) \/ CommitReceive(t)

Spec == Init /\ [][Next]_vars

-----------------------------------------------------------------------------
(* Properties.                                                              *)

(* Whatever runs concurrently, the quantity that reads and the dashboard    *)
(* show is the sum of the movements of that item in that branch.            *)
BalanceIsLedger ==
  \A p \in Places :
    balances[p] = MapThenSumSet(LAMBDA m : m.delta, {m \in movements : Place(m) = p})

(* A stock command that got its locks is not refused by the unique index on *)
(* keys because the same key was used meanwhile: a retry that races the     *)
(* original call gets the original's movement, not a conflict.  Only the    *)
(* opening movement of an item creation, keyed under another lock, may      *)
(* still be in the way.                                                     *)
RetriesAgree ==
  \A t \in Txns : Ready(t, "change") \/ Ready(t, "reverse") =>
    \A m \in movements : m.id = txn[t].cmd.key => m.kind = "opening"

(* No receipt, whatever the order's version its client had seen and however *)
(* many run at once, takes more than was ordered, and the status of an      *)
(* order says how much of it has come.                                      *)
OrdersMatchReceipts ==
  \A o \in Orders : orders[o] # NoOrder =>
    LET lines == orders[o].lines
        some  == \E r \in receipts : r.order = o
        all   == \A i \in DOMAIN lines : Received(o, i) = lines[i].qty
    IN  /\ \A i \in DOMAIN lines : Received(o, i) <= lines[i].qty
        /\ orders[o].status \in {"partially_received", "received"} <=> some
        /\ orders[o].status = "received" <=> all

(* Goods are booked in the unit they were ordered in, although the item's   *)
(* unit may change between the order and its first movement.                *)
ReceivedInOrderedUnit ==
  \A r \in receipts : \A i \in DOMAIN r.lines :
    items[i].unit = orders[r.order].lines[i].unit

(* An order and its receipts tell one story, in quantities and in units.    *)
ReceiptsMatchOrders == OrdersMatchReceipts /\ ReceivedInOrderedUnit

WaitsFor(t, u) == Wants(t) \cap txn[u].held # {}

(* No set of sessions has all its members waiting for each other's locks.   *)
NoDeadlock ==
  \A S \in SUBSET Txns : S # {} =>
    \E t \in S : \A u \in S \ {t} : ~WaitsFor(t, u)

(* The inventory part keeps the promises of StockLedger.                    *)
Ledger == INSTANCE StockLedger
LedgerSpec == Ledger!Spec
=============================================================================
