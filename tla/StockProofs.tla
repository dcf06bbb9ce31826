------------------------------ MODULE StockProofs ------------------------------
(***************************************************************************)
(* Proofs about Stock for every number of sessions, items, branches, keys  *)
(* and orders.                                                             *)
(***************************************************************************)
EXTENDS Stock, SumProofs

-----------------------------------------------------------------------------
(* Locks.  A session holds some of what its command needs, nobody else     *)
(* holds it too, and it took it in the order of the ranks, but for the     *)
(* items and balances of a receipt.                                        *)

Shape == txn = [t \in Txns |-> [cmd |-> txn[t].cmd, held |-> txn[t].held]]

CommandsInv == \A t \in Txns : txn[t] = Idle \/ txn[t].cmd \in Commands

HeldIsNeeded == \A t \in Txns : txn[t].held \subseteq Needs(txn[t].cmd)

Exclusive == \A t, u \in Txns : t # u => txn[t].held \cap txn[u].held = {}

InOrder ==
  \A t \in Txns : \A l \in txn[t].held :
    /\ \A k \in Needs(txn[t].cmd) : Rank(k) < Rank(l) /\ Rank(k) <= 3 => k \in txn[t].held
    /\ l[1] = "balance" /\ Item(l[2][1]) \in Needs(txn[t].cmd) => Item(l[2][1]) \in txn[t].held

LockInv == Shape /\ CommandsInv /\ HeldIsNeeded /\ Exclusive /\ InOrder

LEMMA RankByName ==
  ASSUME NEW l
  PROVE  /\ l = Org => Rank(l) = 1
         /\ l # Org =>
              /\ l[1] \in {"item:", "movement:", "order"} => Rank(l) = 2
              /\ l[1] \in {"location", "movement"} => Rank(l) = 3
              /\ l[1] = "item" => Rank(l) = 4
              /\ l[1] \notin {"item:", "movement:", "order", "location", "movement", "item"} => Rank(l) = 5
<1>1. Org[1] = "organization"
  BY DEF Org
<1>2. CASE l = Org
  BY <1>1, <1>2, Zenon DEF Rank
<1>3. CASE l # Org /\ l[1] \in {"item:", "movement:", "order"}
  BY <1>3, Zenon DEF Rank
<1>4. CASE l # Org /\ l[1] \in {"location", "movement"}
  BY <1>4, Zenon DEF Rank
<1>5. CASE l # Org /\ l[1] = "item"
  BY <1>5, Zenon DEF Rank
<1>6. CASE l # Org /\ l[1] \notin {"item:", "movement:", "order", "location", "movement", "item"}
  BY <1>6, Zenon DEF Rank
<1> QED
  BY <1>2, <1>3, <1>4, <1>5, <1>6, Zenon

LEMMA Ranks ==
  /\ Rank(Org) = 1
  /\ \A k : Rank(CreationKey(k)) = 2 /\ Rank(MovementKey(k)) = 2 /\ Rank(Order(k)) = 2
  /\ \A k : Rank(Location(k)) = 3 /\ Rank(Movement(k)) = 3
  /\ \A k : Rank(Item(k)) = 4 /\ Rank(Balance(k)) = 5
  /\ \A l : Rank(l) \in 1 .. 5
<1>1. Org[1] = "organization"
  BY DEF Org
<1>2. \A k : /\ CreationKey(k)[1] = "item:" /\ MovementKey(k)[1] = "movement:" /\ Order(k)[1] = "order"
             /\ Location(k)[1] = "location" /\ Movement(k)[1] = "movement"
             /\ Item(k)[1] = "item" /\ Balance(k)[1] = "balance"
  BY DEF CreationKey, MovementKey, Order, Location, Movement, Item, Balance
<1>3. \A l : /\ l = Org => Rank(l) = 1
             /\ l # Org =>
                  /\ l[1] \in {"item:", "movement:", "order"} => Rank(l) = 2
                  /\ l[1] \in {"location", "movement"} => Rank(l) = 3
                  /\ l[1] = "item" => Rank(l) = 4
                  /\ l[1] \notin {"item:", "movement:", "order", "location", "movement", "item"} => Rank(l) = 5
  BY RankByName
<1> HIDE DEF Org, CreationKey, MovementKey, Order, Location, Movement, Item, Balance
<1> QED
  BY <1>1, <1>2, <1>3

LEMMA LockNames ==
  /\ \A k : Balance(k)[1] = "balance" /\ Balance(k)[2] = k
  /\ \A k : Item(k)[1] = "item" /\ Item(k)[2] = k
  /\ \A k, m : MovementKey(k) # Order(m) /\ MovementKey(k) # CreationKey(m)
  /\ \A k, m : Location(k) # Movement(m)
  /\ \A k, m : MovementKey(k) = MovementKey(m) => k = m
  /\ \A k, m : Movement(k) = Movement(m) => k = m
  /\ Org[1] # "balance" /\ \A k : Location(k)[1] # "balance" /\ MovementKey(k)[1] # "balance"
       /\ CreationKey(k)[1] # "balance" /\ Order(k)[1] # "balance" /\ Movement(k)[1] # "balance"
  BY DEF Org, CreationKey, MovementKey, Order, Location, Movement, Item, Balance

LEMMA Operations ==
  ASSUME NEW c \in Commands
  PROVE  /\ c.op = "create"     => c \in CreateCmd
         /\ c.op = "update"     => c \in UpdateCmd
         /\ c.op = "change"     => c \in ChangeCmd
         /\ c.op = "reverse"    => c \in ReverseCmd
         /\ c.op = "save"       => c \in SaveCmd
         /\ c.op = "transition" => c \in TransitionCmd
         /\ c.op = "receive"    => c \in ReceiveCmd
         /\ c.op \in {"create", "update", "change", "reverse", "save", "transition", "receive"}
  BY DEF Commands, CreateCmd, UpdateCmd, ChangeCmd, ReverseCmd, SaveCmd, TransitionCmd, ReceiveCmd

(* What is wanted comes next: the balance of an item that is held, or what  *)
(* has the lowest rank of all that is missing.                              *)
LEMMA WantsIsNext ==
  ASSUME NEW t \in Txns
  PROVE  /\ Wants(t) \subseteq Missing(t)
         /\ Wants(t) = {} => Missing(t) = {}
         /\ \A l \in Wants(t) :
              \/ l[1] = "balance" /\ Item(l[2][1]) \in txn[t].held
              \/ \A k \in Missing(t) : Rank(l) <= Rank(k)
<1>1. ASSUME Missing(t) # {} PROVE \E l \in Missing(t) : \A k \in Missing(t) : Rank(l) <= Rank(k)
  <2> DEFINE R(n) == \E l \in Missing(t) : Rank(l) = n
  <2>1. R(1) \/ R(2) \/ R(3) \/ R(4) \/ R(5)
    BY <1>1, Ranks
  <2>2. \E n \in 1 .. 5 : R(n) /\ \A m \in 1 .. 5 : R(m) => n <= m
    <3> HIDE DEF R
    <3> QED
      BY <2>1
  <2> QED
    BY <2>2, Ranks
<1> QED
  BY <1>1 DEF Wants

(* What each command needs.                                                 *)
LEMMA NeedsByOperation ==
  ASSUME NEW c
  PROVE  /\ c.op = "create"     => Needs(c) = {Org, CreationKey(c.key), Location(c.branch)}
         /\ c.op = "update"     => Needs(c) = UpdateLocks(c)
         /\ c.op = "change"     => Needs(c) = ChangeLocks(c)
         /\ c.op = "reverse"    => Needs(c) = ReverseLocks(c)
         /\ c.op = "save"       => Needs(c) = SaveLocks(c)
         /\ c.op = "transition" => Needs(c) = TransitionLocks(c)
         /\ c.op = "receive"    => Needs(c) = ReceiveLocks(c)
         /\ c.op = "idle"       => Needs(c) = {}
<1>1. c.op = "create" => Needs(c) = {Org, CreationKey(c.key), Location(c.branch)}
  BY Zenon DEF Needs
<1>2. c.op = "update" => Needs(c) = UpdateLocks(c)
  BY Zenon DEF Needs
<1>3. c.op = "change" => Needs(c) = ChangeLocks(c)
  BY Zenon DEF Needs
<1>4. c.op = "reverse" => Needs(c) = ReverseLocks(c)
  BY Zenon DEF Needs
<1>5. c.op = "save" => Needs(c) = SaveLocks(c)
  BY Zenon DEF Needs
<1>6. c.op = "transition" => Needs(c) = TransitionLocks(c)
  BY Zenon DEF Needs
<1>7. c.op = "receive" => Needs(c) = ReceiveLocks(c)
  BY Zenon DEF Needs
<1>8. c.op = "idle" => Needs(c) = {}
  BY Zenon DEF Needs
<1> QED
  BY <1>1, <1>2, <1>3, <1>4, <1>5, <1>6, <1>7, <1>8

LEMMA LocksBegin == Init => LockInv
  BY NeedsByOperation DEF Init, LockInv, Shape, CommandsInv, HeldIsNeeded, Exclusive, InOrder, Idle

LEMMA WantedInOrder ==
  ASSUME LockInv, NEW t \in Txns, NEW l \in Wants(t)
  PROVE  /\ \A k \in Needs(txn[t].cmd) : Rank(k) < Rank(l) /\ Rank(k) <= 3 => k \in txn[t].held
         /\ l[1] = "balance" /\ Item(l[2][1]) \in Needs(txn[t].cmd) => Item(l[2][1]) \in txn[t].held
<1> DEFINE c == txn[t].cmd
           h == txn[t].held
<1>1. \A k \in Needs(c) : Rank(k) < Rank(l) /\ Rank(k) <= 3 => k \in h
  <2>1. CASE \A k \in Missing(t) : Rank(l) <= Rank(k)
    BY <2>1, Ranks DEF Missing
  <2>2. CASE l[1] = "balance" /\ Item(l[2][1]) \in h
    BY <2>2, Ranks DEF LockInv, InOrder
  <2> QED
    BY <2>1, <2>2, WantsIsNext
<1>2. l[1] = "balance" /\ Item(l[2][1]) \in Needs(c) => Item(l[2][1]) \in h
  <2>1. SUFFICES ASSUME l[1] = "balance", \A k \in Missing(t) : Rank(l) <= Rank(k), Item(l[2][1]) \in Needs(c)
                 PROVE  Item(l[2][1]) \in h
    BY WantsIsNext
  <2>2. Rank(l) = 5
    <3>1. l # Org
      BY <2>1, LockNames
    <3> QED
      BY <2>1, <3>1, RankByName
  <2> QED
    BY <2>1, <2>2, Ranks DEF Missing
<1> QED
  BY <1>1, <1>2

(* A session that gets a lock still has them in order.                      *)
LEMMA AcquireKeepsLocks ==
  ASSUME LockInv, NEW t \in Txns, Acquire(t)
  PROVE  LockInv'
<1> DEFINE c == txn[t].cmd
           h == txn[t].held
<1>1. PICK l \in Wants(t) : Free(l) /\ txn' = [txn EXCEPT ![t].held = @ \cup {l}]
  BY DEF Acquire
<1>2. UNCHANGED orders
  BY DEF Acquire
<1>3. \A u \in Txns : txn'[u].cmd = txn[u].cmd
  BY <1>1 DEF LockInv, Shape
<1>4. txn'[t].held = h \cup {l} /\ \A u \in Txns \ {t} : txn'[u] = txn[u]
  BY <1>1 DEF LockInv, Shape
<1>5. Shape'
  <2>1. txn' = [u \in Txns |-> txn'[u]]
    BY <1>1 DEF LockInv, Shape
  <2>2. txn'[t] = [cmd |-> c, held |-> h \cup {l}]
    <3>1. txn'[t] = [txn[t] EXCEPT !.held = @ \cup {l}]
      BY <1>1 DEF LockInv, Shape
    <3>2. txn[t] = [cmd |-> c, held |-> h]
      BY DEF LockInv, Shape
    <3> QED
      BY <3>1, <3>2
  <2>3. \A u \in Txns : txn'[u] = [cmd |-> txn'[u].cmd, held |-> txn'[u].held]
    BY <1>4, <2>2 DEF LockInv, Shape
  <2> QED
    BY <2>1, <2>3, Zenon DEF Shape
<1>6. \A b : Needs(b)' = Needs(b)
  BY <1>2 DEF Needs, UpdateLocks, ChangeLocks, ReverseLocks, SaveLocks, TransitionLocks, ReceiveLocks
<1>7. l \in Needs(c) /\ l \notin h
  BY <1>1, WantsIsNext DEF Missing
<1>8. CommandsInv'
  <2>1. c # Idle.cmd
    BY <1>7, NeedsByOperation DEF Idle
  <2>2. c \in Commands
    BY <2>1 DEF LockInv, CommandsInv
  <2> QED
    BY <1>3, <1>4, <2>2 DEF LockInv, CommandsInv
<1>9. HeldIsNeeded'
  BY <1>3, <1>4, <1>6, <1>7 DEF LockInv, HeldIsNeeded
<1>10. Exclusive'
  BY <1>1, <1>4 DEF LockInv, Exclusive, Free
<1>11. /\ \A k \in Needs(c) : Rank(k) < Rank(l) /\ Rank(k) <= 3 => k \in h
       /\ l[1] = "balance" /\ Item(l[2][1]) \in Needs(c) => Item(l[2][1]) \in h
  BY <1>1, WantedInOrder
<1>12. InOrder'
  BY <1>3, <1>4, <1>6, <1>11 DEF LockInv, InOrder
<1> QED
  BY <1>5, <1>8, <1>9, <1>10, <1>12 DEF LockInv

(* One that ends has none.                                                  *)
LEMMA EndingKeepsLocks ==
  ASSUME LockInv, NEW t \in Txns, txn' = [txn EXCEPT ![t] = Idle],
         \A u \in Txns \ {t} : \A b : b = txn[u].cmd /\ txn[u].held # {} => Needs(b)' = Needs(b)
  PROVE  LockInv'
<1>1. txn' = [u \in Txns |-> txn'[u]]
  BY DEF LockInv, Shape
<1>2. txn'[t] = Idle /\ \A u \in Txns \ {t} : txn'[u] = txn[u]
  BY DEF LockInv, Shape
<1>3. Shape'
  <2>1. \A u \in Txns : txn'[u] = [cmd |-> txn'[u].cmd, held |-> txn'[u].held]
    BY <1>2 DEF LockInv, Shape, Idle
  <2> QED
    BY <1>1, <2>1, Zenon DEF Shape
<1>4. CommandsInv'
  BY <1>2 DEF LockInv, CommandsInv
<1>5. HeldIsNeeded'
  BY <1>2 DEF LockInv, HeldIsNeeded, Idle
<1>6. Exclusive'
  BY <1>2 DEF LockInv, Exclusive, Idle
<1>7. InOrder'
  BY <1>2 DEF LockInv, InOrder, Idle
<1> QED
  BY <1>3, <1>4, <1>5, <1>6, <1>7 DEF LockInv

LEMMA BeginningKeepsLocks ==
  ASSUME LockInv, NEW t \in Txns, NEW c \in Commands, Begin(t, c)
  PROVE  LockInv'
<1>1. txn' = [txn EXCEPT ![t] = [cmd |-> c, held |-> {}]] /\ UNCHANGED orders
  BY DEF Begin
<1>2. txn' = [u \in Txns |-> txn'[u]]
  BY <1>1 DEF LockInv, Shape
<1>3. txn'[t] = [cmd |-> c, held |-> {}] /\ \A u \in Txns \ {t} : txn'[u] = txn[u]
  BY <1>1 DEF LockInv, Shape
<1>4. \A b : Needs(b)' = Needs(b)
  BY <1>1 DEF Needs, UpdateLocks, ChangeLocks, ReverseLocks, SaveLocks, TransitionLocks, ReceiveLocks
<1>5. Shape'
  <2>1. \A u \in Txns : txn'[u] = [cmd |-> txn'[u].cmd, held |-> txn'[u].held]
    BY <1>3 DEF LockInv, Shape
  <2> QED
    BY <1>2, <2>1, Zenon DEF Shape
<1>6. CommandsInv'
  BY <1>3 DEF LockInv, CommandsInv
<1>7. HeldIsNeeded'
  BY <1>3, <1>4 DEF LockInv, HeldIsNeeded
<1>8. Exclusive'
  BY <1>3 DEF LockInv, Exclusive
<1>9. InOrder'
  BY <1>3, <1>4 DEF LockInv, InOrder
<1> QED
  BY <1>5, <1>6, <1>7, <1>8, <1>9 DEF LockInv

(* A command of the organization that holds anything holds its row.         *)
Organizes(c) == c.op \in {"create", "update", "save", "transition", "receive"}

LEMMA OrganizationFirst ==
  ASSUME LockInv, NEW t \in Txns, Organizes(txn[t].cmd), txn[t].held # {}
  PROVE  Org \in txn[t].held
<1> DEFINE c == txn[t].cmd
<1>1. Org \in Needs(c)
  BY NeedsByOperation DEF Organizes, UpdateLocks, SaveLocks, TransitionLocks, ReceiveLocks
<1>2. PICK l \in txn[t].held : TRUE
  OBVIOUS
<1>3. l = Org \/ Rank(l) > 1
  BY Ranks, RankByName
<1> QED
  BY <1>1, <1>2, <1>3, Ranks DEF LockInv, InOrder

(* Orders are written under the organization's row, so that what another    *)
(* needs does not change once it holds anything.                            *)
LEMMA OrganizationKeepsNeeds ==
  ASSUME LockInv, NEW t \in Txns, Org \in txn[t].held,
         NEW u \in Txns \ {t}, txn[u].held # {}, NEW c, c = txn[u].cmd
  PROVE  Needs(c)' = Needs(c)
<1>1. ~Organizes(c)
  BY OrganizationFirst DEF LockInv, Exclusive
<1>2. c.op \in {"change", "reverse", "idle"}
  BY <1>1, Operations DEF LockInv, CommandsInv, Idle, Organizes
<1>3. c.op = "change" => Needs(c) = ChangeLocks(c) /\ Needs(c)' = ChangeLocks(c)
  BY Zenon DEF Needs, ChangeLocks
<1>4. c.op = "reverse" => Needs(c) = ReverseLocks(c) /\ Needs(c)' = ReverseLocks(c)
  BY Zenon DEF Needs, ReverseLocks
<1>5. c.op = "idle" => Needs(c) = {} /\ Needs(c)' = {}
  BY Zenon DEF Needs
<1> QED
  BY <1>2, <1>3, <1>4, <1>5

(* How far a session has come.  Whoever waits for a session that itself     *)
(* waits has come less far.                                                 *)
Progress(t) ==
  LET c == txn[t].cmd
      h == txn[t].held
  IN  IF c.op = "change"
      THEN IF Item(c.item) \in h THEN 7
           ELSE IF Location(c.branch) \in h THEN 4
           ELSE IF MovementKey(c.key) \in h THEN 3 ELSE 2
      ELSE IF c.op = "reverse"
      THEN IF Movement(c.target.id) \in h THEN 5
           ELSE IF MovementKey(c.key) \in h THEN 3 ELSE 2
      ELSE IF Org \notin h THEN 1
           ELSE IF Location(c.branch) \in Missing(t) THEN 3 ELSE 6

(* A stock command that has its balance has all it needs.                   *)
LEMMA BalanceIsLast ==
  ASSUME LockInv, NEW t \in Txns, txn[t].cmd.op \in {"change", "reverse"}, NEW p, Balance(p) \in txn[t].held
  PROVE  Wants(t) = {}
<1> DEFINE c == txn[t].cmd
           h == txn[t].held
<1>1. \A k \in Needs(c) : Rank(k) <= 3 => k \in h
  BY Ranks DEF LockInv, InOrder
<1>2. CASE c.op = "change"
  <2>1. Needs(c) = ChangeLocks(c)
    BY <1>2, NeedsByOperation
  <2>2. p = Place(c) /\ p[1] = c.item
    BY <2>1, Ranks, LockNames DEF LockInv, HeldIsNeeded, ChangeLocks, Place
  <2>3. Item(c.item) \in h
    BY <2>1, <2>2, LockNames DEF LockInv, InOrder, ChangeLocks
  <2> QED
    BY <1>1, <2>1, <2>2, <2>3, WantsIsNext, Ranks DEF ChangeLocks, Missing
<1>3. CASE c.op = "reverse"
  <2>1. Needs(c) = ReverseLocks(c)
    BY <1>3, NeedsByOperation
  <2>2. p = Place(c.target)
    BY <2>1, Ranks, LockNames DEF LockInv, HeldIsNeeded, ReverseLocks
  <2> QED
    BY <1>1, <2>1, <2>2, WantsIsNext, Ranks DEF ReverseLocks, Missing
<1> QED
  BY <1>2, <1>3

LEMMA ProgressType == ASSUME NEW t PROVE Progress(t) \in 1 .. 7
  BY DEF Progress

LEMMA LinesToReceive ==
  ASSUME NEW c, NEW l \in ReceiveLocks(c)
  PROVE  \/ l \in {Org, Order(c.order), Location(c.branch)}
         \/ \E i \in DOMAIN c.lines : l = Item(i) \/ l = Balance(<<i, c.branch>>)
<1> HIDE DEF Item, Balance, Org, Order, Location
<1> QED
  BY Zenon DEF ReceiveLocks

LEMMA OneLocation ==
  ASSUME NEW c, Organizes(c), NEW l \in Needs(c), Rank(l) = 3
  PROVE  l = Location(c.branch)
<1>1. ASSUME l \in {Org, Order(c.order), CreationKey(c.key)} \/ \E i : l = Item(i) \/ l = Balance(i)
      PROVE  FALSE
  BY <1>1, Ranks
<1>2. CASE c.op = "create"
  BY <1>1, <1>2, NeedsByOperation
<1>3. CASE c.op = "update"
  BY <1>1, <1>3, NeedsByOperation DEF UpdateLocks
<1>4. CASE c.op = "save"
  BY <1>1, <1>4, NeedsByOperation DEF SaveLocks
<1>5. CASE c.op = "transition"
  BY <1>1, <1>5, NeedsByOperation DEF TransitionLocks
<1>6. CASE c.op = "receive"
  BY <1>1, <1>6, NeedsByOperation, LinesToReceive
<1> QED
  BY <1>2, <1>3, <1>4, <1>5, <1>6 DEF Organizes

LEMMA HolderProgress ==
  ASSUME LockInv, NEW t \in Txns, NEW l \in txn[t].held, Wants(t) # {}
  PROVE  LET c == txn[t].cmd
             r == Rank(l)
         IN  /\ Progress(t) >= 3
             /\ c.op = "change"  => (r = 3 => Progress(t) >= 4) /\ (r = 4 => Progress(t) = 7) /\ r # 5
             /\ c.op = "reverse" => (r = 3 => Progress(t) = 5) /\ r # 4 /\ r # 5
             /\ Organizes(c)     => (r >= 3 => Progress(t) = 6) /\ Org \in txn[t].held
<1> DEFINE c == txn[t].cmd
           h == txn[t].held
<1>1. l \in Needs(c) /\ \A k \in Needs(c) : Rank(k) < Rank(l) /\ Rank(k) <= 3 => k \in h
  BY DEF LockInv, HeldIsNeeded, InOrder
<1>2. CASE c.op = "change"
  <2>1. Needs(c) = ChangeLocks(c)
    BY <1>2, NeedsByOperation
  <2>2. l # Balance(Place(c))
    BY <1>2, BalanceIsLast
  <2> QED
    BY <1>1, <1>2, <2>1, <2>2, Ranks DEF ChangeLocks, Progress, Organizes
<1>3. CASE c.op = "reverse"
  <2>1. Needs(c) = ReverseLocks(c)
    BY <1>3, NeedsByOperation
  <2>2. l # Balance(Place(c.target))
    BY <1>3, BalanceIsLast
  <2> QED
    BY <1>1, <1>3, <2>1, <2>2, Ranks DEF ReverseLocks, Progress, Organizes
<1>4. CASE Organizes(c)
  <2>1. Org \in h
    BY <1>4, OrganizationFirst
  <2>2. Rank(l) > 3 => Location(c.branch) \notin Missing(t)
    BY <1>1, Ranks DEF Missing
  <2>3. Rank(l) = 3 => l = Location(c.branch)
    BY <1>1, <1>4, OneLocation
  <2> QED
    BY <1>4, <2>1, <2>2, <2>3, Ranks DEF Progress, Organizes, Missing
<1>5. c.op \in {"change", "reverse"} \/ Organizes(c)
  BY <1>1, Operations, NeedsByOperation DEF LockInv, CommandsInv, Organizes, Idle
<1> QED
  BY <1>2, <1>3, <1>4, <1>5

LEMMA WaiterProgress ==
  ASSUME LockInv, NEW t \in Txns, NEW l \in Wants(t)
  PROVE  LET c == txn[t].cmd
             r == Rank(l)
         IN  /\ c.op = "change"  => r \in 2 .. 5 /\ (r < 5 => Progress(t) = r)
             /\ c.op = "reverse" => r \in {2, 3, 5} /\ Progress(t) = r
             /\ Organizes(c)     => IF Org \notin txn[t].held THEN Progress(t) = 1
                                    ELSE Progress(t) <= 6 /\ (r = 3 => Progress(t) = 3)
<1> DEFINE c == txn[t].cmd
           h == txn[t].held
<1>1. l \in Needs(c) /\ l \notin h
  BY WantsIsNext DEF Missing
<1>2. \A k \in Needs(c) : Rank(k) < Rank(l) /\ Rank(k) <= 3 => k \in h
  BY WantedInOrder
<1>3. \A k \in h : Rank(l) <= 3 => Rank(k) <= Rank(l)
  BY <1>1, Ranks DEF LockInv, InOrder
<1>4. CASE c.op = "change"
  <2>1. Needs(c) = ChangeLocks(c)
    BY <1>4, NeedsByOperation
  <2>2. Rank(l) = 4 => l = Item(c.item)
    BY <1>1, <2>1, Ranks DEF ChangeLocks
  <2> QED
    BY <1>1, <1>2, <1>3, <1>4, <2>1, <2>2, Ranks DEF ChangeLocks, Progress, Organizes
<1>5. CASE c.op = "reverse"
  <2>1. Needs(c) = ReverseLocks(c)
    BY <1>5, NeedsByOperation
  <2> QED
    BY <1>1, <1>2, <1>3, <1>5, <2>1, Ranks DEF ReverseLocks, Progress, Organizes
<1>6. CASE Organizes(c)
  <2>1. Rank(l) = 3 => l = Location(c.branch)
    BY <1>1, <1>6, OneLocation
  <2> QED
    BY <1>1, <1>6, <2>1 DEF Progress, Organizes, Missing
<1> QED
  BY <1>4, <1>5, <1>6 DEF Organizes

LEMMA BalancesComeWithItems ==
  ASSUME NEW c, Organizes(c), NEW p, Balance(p) \in Needs(c)
  PROVE  Item(p[1]) \in Needs(c)
<1> DEFINE l == Balance(p)
<1>1. l[1] = "balance" /\ l[2] = p
  BY LockNames
<1>2. ASSUME l \in {Org, Order(c.order), CreationKey(c.key), Location(c.branch)} \/ \E i : l = Item(i)
      PROVE  FALSE
  BY <1>1, <1>2, LockNames
<1> HIDE DEF l
<1>3. CASE c.op = "update"
  <2>1. l \in {Org, Location(c.branch), Item(c.item), Balance(Place(c))} /\ Item(c.item) \in Needs(c)
    BY <1>3, NeedsByOperation DEF UpdateLocks, l
  <2>2. l = Balance(Place(c))
    BY <1>2, <2>1
  <2>3. p[1] = c.item
    BY <1>1, <2>2, LockNames DEF Place
  <2> QED
    BY <2>1, <2>3
<1>4. CASE c.op = "receive"
  <2>1. PICK i \in DOMAIN c.lines : l = Balance(<<i, c.branch>>)
    BY <1>2, <1>4, NeedsByOperation, LinesToReceive DEF l
  <2>2. p[1] = i
    BY <1>1, <2>1, LockNames
  <2> QED
    BY <1>4, <2>2, NeedsByOperation DEF ReceiveLocks
<1>5. CASE c.op = "create"
  BY <1>2, <1>5, NeedsByOperation DEF l
<1>6. CASE c.op = "save"
  BY <1>2, <1>6, NeedsByOperation DEF l, SaveLocks
<1>7. CASE c.op = "transition"
  BY <1>2, <1>7, NeedsByOperation DEF l, TransitionLocks
<1> QED
  BY <1>3, <1>4, <1>5, <1>6, <1>7 DEF Organizes

LEMMA KeysApart ==
  ASSUME NEW c, Organizes(c), NEW d, d.op \in {"change", "reverse"}, NEW l \in Needs(c) \cap Needs(d)
  PROVE  Rank(l) # 2
<1>1. SUFFICES ASSUME Rank(l) = 2 PROVE FALSE
  OBVIOUS
<1>2. l = MovementKey(d.key)
  BY <1>1, NeedsByOperation, Ranks DEF ChangeLocks, ReverseLocks
<1>3. ASSUME l \in {Org, Order(c.order), CreationKey(c.key), Location(c.branch)} \/ \E i : l = Item(i) \/ l = Balance(i)
      PROVE  FALSE
  BY <1>1, <1>2, <1>3, LockNames, Ranks
<1>4. CASE c.op = "create"
  BY <1>3, <1>4, NeedsByOperation
<1>5. CASE c.op = "update"
  BY <1>3, <1>5, NeedsByOperation DEF UpdateLocks
<1>6. CASE c.op = "save"
  BY <1>3, <1>6, NeedsByOperation DEF SaveLocks
<1>7. CASE c.op = "transition"
  BY <1>3, <1>7, NeedsByOperation DEF TransitionLocks
<1>8. CASE c.op = "receive"
  <2>1. l \in ReceiveLocks(c)
    BY <1>8, NeedsByOperation
  <2> QED
    BY <1>3, <2>1, LinesToReceive
<1> QED
  BY <1>4, <1>5, <1>6, <1>7, <1>8 DEF Organizes

LEMMA Rising ==
  ASSUME LockInv, NEW t \in Txns, NEW u \in Txns \ {t}, WaitsFor(t, u), Wants(u) # {}
  PROVE  Progress(t) < Progress(u)
<1> DEFINE c == txn[t].cmd
           d == txn[u].cmd
<1>1. PICK l \in Wants(t) : l \in txn[u].held
  BY DEF WaitsFor
<1>2. l \in Needs(c) /\ l \notin txn[t].held /\ l \in Needs(d)
  BY <1>1, WantsIsNext DEF Missing, LockInv, HeldIsNeeded
<1>3. /\ c.op \in {"change", "reverse"} \/ Organizes(c)
      /\ d.op \in {"change", "reverse"} \/ Organizes(d)
  BY <1>2, Operations, NeedsByOperation DEF LockInv, CommandsInv, Organizes, Idle
<1>4. CASE c.op \in {"change", "reverse"} /\ ~(c.op = "change" /\ Rank(l) = 5)
  BY <1>1, <1>3, <1>4, HolderProgress, WaiterProgress, ProgressType, Ranks
<1>5. CASE c.op = "change" /\ Rank(l) = 5
  <2>1. Needs(c) = ChangeLocks(c)
    BY <1>5, NeedsByOperation
  <2>2. l = Balance(Place(c)) /\ l[1] = "balance" /\ l[2][1] = c.item
    BY <1>2, <1>5, <2>1, Ranks, LockNames DEF ChangeLocks, Place
  <2>3. Item(c.item) \in txn[t].held
    BY <1>1, <2>1, <2>2, WantedInOrder DEF ChangeLocks
  <2>4. Organizes(d)
    BY <1>1, <1>3, <1>5, HolderProgress
  <2>5. Item(c.item) \in Needs(d)
    <3>1. Balance(Place(c)) \in Needs(d) /\ Place(c)[1] = c.item
      BY <1>2, <2>2 DEF Place
    <3> QED
      BY <2>4, <3>1, BalancesComeWithItems
  <2>6. Item(c.item) \in txn[u].held
    BY <1>1, <2>2, <2>5 DEF LockInv, InOrder
  <2> QED
    BY <2>3, <2>6 DEF LockInv, Exclusive
<1>6. CASE Organizes(c) /\ Org \in txn[t].held
  <2>1. d.op \in {"change", "reverse"}
    BY <1>1, <1>3, <1>6, HolderProgress DEF LockInv, Exclusive
  <2>2. Rank(l) \in 1 .. 5 /\ Rank(l) # 1
    <3>1. l # Org
      BY <1>2, <1>6
    <3> QED
      BY <3>1, Ranks, RankByName
  <2>3. Rank(l) # 2
    BY <1>2, <1>6, <2>1, KeysApart
  <2> QED
    BY <1>1, <1>6, <2>1, <2>2, <2>3, HolderProgress, WaiterProgress, ProgressType, Ranks
<1>7. CASE Organizes(c) /\ Org \notin txn[t].held
  BY <1>1, <1>7, HolderProgress, WaiterProgress, ProgressType, Ranks
<1> QED
  BY <1>3, <1>4, <1>5, <1>6, <1>7

LEMMA LocksPreventDeadlock == LockInv => NoDeadlock
<1> SUFFICES ASSUME LockInv, NEW S \in SUBSET Txns, S # {}
             PROVE  \E t \in S : \A u \in S \ {t} : ~WaitsFor(t, u)
  BY DEF NoDeadlock
<1>1. CASE \E t \in S : Wants(t) = {}
  BY <1>1 DEF WaitsFor
<1>2. CASE \A t \in S : Wants(t) # {}
  <2> DEFINE Reached(n) == \E t \in S : Progress(t) = n
  <2>1. \E n \in 1 .. 7 : Reached(n)
    BY ProgressType
  <2>2. \E n \in 1 .. 7 : Reached(n) /\ \A m \in 1 .. 7 : Reached(m) => m <= n
    <3> HIDE DEF Reached
    <3>1. Reached(1) \/ Reached(2) \/ Reached(3) \/ Reached(4) \/ Reached(5) \/ Reached(6) \/ Reached(7)
      BY <2>1
    <3> QED
      BY <3>1
  <2>3. PICK t \in S : \A u \in S : Progress(u) <= Progress(t)
    BY <2>2, ProgressType
  <2>4. \A u \in S \ {t} : ~WaitsFor(t, u)
    BY <1>2, <2>3, Rising, ProgressType
  <2> QED
    BY <2>4
<1> QED
  BY <1>1, <1>2

-----------------------------------------------------------------------------
(* What a session has read under a lock is true as long as it has the lock, *)
(* and what a client had seen of an item or a movement remains.            *)

RowsInv ==
  /\ items \in [Items -> ItemRow \cup {NoItem}]
  /\ balances \in [Places -> Nat]
  /\ movements \subseteq MovementRow
  /\ orders \in [Orders -> OrderRow \cup {NoOrder}]
  /\ receipts \subseteq ReceiveCmd
  /\ \A m \in movements : items[m.item] # NoItem
  /\ \A m, n \in movements : m.id = n.id => m = n

Reads(t) ==
  LET c == txn[t].cmd
      h == txn[t].held
  IN  /\ c.op \in {"update", "change"} => items[c.item] # NoItem
      /\ c.op = "reverse" => c.target \in movements
      /\ \A i \in Items : Item(i) \in h => ItemAdmits(c, i)
      /\ Organizes(c) /\ Order(c.order) \in h => OrderAdmits(c)
      /\ c.op \in {"change", "reverse"} /\ MovementKey(c.key) \in h
           => \A m \in movements : m.id = c.key => m.kind = "opening"
      /\ c.op = "reverse" /\ Movement(c.target.id) \in h => Reversible(c.target)
      /\ \A p \in Places : Balance(p) \in h => BalanceAdmits(c, p)

(* What was received is in stock in the unit it was ordered in, and its     *)
(* order is not written anew.                                               *)
UnitsInv ==
  \A r \in receipts :
    /\ orders[r.order].status \in {"partially_received", "received"}
    /\ \A i \in DOMAIN r.lines :
         /\ i \in DOMAIN orders[r.order].lines /\ items[i].unit = orders[r.order].lines[i].unit
         /\ \E m \in movements : m.item = i

StockInv == LockInv /\ RowsInv /\ UnitsInv /\ \A t \in Txns : Reads(t)

LEMMA AdmitsByLock ==
  ASSUME NEW c, NEW k
  PROVE  /\ Admits(c, MovementKey(k)) => \A m \in movements : m.id # c.key
         /\ Admits(c, Order(k)) => OrderAdmits(c)
         /\ Admits(c, Movement(k)) => Reversible(c.target)
         /\ Admits(c, Item(k)) => ItemAdmits(c, k)
         /\ Admits(c, Balance(k)) => BalanceAdmits(c, k)
<1>1. ASSUME NEW l
      PROVE  /\ l[1] = "movement:" /\ Admits(c, l) => \A m \in movements : m.id # c.key
             /\ l[1] = "order" /\ Admits(c, l) => OrderAdmits(c)
             /\ l[1] = "movement" /\ Admits(c, l) => Reversible(c.target)
             /\ l[1] = "item" /\ Admits(c, l) => ItemAdmits(c, l[2])
             /\ l[1] = "balance" /\ Admits(c, l) => BalanceAdmits(c, l[2])
  <2>1. l[1] = "movement:" /\ Admits(c, l) => \A m \in movements : m.id # c.key
    BY Zenon DEF Admits
  <2>2. l[1] = "order" /\ Admits(c, l) => OrderAdmits(c)
    BY Zenon DEF Admits
  <2>3. l[1] = "movement" /\ Admits(c, l) => Reversible(c.target)
    BY Zenon DEF Admits
  <2>4. l[1] = "item" /\ Admits(c, l) => ItemAdmits(c, l[2])
    BY Zenon DEF Admits
  <2>5. l[1] = "balance" /\ Admits(c, l) => BalanceAdmits(c, l[2])
    BY Zenon DEF Admits
  <2> QED
    BY <2>1, <2>2, <2>3, <2>4, <2>5
<1>2. /\ MovementKey(k)[1] = "movement:" /\ Order(k)[1] = "order" /\ Movement(k)[1] = "movement"
      /\ Item(k)[1] = "item" /\ Balance(k)[1] = "balance" /\ Item(k)[2] = k /\ Balance(k)[2] = k
  BY DEF MovementKey, Order, Movement, Item, Balance
<1> QED
  BY <1>1, <1>2

LEMMA AdmitsUnchanged ==
  ASSUME UNCHANGED <<items, balances, movements, orders, receipts>>, NEW c, NEW i
  PROVE  /\ ItemAdmits(c, i)' = ItemAdmits(c, i) /\ OrderAdmits(c)' = OrderAdmits(c)
         /\ Reversible(c.target)' = Reversible(c.target) /\ BalanceAdmits(c, i)' = BalanceAdmits(c, i)
  BY DEF ItemAdmits, Active, OrderAdmits, Remaining, Received, TakenBy, Reversible, BalanceAdmits

(* Steps that write no rows.                                                *)
LEMMA WithoutRows ==
  ASSUME RowsInv, UnitsInv, UNCHANGED <<items, balances, movements, orders, receipts>>
  PROVE  /\ RowsInv' /\ UnitsInv'
         /\ \A u \in Txns : txn'[u] = txn[u] /\ Reads(u) => Reads(u)'
<1>1. RowsInv'
  BY DEF RowsInv
<1>2. UnitsInv'
  BY DEF UnitsInv
<1>3. ASSUME NEW c, NEW i
      PROVE  /\ ItemAdmits(c, i)' = ItemAdmits(c, i) /\ OrderAdmits(c)' = OrderAdmits(c)
             /\ Reversible(c.target)' = Reversible(c.target) /\ BalanceAdmits(c, i)' = BalanceAdmits(c, i)
  BY AdmitsUnchanged
<1>4. ASSUME NEW u \in Txns, txn'[u] = txn[u], Reads(u) PROVE Reads(u)'
  BY <1>3, <1>4 DEF Reads
<1> QED
  BY <1>1, <1>2, <1>4

LEMMA AcquireKeeps ==
  ASSUME StockInv, NEW t \in Txns, Acquire(t)
  PROVE  StockInv'
<1> DEFINE c == txn[t].cmd
           h == txn[t].held
<1>1. PICK l \in Wants(t) : Admits(c, l) /\ txn' = [txn EXCEPT ![t].held = @ \cup {l}]
  BY DEF Acquire
<1>2. UNCHANGED <<items, balances, movements, orders, receipts>>
  BY DEF Acquire
<1>3. LockInv'
  BY AcquireKeepsLocks DEF StockInv
<1>4. txn'[t].cmd = c /\ txn'[t].held = h \cup {l} /\ \A u \in Txns \ {t} : txn'[u] = txn[u]
  BY <1>1 DEF StockInv, LockInv, Shape
<1>5. Reads(t)'
  <2>1. \A i \in Items : Item(i) \in h \cup {l} => ItemAdmits(c, i)
    BY <1>1, AdmitsByLock DEF StockInv, Reads
  <2>2. Organizes(c) /\ Order(c.order) \in h \cup {l} => OrderAdmits(c)
    BY <1>1, AdmitsByLock DEF StockInv, Reads
  <2>3. c.op \in {"change", "reverse"} /\ MovementKey(c.key) \in h \cup {l}
          => \A m \in movements : m.id = c.key => m.kind = "opening"
    BY <1>1, AdmitsByLock DEF StockInv, Reads
  <2>4. c.op = "reverse" /\ Movement(c.target.id) \in h \cup {l} => Reversible(c.target)
    BY <1>1, AdmitsByLock DEF StockInv, Reads
  <2>5. \A p \in Places : Balance(p) \in h \cup {l} => BalanceAdmits(c, p)
    BY <1>1, AdmitsByLock DEF StockInv, Reads
  <2>6. PICK d, g : d = c /\ g = h
    OBVIOUS
  <2>7. txn'[t].cmd = d /\ txn'[t].held = g \cup {l}
    BY <1>4, <2>6
  <2>8. ASSUME NEW i
        PROVE  /\ ItemAdmits(d, i)' = ItemAdmits(d, i) /\ OrderAdmits(d)' = OrderAdmits(d)
               /\ Reversible(d.target)' = Reversible(d.target) /\ BalanceAdmits(d, i)' = BalanceAdmits(d, i)
    BY <1>2, AdmitsUnchanged
  <2> QED
    BY <1>2, <2>1, <2>2, <2>3, <2>4, <2>5, <2>6, <2>7, <2>8 DEF StockInv, Reads
<1> QED
  BY <1>2, <1>3, <1>4, <1>5, WithoutRows DEF StockInv

LEMMA IdleReads == ASSUME NEW t \in Txns, txn'[t] = Idle PROVE Reads(t)'
  BY DEF Reads, Idle, Organizes

LEMMA BeginKeeps ==
  ASSUME StockInv, NEW t \in Txns, NEW c \in Commands, Begin(t, c)
  PROVE  StockInv'
<1>1. UNCHANGED <<items, balances, movements, orders, receipts>> /\ txn' = [txn EXCEPT ![t] = [cmd |-> c, held |-> {}]]
  BY DEF Begin
<1>2. LockInv'
  BY BeginningKeepsLocks DEF StockInv
<1>3. txn'[t].cmd = c /\ txn'[t].held = {} /\ \A u \in Txns \ {t} : txn'[u] = txn[u]
  BY <1>1 DEF StockInv, LockInv, Shape
<1>4. c.op \in {"update", "change"} => items[c.item] # NoItem
  BY Zenon DEF Begin, Known
<1>5. c.op = "reverse" => c.target \in movements
  BY Zenon DEF Begin, Known
<1>6. Reads(t)'
  BY <1>1, <1>3, <1>4, <1>5 DEF Reads
<1> QED
  BY <1>1, <1>2, <1>3, <1>6, WithoutRows DEF StockInv

LEMMA AbortKeeps ==
  ASSUME StockInv, NEW t \in Txns, Abort(t)
  PROVE  StockInv'
<1>1. UNCHANGED <<items, balances, movements, orders, receipts>> /\ txn' = [txn EXCEPT ![t] = Idle]
  BY DEF Abort
<1>2. \A b : Needs(b)' = Needs(b)
  BY <1>1 DEF Needs, UpdateLocks, ChangeLocks, ReverseLocks, SaveLocks, TransitionLocks, ReceiveLocks
<1>3. LockInv'
  BY <1>1, <1>2, EndingKeepsLocks DEF StockInv
<1>4. txn'[t] = Idle /\ \A u \in Txns \ {t} : txn'[u] = txn[u]
  BY <1>1 DEF StockInv, LockInv, Shape
<1> QED
  BY <1>1, <1>3, <1>4, WithoutRows, IdleReads DEF StockInv

-----------------------------------------------------------------------------
(* What a session writes when it commits, it has locked; but for an item    *)
(* that did not exist, which has nothing that others could have read.       *)

MayPost(t, m) ==
  /\ m \in MovementRow
  /\ \A n \in movements : n.id # m.id
  /\ m.id \in Keys => m.kind = "opening" \/ MovementKey(m.id) \in txn[t].held
  /\ Balance(Place(m)) \in txn[t].held \/ items[m.item] = NoItem
  /\ Item(m.item) \in txn[t].held \/ items[m.item] = NoItem \/ \E n \in movements : n.item = m.item
  /\ \A id \in m.reverses : Movement(id) \in txn[t].held
  /\ items'[m.item] # NoItem

MayEdit(t, i) ==
  /\ items'[i] \in ItemRow \cup {NoItem}
  /\ items'[i] = items[i] \/ items[i] = NoItem \/ Item(i) \in txn[t].held
  /\ items[i] # NoItem => /\ items'[i] # NoItem
                          /\ items'[i].unit # items[i].unit => \A m \in movements : m.item # i

Writes(t, new) ==
  /\ txn' = [txn EXCEPT ![t] = Idle]
  /\ movements' = movements \cup new /\ \A m \in new : MayPost(t, m)
  /\ \A m, n \in new : m.id = n.id => m = n
  /\ balances' \in [Places -> Nat]
  /\ \A p \in Places : balances'[p] # balances[p] => \E m \in new : Place(m) = p
  /\ items' = [i \in Items |-> items'[i]] /\ \A i \in Items : MayEdit(t, i)
  /\ orders' \in [Orders -> OrderRow \cup {NoOrder}] /\ receipts' \subseteq ReceiveCmd
  /\ UNCHANGED <<orders, receipts>> \/ Org \in txn[t].held

LEMMA WritesKeepRows ==
  ASSUME StockInv, NEW t \in Txns, NEW new, Writes(t, new)
  PROVE  RowsInv'
<1>1. items' \in [Items -> ItemRow \cup {NoItem}]
  BY DEF Writes, MayEdit
<1>2. movements' \subseteq MovementRow
  BY DEF Writes, MayPost, StockInv, RowsInv
<1>3. \A m \in movements' : items'[m.item] # NoItem
  BY DEF Writes, MayPost, MayEdit, StockInv, RowsInv, MovementRow
<1>4. \A m, n \in movements' : m.id = n.id => m = n
  BY DEF Writes, MayPost, StockInv, RowsInv
<1> QED
  BY <1>1, <1>2, <1>3, <1>4 DEF Writes, RowsInv

LEMMA WritesKeepLocks ==
  ASSUME StockInv, NEW t \in Txns, NEW new, Writes(t, new)
  PROVE  LockInv'
<1>1. CASE UNCHANGED <<orders, receipts>>
  <2>1. \A b : Needs(b)' = Needs(b)
    BY <1>1 DEF Needs, UpdateLocks, ChangeLocks, ReverseLocks, SaveLocks, TransitionLocks, ReceiveLocks
  <2> QED
    BY <2>1, EndingKeepsLocks DEF StockInv, Writes
<1>2. CASE Org \in txn[t].held
  BY <1>2, OrganizationKeepsNeeds, EndingKeepsLocks DEF StockInv, Writes
<1> QED
  BY <1>1, <1>2 DEF Writes

LEMMA OrderAdmitsUnchanged ==
  ASSUME UNCHANGED <<orders, receipts>>, NEW c
  PROVE  OrderAdmits(c)' = OrderAdmits(c)
  BY DEF OrderAdmits, Remaining, Received, TakenBy

LEMMA OthersKeepReading ==
  ASSUME StockInv, NEW t \in Txns, NEW new, Writes(t, new), NEW u \in Txns \ {t}
  PROVE  Reads(u)'
<1>1. PICK c, h : c = txn[u].cmd /\ h = txn[u].held
  OBVIOUS
<1>2. txn'[u].cmd = c /\ txn'[u].held = h
  BY <1>1 DEF Writes, StockInv, LockInv, Shape
<1>3. \A l \in h : l \notin txn[t].held
  BY <1>1 DEF StockInv, LockInv, Exclusive
<1>4. c \in Commands \/ (c = Idle.cmd /\ h = {})
  BY <1>1 DEF StockInv, LockInv, CommandsInv, Idle
<1>5. c.op \in {"update", "change"} => c.item \in Items /\ items[c.item] # NoItem /\ items'[c.item] # NoItem
  <2>1. c.op \in {"update", "change"} => c.item \in Items
    BY <1>4, Operations DEF UpdateCmd, ChangeCmd, Idle
  <2> QED
    BY <1>1, <2>1 DEF StockInv, Reads, Writes, MayEdit
<1>6. c.op = "reverse" => c.target \in movements /\ c.target \in movements'
  BY <1>1 DEF StockInv, Reads, Writes
<1>7. ASSUME NEW i \in Items, Item(i) \in h PROVE ItemAdmits(c, i)'
  <2>1. ItemAdmits(c, i) /\ items[i] # NoItem
    BY <1>1, <1>7 DEF StockInv, Reads, ItemAdmits
  <2>2. items'[i] = items[i]
    BY <1>3, <1>7, <2>1 DEF Writes, MayEdit
  <2>3. ASSUME c.op \in {"transition", "receive"} PROVE orders' = orders
    <3>1. Org \in h
      BY <1>1, <1>7, <2>3, OrganizationFirst DEF Organizes, StockInv
    <3> QED
      BY <1>3, <3>1 DEF Writes
  <2>4. (\A m \in movements : m.item # i) => \A m \in movements' : m.item # i
    BY <1>3, <1>7, <2>1 DEF Writes, MayPost
  <2> QED
    BY <2>1, <2>2, <2>3, <2>4 DEF ItemAdmits, Active
<1>8. ASSUME Organizes(c), Order(c.order) \in h PROVE OrderAdmits(c)'
  <2>1. Org \in h
    BY <1>1, <1>8, OrganizationFirst DEF StockInv
  <2>2. UNCHANGED <<orders, receipts>>
    BY <1>3, <2>1 DEF Writes
  <2> QED
    BY <1>1, <1>8, <2>2, OrderAdmitsUnchanged DEF StockInv, Reads
<1>9. ASSUME c.op \in {"change", "reverse"}, MovementKey(c.key) \in h, NEW m \in movements', m.id = c.key
      PROVE  m.kind = "opening"
  <2>1. c.key \in Keys
    BY <1>4, <1>9, Operations DEF ChangeCmd, ReverseCmd, Idle
  <2> QED
    BY <1>1, <1>3, <1>9, <2>1 DEF StockInv, Reads, Writes, MayPost
<1>10. ASSUME c.op = "reverse", Movement(c.target.id) \in h PROVE Reversible(c.target)'
  BY <1>1, <1>3, <1>10 DEF StockInv, Reads, Writes, MayPost, Reversible
<1>11. ASSUME NEW p \in Places, Balance(p) \in h PROVE BalanceAdmits(c, p)'
  <2>1. SUFFICES ASSUME c.op \in {"change", "reverse"} PROVE balances'[p] = balances[p]
    BY <1>1, <1>11 DEF StockInv, Reads, BalanceAdmits
  <2>2. items[p[1]] # NoItem
    <3>1. Balance(p) \in Needs(c)
      BY <1>1, <1>11 DEF StockInv, LockInv, HeldIsNeeded
    <3>2. CASE c.op = "change"
      <4>1. p = Place(c)
        BY <3>1, <3>2, NeedsByOperation, Ranks, LockNames DEF ChangeLocks
      <4> QED
        BY <1>5, <3>2, <4>1 DEF Place
    <3>3. CASE c.op = "reverse"
      <4>1. p = Place(c.target)
        BY <3>1, <3>3, NeedsByOperation, Ranks, LockNames DEF ReverseLocks
      <4> QED
        BY <1>6, <3>3, <4>1 DEF Place, StockInv, RowsInv
    <3> QED
      BY <2>1, <3>2, <3>3
  <2>3. \A m \in new : Place(m) # p
    BY <1>3, <1>11, <2>2 DEF Writes, MayPost, Place
  <2> QED
    BY <2>3 DEF Writes
<1> QED
  BY <1>2, <1>5, <1>6, <1>7, <1>8, <1>9, <1>10, <1>11 DEF Reads

LEMMA WritesKeep ==
  ASSUME StockInv, NEW t \in Txns, NEW new, Writes(t, new), UnitsInv'
  PROVE  StockInv'
<1>1. Reads(t)'
  BY IdleReads DEF Writes, StockInv, LockInv, Shape
<1> QED
  BY <1>1, WritesKeepRows, WritesKeepLocks, OthersKeepReading DEF StockInv

-----------------------------------------------------------------------------
(* Commands commit.  Each writes what it has locked, and makes one step of  *)
(* the ledger or none.                                                      *)

(* New movements of several places at most once each, and their balances.   *)
Posted(new) ==
  /\ movements' = movements \cup new
  /\ \A m \in new, n \in movements : m.id # n.id
  /\ balances' \in [Places -> Nat]
  /\ \A m \in new : balances'[Place(m)] = balances[Place(m)] + m.delta
  /\ \A p \in Places : (\A m \in new : Place(m) # p) => balances'[p] = balances[p]

LEMMA PostIsPosted ==
  ASSUME RowsInv, NEW new \in SUBSET MovementRow, Post(new),
         \A m, n \in new : Place(m) = Place(n) => m = n,
         \A m \in new : balances[Place(m)] + m.delta >= 0
  PROVE  Posted(new)
<1>1. \A m \in new : Place(m) \in Places /\ m.delta \in Int
  BY DEF MovementRow, Place, Places
<1>2. \A m \in new : (CHOOSE n \in new : Place(n) = Place(m)) = m
  OBVIOUS
<1>3. \A m \in new : balances'[Place(m)] = balances[Place(m)] + m.delta
  BY <1>1, <1>2, Zenon DEF Post
<1>4. \A p \in Places : (\A m \in new : Place(m) # p) => balances'[p] = balances[p]
  BY DEF Post
<1>5. balances' = [p \in Places |-> balances'[p]]
  BY DEF Post
<1>6. \A p \in Places : balances'[p] \in Nat
  BY <1>1, <1>3, <1>4 DEF RowsInv
<1> QED
  BY <1>3, <1>4, <1>5, <1>6 DEF Post, Posted

LEMMA PostedAppends ==
  ASSUME RowsInv, NEW new \in SUBSET MovementRow, Posted(new),
         \A m, n \in new : Place(m) = Place(n) => m = n,
         \A m, n \in new : m.id = n.id => m = n,
         \A m \in new :
           \/ m.kind # "reversal" /\ m.reverses = {} /\ items'[m.item].status = "active"
           \/ /\ m.kind = "reversal"
              /\ \E n \in movements : /\ Reversible(n) /\ m.reverses = {n.id}
                                      /\ Place(m) = Place(n) /\ m.delta = -n.delta
              /\ \A n \in new : n.reverses = m.reverses => n = m
  PROVE  Ledger!Append /\ Ledger!New = new
<1>1. Ledger!New = new
  BY DEF Posted, Ledger!New
<1>2. ASSUME NEW m \in new PROVE Ledger!Admissible(m)
  <2>1. \A n \in movements' : n.id = m.id => n = m
    BY DEF Posted
  <2>2. ASSUME m.kind = "reversal", NEW n \in movements, Reversible(n), m.reverses = {n.id},
               Place(m) = Place(n), m.delta = -n.delta, \A k \in new : k.reverses = m.reverses => k = m
        PROVE  Ledger!Admissible(m)
    <3>1. \A k \in movements' : k.reverses = m.reverses => k = m
      BY <2>2 DEF Posted, Reversible
    <3>2. n.kind \in {"opening", "change"} /\ Ledger!Inverse(m, n)
      BY <2>2 DEF Reversible, Ledger!Inverse, Ledger!Place, Place
    <3> QED
      BY <2>1, <2>2, <3>1, <3>2 DEF Ledger!Admissible
  <2> QED
    BY <2>1, <2>2 DEF Ledger!Admissible
<1> QED
  BY <1>1, <1>2 DEF Ledger!Append, Posted, Ledger!Place, Place, Ledger!Places, Places

LEMMA ReadyHolds ==
  ASSUME StockInv, NEW t \in Txns, NEW op, Ready(t, op), op # "idle"
  PROVE  Needs(txn[t].cmd) \subseteq txn[t].held /\ txn[t].cmd \in Commands /\ txn[t].cmd.op = op
  BY WantsIsNext DEF Ready, Missing, StockInv, LockInv, CommandsInv, Idle

(* Movements never take an item's rows away, and leave orders alone.        *)
LEMMA UnitsStay ==
  ASSUME StockInv, NEW t \in Txns, NEW new, Writes(t, new), UNCHANGED <<orders, receipts>>
  PROVE  UnitsInv'
<1> SUFFICES ASSUME NEW r \in receipts
             PROVE  /\ orders[r.order].status \in {"partially_received", "received"}
                    /\ \A i \in DOMAIN r.lines :
                         /\ i \in DOMAIN orders[r.order].lines /\ items'[i].unit = orders[r.order].lines[i].unit
                         /\ \E m \in movements' : m.item = i
  BY DEF UnitsInv
<1>1. ASSUME NEW i \in DOMAIN r.lines PROVE items'[i].unit = items[i].unit
  <2>1. PICK m \in movements : m.item = i
    BY DEF StockInv, UnitsInv
  <2>2. i \in Items /\ items[i] # NoItem
    BY <2>1 DEF StockInv, RowsInv, MovementRow
  <2> QED
    BY <2>1, <2>2 DEF Writes, MayEdit
<1> QED
  BY <1>1 DEF StockInv, UnitsInv, Writes

LEMMA ChangeCommits ==
  ASSUME StockInv, NEW t \in Txns, CommitChange(t)
  PROVE  StockInv' /\ Ledger!PostMovements
<1> DEFINE c == txn[t].cmd
           m == Row(c.key, "change", Place(c), c.delta, {})
<1>1. c.op = "change" /\ c \in ChangeCmd /\ ChangeLocks(c) \subseteq txn[t].held
  BY ReadyHolds, Operations, NeedsByOperation DEF CommitChange
<1>2. /\ c.key \in Keys /\ c.item \in Items /\ c.branch \in Branches /\ c.delta \in Int
      /\ Place(c) \in Places
  BY <1>1, ConstantsAssumption DEF ChangeCmd, Place, Places
<1>3. /\ m \in MovementRow /\ Place(m) = Place(c) /\ m.item = c.item /\ m.id = c.key
      /\ m.delta = c.delta /\ m.reverses = {} /\ m.kind = "change"
  BY <1>2 DEF Row, MovementRow, Place, Ids
<1>4. items[c.item] # NoItem /\ items[c.item].status = "active"
  BY <1>1, <1>2 DEF StockInv, Reads, ItemAdmits, Active, ChangeLocks
<1>5. balances[Place(c)] + c.delta >= 0
  BY <1>1, <1>2 DEF StockInv, Reads, BalanceAdmits, Delta, ChangeLocks
<1> HIDE DEF m
<1>6. Post({m}) /\ UNCHANGED <<items, orders, receipts>> /\ txn' = [txn EXCEPT ![t] = Idle]
  BY DEF CommitChange, m
<1>7. Posted({m})
  BY <1>3, <1>5, <1>6, PostIsPosted DEF StockInv
<1>8. MayPost(t, m)
  BY <1>1, <1>3, <1>4, <1>6, <1>7 DEF MayPost, Posted, ChangeLocks
<1>9. Writes(t, {m})
  BY <1>6, <1>7, <1>8 DEF Writes, Posted, MayEdit, StockInv, RowsInv
<1>10. StockInv'
  BY <1>6, <1>9, UnitsStay, WritesKeep
<1>11. Ledger!Append /\ Ledger!New = {m}
  BY <1>3, <1>4, <1>6, <1>7, PostedAppends DEF StockInv
<1> QED
  BY <1>3, <1>6, <1>10, <1>11 DEF Ledger!PostMovements

LEMMA ReverseCommits ==
  ASSUME StockInv, NEW t \in Txns, CommitReverse(t)
  PROVE  StockInv' /\ Ledger!PostMovements
<1> DEFINE c == txn[t].cmd
           n == c.target
           m == Row(c.key, "reversal", Place(n), -n.delta, {n.id})
<1>1. c.op = "reverse" /\ c \in ReverseCmd /\ ReverseLocks(c) \subseteq txn[t].held
  BY ReadyHolds, Operations, NeedsByOperation DEF CommitReverse
<1>2. /\ n \in movements /\ items[n.item] # NoItem /\ c.key \in Keys /\ n.id \in Ids
      /\ n.item \in Items /\ n.branch \in Branches /\ n.delta \in Int /\ Place(n) \in Places
  BY <1>1 DEF StockInv, Reads, RowsInv, MovementRow, ReverseCmd, Place, Places
<1>3. /\ m \in MovementRow /\ Place(m) = Place(n) /\ m.item = n.item /\ m.id = c.key
      /\ m.delta = -n.delta /\ m.reverses = {n.id} /\ m.kind = "reversal"
  BY <1>2 DEF Row, MovementRow, Place, Ids
<1>4. Reversible(n)
  BY <1>1 DEF StockInv, Reads, ReverseLocks
<1>5. balances[Place(n)] + m.delta >= 0
  BY <1>1, <1>2, <1>3 DEF StockInv, Reads, BalanceAdmits, Delta, ReverseLocks
<1> HIDE DEF m
<1>6. Post({m}) /\ UNCHANGED <<items, orders, receipts>> /\ txn' = [txn EXCEPT ![t] = Idle]
  BY DEF CommitReverse, m
<1>7. Posted({m})
  BY <1>3, <1>5, <1>6, PostIsPosted DEF StockInv
<1>8. MayPost(t, m)
  BY <1>1, <1>2, <1>3, <1>6, <1>7 DEF MayPost, Posted, ReverseLocks
<1>9. Writes(t, {m})
  BY <1>6, <1>7, <1>8 DEF Writes, Posted, MayEdit, StockInv, RowsInv
<1>10. StockInv'
  BY <1>6, <1>9, UnitsStay, WritesKeep
<1>11. Ledger!Append /\ Ledger!New = {m}
  BY <1>2, <1>3, <1>4, <1>7, PostedAppends DEF StockInv
<1> QED
  BY <1>3, <1>6, <1>10, <1>11 DEF Ledger!PostMovements

LEMMA CreateCommits ==
  ASSUME StockInv, NEW t \in Txns, CommitCreate(t)
  PROVE  StockInv' /\ \E i \in Items : Ledger!CreateItem(i)
<1> DEFINE c == txn[t].cmd
           row == [status |-> "active", unit |-> c.unit, key |-> {c.key}]
           m == Row(c.key, "opening", Place(c), c.opening, {})
           new == IF c.opening = 0 THEN {} ELSE {m}
<1>1. c.op = "create" /\ c \in CreateCmd
  BY ReadyHolds, Operations DEF CommitCreate
<1>2. /\ c.key \in Keys /\ c.item \in Items /\ c.branch \in Branches /\ c.unit \in Units /\ c.opening \in Nat
      /\ Place(c) \in Places
  BY <1>1, ConstantsAssumption DEF CreateCmd, Place, Places
<1>3. /\ m \in MovementRow /\ Place(m) = Place(c) /\ m.item = c.item /\ m.id = c.key
      /\ m.delta = c.opening /\ m.reverses = {} /\ m.kind = "opening"
  BY <1>2 DEF Row, MovementRow, Place, Ids
<1>4. row \in ItemRow /\ row # NoItem /\ row.status = "active"
  BY <1>2 DEF ItemRow, NoItem
<1>5. /\ items[c.item] = NoItem /\ items' = [items EXCEPT ![c.item] = row]
      /\ Post(new) /\ UNCHANGED <<orders, receipts>> /\ txn' = [txn EXCEPT ![t] = Idle]
  BY DEF CommitCreate
<1> HIDE DEF m, row
<1>6. items'[c.item] = row /\ \A i \in Items \ {c.item} : items'[i] = items[i]
  BY <1>2, <1>5 DEF StockInv, RowsInv
<1>7. balances[Place(c)] + c.opening >= 0
  BY <1>2 DEF StockInv, RowsInv
<1>8. new \in SUBSET MovementRow /\ \A k \in new : k = m
  BY <1>3
<1> HIDE DEF new
<1>9. Posted(new)
  BY <1>3, <1>5, <1>7, <1>8, PostIsPosted DEF StockInv
<1>10. \A k \in new : MayPost(t, k)
  BY <1>3, <1>4, <1>5, <1>6, <1>8, <1>9 DEF MayPost, Posted
<1>11. \A i \in Items : MayEdit(t, i)
  BY <1>4, <1>5, <1>6 DEF MayEdit, StockInv, RowsInv
<1>12. items' = [i \in Items |-> items'[i]]
  BY <1>5 DEF StockInv, RowsInv
<1>13. Writes(t, new)
  BY <1>5, <1>8, <1>9, <1>10, <1>11, <1>12 DEF Writes, Posted, StockInv, RowsInv
<1>14. StockInv'
  BY <1>5, <1>13, UnitsStay, WritesKeep
<1>15. Ledger!Append /\ Ledger!New = new
  BY <1>3, <1>4, <1>6, <1>8, <1>9, PostedAppends DEF StockInv
<1>16. Ledger!CreateItem(c.item)
  BY <1>3, <1>4, <1>5, <1>6, <1>8, <1>15 DEF Ledger!CreateItem, Ledger!NoItem, NoItem
<1> QED
  BY <1>2, <1>14, <1>16

LEMMA UpdateCommits ==
  ASSUME StockInv, NEW t \in Txns, CommitUpdate(t)
  PROVE  StockInv' /\ \E i \in Items : Ledger!EditItem(i)
<1> DEFINE c == txn[t].cmd
           row == [items[c.item] EXCEPT !.status = c.status, !.unit = c.unit]
<1>1. c.op = "update" /\ c \in UpdateCmd /\ UpdateLocks(c) \subseteq txn[t].held
  BY ReadyHolds, Operations, NeedsByOperation DEF CommitUpdate
<1>2. c.item \in Items /\ c.unit \in Units /\ c.status \in {"active", "inactive"}
  BY <1>1 DEF UpdateCmd
<1>3. /\ items[c.item] # NoItem /\ items[c.item] \in ItemRow
      /\ items[c.item].unit # c.unit => \A m \in movements : m.item # c.item
  BY <1>1, <1>2 DEF StockInv, Reads, ItemAdmits, RowsInv, UpdateLocks
<1>4. row \in ItemRow /\ row # NoItem /\ row.status = c.status /\ row.unit = c.unit
  BY <1>2, <1>3 DEF ItemRow, NoItem
<1>5. items' = [items EXCEPT ![c.item] = row]
  BY DEF CommitUpdate
<1>6. UNCHANGED <<balances, movements, orders, receipts>> /\ txn' = [txn EXCEPT ![t] = Idle]
  BY DEF CommitUpdate
<1> HIDE DEF row
<1>7. items'[c.item] = row /\ \A i \in Items \ {c.item} : items'[i] = items[i]
  BY <1>2, <1>5 DEF StockInv, RowsInv
<1>8. \A i \in Items : MayEdit(t, i)
  BY <1>1, <1>3, <1>4, <1>7 DEF MayEdit, StockInv, RowsInv, UpdateLocks
<1>9. items' = [i \in Items |-> items'[i]]
  BY <1>5 DEF StockInv, RowsInv
<1>10. Writes(t, {})
  BY <1>6, <1>8, <1>9 DEF Writes, StockInv, RowsInv
<1>11. StockInv'
  BY <1>6, <1>10, UnitsStay, WritesKeep
<1>12. Ledger!EditItem(c.item)
  BY <1>2, <1>3, <1>4, <1>5, <1>6, <1>7 DEF Ledger!EditItem, Ledger!NoItem, NoItem
<1> QED
  BY <1>2, <1>11, <1>12

LEMMA LinesOf ==
  ASSUME NEW V, NEW f \in Lines(V)
  PROVE  DOMAIN f \subseteq Items /\ f = [i \in DOMAIN f |-> f[i]] /\ \A i \in DOMAIN f : f[i] \in V
<1>1. PICK S \in SUBSET Items : f \in [S -> V]
  BY DEF Lines
<1> QED
  BY <1>1

LEMMA LinesFrom ==
  ASSUME NEW V, NEW S \in SUBSET Items, S # {}, NEW f \in [S -> V]
  PROVE  f \in Lines(V)
  BY DEF Lines

LEMMA OrderAdmitsByOperation ==
  ASSUME NEW c, OrderAdmits(c)
  PROVE  LET o == orders[c.order]
         IN  /\ o # NoOrder
             /\ c.op = "save" => o.status = "draft"
             /\ c.op = "transition" => o.status \in {"draft", "ordered"}
             /\ c.op = "receive" =>
                  /\ o.status \in {"ordered", "partially_received"}
                  /\ \A r \in receipts : r.key # c.key
                  /\ DOMAIN c.lines \subseteq DOMAIN o.lines
                  /\ \A i \in DOMAIN c.lines : c.lines[i] <= Remaining(c.order, i)
<1> DEFINE o == orders[c.order]
<1>1. o # NoOrder
  BY Zenon DEF OrderAdmits
<1>2. c.op = "save" => o.status = "draft"
  BY Zenon DEF OrderAdmits
<1>3. c.op = "transition" => o.status = "draft" \/ o.status = "ordered"
  BY Zenon DEF OrderAdmits
<1>4. c.op = "receive" => /\ o.status \in {"ordered", "partially_received"}
                          /\ \A r \in receipts : r.key # c.key
                          /\ DOMAIN c.lines \subseteq DOMAIN o.lines
                          /\ \A i \in DOMAIN c.lines : c.lines[i] <= Remaining(c.order, i)
  BY Zenon DEF OrderAdmits
<1> QED
  BY <1>1, <1>2, <1>3, <1>4

NextRow(o, s) == [o EXCEPT !.status = s, !.version = @ + 1]

LEMMA NextVersion ==
  ASSUME NEW o \in OrderRow, NEW s \in {"draft", "ordered", "partially_received", "received", "cancelled"},
         NextRow(o, s).version <= MaxVersion
  PROVE  /\ NextRow(o, s) \in OrderRow
         /\ NextRow(o, s).status = s /\ NextRow(o, s).lines = o.lines
<1>0. PICK row : row = [o EXCEPT !.status = s, !.version = @ + 1]
  OBVIOUS
<1> DEFINE L == Lines([qty : 1 .. MaxQty, unit : Units])
<1> HIDE DEF L
<1>1. OrderRow = [status : {"draft", "ordered", "partially_received", "received", "cancelled"},
                  version : 1 .. MaxVersion, branch : Branches, lines : L]
  BY DEF OrderRow, L
<1>2. o = [status |-> o.status, version |-> o.version, branch |-> o.branch, lines |-> o.lines]
  BY <1>1
<1>3. row = [status |-> s, version |-> o.version + 1, branch |-> o.branch, lines |-> o.lines]
  BY <1>0, <1>2
<1>4. o.version \in 1 .. MaxVersion /\ o.branch \in Branches /\ o.lines \in L
  BY <1>1
<1>5. o.version + 1 \in 1 .. MaxVersion
  BY <1>0, <1>3, <1>4, ConstantsAssumption DEF NextRow
<1>6. row \in OrderRow /\ row.status = s /\ row.lines = o.lines
  BY <1>1, <1>3, <1>4, <1>5
<1> QED
  BY <1>0, <1>6 DEF NextRow

(* An order is only rewritten while nothing of it has come.                 *)
LEMMA UnitsStayOutsideOrder ==
  ASSUME StockInv, NEW o \in Orders, UNCHANGED <<items, movements, receipts>>,
         \A p \in Orders \ {o} : orders'[p] = orders[p],
         orders[o].status \notin {"partially_received", "received"}
  PROVE  UnitsInv'
<1>1. \A r \in receipts : r.order \in Orders \ {o}
  BY DEF StockInv, UnitsInv, RowsInv, ReceiveCmd
<1> QED
  BY <1>1 DEF StockInv, UnitsInv

(* What saves and transitions do to an order.                               *)
Redrawn ==
  /\ UNCHANGED receipts
  /\ \E o \in Orders :
       /\ orders'[o] \in OrderRow /\ orders'[o].status \in {"draft", "ordered", "cancelled"}
       /\ orders[o].status \notin {"partially_received", "received"}
       /\ \A p \in Orders \ {o} : orders'[p] = orders[p]

LEMMA SaveCommits ==
  ASSUME StockInv, NEW t \in Txns, CommitSave(t)
  PROVE  StockInv' /\ UNCHANGED <<items, balances, movements>> /\ Redrawn
<1> DEFINE c == txn[t].cmd
           lines == [i \in DOMAIN c.lines |-> [qty |-> c.lines[i], unit |-> items[i].unit]]
           row == [status |-> "draft", version |-> c.version + 1, branch |-> c.branch, lines |-> lines]
<1>1. c.op = "save" /\ c \in SaveCmd /\ SaveLocks(c) \subseteq txn[t].held
  BY ReadyHolds, Operations, NeedsByOperation DEF CommitSave
<1>2. /\ c.order \in Orders /\ c.version \in 0 .. MaxVersion /\ c.branch \in Branches
      /\ DOMAIN c.lines \in SUBSET Items /\ DOMAIN c.lines # {}
      /\ \A i \in DOMAIN c.lines : c.lines[i] \in 1 .. MaxQty
  <2>1. c.lines \in Lines(1 .. MaxQty) /\ c.order \in Orders /\ c.version \in 0 .. MaxVersion /\ c.branch \in Branches
    BY <1>1 DEF SaveCmd
  <2>2. DOMAIN c.lines # {}
    BY <2>1 DEF Lines
  <2> QED
    BY <2>1, <2>2, LinesOf
<1>3. \A i \in DOMAIN c.lines : items[i].unit \in Units
  BY <1>1, <1>2 DEF SaveLocks, StockInv, Reads, ItemAdmits, RowsInv, ItemRow
<1>4. lines \in Lines([qty : 1 .. MaxQty, unit : Units])
  BY <1>2, <1>3, LinesFrom
<1> HIDE DEF lines
<1>5. /\ row.version <= MaxVersion /\ orders' = [orders EXCEPT ![c.order] = row]
      /\ c.version = 0 => orders[c.order] = NoOrder
      /\ UNCHANGED <<items, balances, movements, receipts>> /\ txn' = [txn EXCEPT ![t] = Idle]
  BY DEF CommitSave, SetOrder, lines
<1>6. row \in OrderRow
  BY <1>2, <1>4, <1>5, ConstantsAssumption DEF OrderRow
<1> HIDE DEF row
<1>7. orders[c.order].status \notin {"partially_received", "received"}
  <2>1. CASE c.version = 0
    BY <1>5, <2>1 DEF NoOrder
  <2>2. CASE c.version # 0
    <3>1. OrderAdmits(c)
      BY <1>1, <2>2 DEF SaveLocks, StockInv, Reads, Organizes
    <3> QED
      BY <1>1, <3>1, OrderAdmitsByOperation
  <2> QED
    BY <2>1, <2>2
<1>8. orders' \in [Orders -> OrderRow \cup {NoOrder}]
  BY <1>2, <1>5, <1>6 DEF StockInv, RowsInv
<1>9. Writes(t, {})
  BY <1>1, <1>5, <1>8 DEF Writes, MayEdit, StockInv, RowsInv, SaveLocks
<1>10. UnitsInv'
  BY <1>2, <1>5, <1>7, UnitsStayOutsideOrder DEF StockInv, RowsInv
<1>11. Redrawn
  <2>1. row.status = "draft"
    BY DEF row
  <2> QED
    BY <1>2, <1>5, <1>6, <1>7, <2>1 DEF Redrawn, StockInv, RowsInv
<1> QED
  BY <1>5, <1>9, <1>10, <1>11, WritesKeep

LEMMA TransitionCommits ==
  ASSUME StockInv, NEW t \in Txns, CommitTransition(t)
  PROVE  StockInv' /\ UNCHANGED <<items, balances, movements>> /\ Redrawn
<1> DEFINE c == txn[t].cmd
           o == orders[c.order]
           row == [o EXCEPT !.status = c.to, !.version = @ + 1]
<1>1. c.op = "transition" /\ c \in TransitionCmd /\ TransitionLocks(c) \subseteq txn[t].held
  BY ReadyHolds, Operations, NeedsByOperation DEF CommitTransition
<1>2. c.order \in Orders /\ c.to \in {"ordered", "cancelled"}
  BY <1>1 DEF TransitionCmd
<1>3. o # NoOrder /\ o.status \in {"draft", "ordered"} /\ o \in OrderRow
  <2>1. OrderAdmits(c)
    BY <1>1 DEF TransitionLocks, StockInv, Reads, Organizes
  <2> QED
    BY <1>1, <1>2, <2>1, OrderAdmitsByOperation DEF StockInv, RowsInv
<1>4. /\ row.version <= MaxVersion /\ orders' = [orders EXCEPT ![c.order] = row]
      /\ UNCHANGED <<items, balances, movements, receipts>> /\ txn' = [txn EXCEPT ![t] = Idle]
  BY DEF CommitTransition, SetOrder
<1>5. row \in OrderRow /\ row.status = c.to
  <2>1. PICK s, old, new : s = c.to /\ old = o /\ new = row
    OBVIOUS
  <2>2. new = NextRow(old, s)
    BY <2>1 DEF NextRow
  <2> HIDE DEF row
  <2>3. NextRow(old, s).version <= MaxVersion
    BY <1>4, <2>1, <2>2
  <2>4. old \in OrderRow /\ s \in {"draft", "ordered", "partially_received", "received", "cancelled"}
    BY <1>2, <1>3, <2>1
  <2>5. NextRow(old, s) \in OrderRow /\ NextRow(old, s).status = s
    BY <2>3, <2>4, NextVersion
  <2> QED
    BY <2>1, <2>2, <2>5
<1> HIDE DEF row
<1>6. orders' \in [Orders -> OrderRow \cup {NoOrder}]
  BY <1>2, <1>4, <1>5 DEF StockInv, RowsInv
<1>7. Writes(t, {})
  BY <1>1, <1>4, <1>6 DEF Writes, MayEdit, StockInv, RowsInv, TransitionLocks
<1>8. UnitsInv'
  BY <1>2, <1>3, <1>4, UnitsStayOutsideOrder DEF StockInv, RowsInv
<1>9. Redrawn
  BY <1>2, <1>3, <1>4, <1>5 DEF Redrawn, StockInv, RowsInv
<1> QED
  BY <1>4, <1>7, <1>8, <1>9, WritesKeep

(* What a receipt does to its order.                                        *)
TakesIn(c) ==
  /\ c \in ReceiveCmd /\ receipts' = receipts \cup {c} /\ \A r \in receipts : r.key # c.key
  /\ orders[c.order] \in OrderRow /\ DOMAIN c.lines \subseteq DOMAIN orders[c.order].lines
  /\ \A i \in DOMAIN c.lines : c.lines[i] <= Remaining(c.order, i)
  /\ orders'[c.order].lines = orders[c.order].lines
  /\ orders'[c.order].status = IF Complete(c.order, receipts') THEN "received" ELSE "partially_received"
  /\ \A p \in Orders \ {c.order} : orders'[p] = orders[p]

LEMMA ReceiveCommits ==
  ASSUME StockInv, NEW t \in Txns, CommitReceive(t)
  PROVE  StockInv' /\ Ledger!PostMovements /\ TakesIn(txn[t].cmd)
<1> DEFINE c == txn[t].cmd
           o == orders[c.order]
           S == DOMAIN c.lines
           move(i) == Row(<<c.key, i>>, "receipt", <<i, c.branch>>, c.lines[i], {})
           new == {move(i) : i \in S}
           row == orders'[c.order]
<1>1. c.op = "receive" /\ c \in ReceiveCmd /\ ReceiveLocks(c) \subseteq txn[t].held
  BY ReadyHolds, Operations, NeedsByOperation DEF CommitReceive
<1>2. /\ c.order \in Orders /\ c.branch \in Branches /\ c.key \in Keys
      /\ S \subseteq Items /\ S # {} /\ \A i \in S : c.lines[i] \in Nat \ {0}
  <2>1. c.lines \in Lines(1 .. MaxQty) /\ c.order \in Orders /\ c.key \in Keys /\ c.branch \in Branches
    BY <1>1 DEF ReceiveCmd
  <2>2. S # {}
    BY <2>1 DEF Lines
  <2> QED
    BY <2>1, <2>2, LinesOf, ConstantsAssumption
<1>3. /\ {Org, Order(c.order)} \subseteq txn[t].held
      /\ \A i \in S : Item(i) \in txn[t].held /\ Balance(<<i, c.branch>>) \in txn[t].held
  BY <1>1 DEF ReceiveLocks
<1>4. /\ o \in OrderRow /\ o.status \in {"ordered", "partially_received"} /\ S \subseteq DOMAIN o.lines
  <2>1. OrderAdmits(c)
    BY <1>1, <1>3 DEF StockInv, Reads, Organizes
  <2> QED
    BY <1>1, <1>2, <2>1, OrderAdmitsByOperation DEF StockInv, RowsInv
<1>5. \A i \in S : items[i] # NoItem /\ items[i].status = "active" /\ items[i].unit = o.lines[i].unit
  BY <1>1, <1>2, <1>3 DEF StockInv, Reads, ItemAdmits, Active
<1>6. ASSUME NEW i \in S
      PROVE  /\ move(i) \in MovementRow /\ Place(move(i)) = <<i, c.branch>> /\ move(i).item = i
             /\ move(i).id = <<c.key, i>> /\ move(i).delta = c.lines[i] /\ move(i).reverses = {}
             /\ move(i).kind = "receipt"
  BY <1>2 DEF Row, MovementRow, Place, Ids
<1>7. /\ Post(new) /\ receipts' = receipts \cup {c} /\ items' = items /\ txn' = [txn EXCEPT ![t] = Idle]
      /\ row.version <= MaxVersion
      /\ \E s \in {"received", "partially_received"} :
           orders' = [orders EXCEPT ![c.order] = [o EXCEPT !.status = s, !.version = @ + 1]]
  BY <1>2 DEF CommitReceive, SetOrder, StockInv, RowsInv
<1> HIDE DEF move
<1>8. new \in SUBSET MovementRow
  BY <1>6
<1>9. /\ \A m, n \in new : Place(m) = Place(n) => m = n
      /\ \A m, n \in new : m.id = n.id => m = n
  BY <1>6
<1>10. \A m \in new : balances[Place(m)] + m.delta >= 0
  <2>1. \A i \in S : <<i, c.branch>> \in Places
    BY <1>2 DEF Places
  <2> QED
    BY <1>2, <1>6, <2>1 DEF StockInv, RowsInv
<1>11. Posted(new)
  BY <1>7, <1>8, <1>9, <1>10, PostIsPosted DEF StockInv
<1>12. \A m \in new : MayPost(t, m)
  <2>1. \A i \in S : <<c.key, i>> \notin Keys
    BY <1>2, ConstantsAssumption
  <2> QED
    BY <1>3, <1>5, <1>6, <1>7, <1>11, <2>1 DEF MayPost, Posted
<1>13. /\ row \in OrderRow /\ row.status \in {"received", "partially_received"} /\ row.lines = o.lines
       /\ \A p \in Orders \ {c.order} : orders'[p] = orders[p]
  <2>1. PICK s \in {"received", "partially_received"} :
          orders' = [orders EXCEPT ![c.order] = [o EXCEPT !.status = s, !.version = @ + 1]]
    BY <1>7
  <2>2. /\ row = [o EXCEPT !.status = s, !.version = @ + 1]
        /\ \A p \in Orders \ {c.order} : orders'[p] = orders[p]
    BY <1>2, <2>1 DEF StockInv, RowsInv
  <2>3. PICK next, old : next = row /\ old = o
    OBVIOUS
  <2>4. /\ next = [old EXCEPT !.status = s, !.version = @ + 1]
        /\ next.version <= MaxVersion
        /\ old \in OrderRow
    BY <1>4, <1>7, <2>2, <2>3
  <2> HIDE DEF row, o
  <2>5. s \in {"draft", "ordered", "partially_received", "received", "cancelled"}
    BY <2>1
  <2>6. next \in OrderRow /\ next.status = s /\ next.lines = old.lines
    <3>1. next = NextRow(old, s)
      BY <2>4 DEF NextRow
    <3>2. NextRow(old, s).version <= MaxVersion
      BY <2>4, <3>1
    <3>3. NextRow(old, s) \in OrderRow /\ NextRow(old, s).status = s /\ NextRow(old, s).lines = old.lines
      BY <2>4, <2>5, <3>2, NextVersion
    <3> QED
      BY <3>1, <3>3
  <2> QED
    BY <2>1, <2>2, <2>3, <2>6
<1>14. orders' \in [Orders -> OrderRow \cup {NoOrder}]
  BY <1>2, <1>7, <1>13 DEF StockInv, RowsInv
<1>15. Writes(t, new)
  BY <1>1, <1>3, <1>7, <1>9, <1>11, <1>12, <1>14 DEF Writes, Posted, MayEdit, StockInv, RowsInv
<1>16. UnitsInv'
  <2>1. ASSUME NEW r \in receipts
        PROVE  /\ orders'[r.order].status \in {"partially_received", "received"}
               /\ orders'[r.order].lines = orders[r.order].lines
    BY <1>2, <1>13, <2>1 DEF StockInv, UnitsInv, RowsInv, ReceiveCmd
  <2>2. ASSUME NEW i \in S PROVE \E m \in movements' : m.item = i
    <3>1. move(i) \in movements'
      BY <1>11 DEF Posted
    <3> QED
      BY <1>6, <3>1
  <2>3. \A r \in receipts : \A i \in DOMAIN r.lines : \E m \in movements' : m.item = i
    BY <1>11 DEF Posted, StockInv, UnitsInv
  <2>4. \A r \in receipts : \A i \in DOMAIN r.lines :
          i \in DOMAIN orders[r.order].lines /\ items'[i].unit = orders[r.order].lines[i].unit
    BY <1>7 DEF UnitsInv, StockInv
  <2>5. \A i \in S : i \in DOMAIN row.lines /\ items'[i].unit = row.lines[i].unit
    BY <1>4, <1>5, <1>7, <1>13
  <2> HIDE DEF row
  <2>6. receipts' = receipts \cup {c}
    BY <1>7
  <2> QED
    BY <1>13, <2>1, <2>2, <2>3, <2>4, <2>5, <2>6 DEF UnitsInv, row
<1>17. Ledger!Append /\ Ledger!New = new
  <2>1. \A m \in new : m.kind # "reversal" /\ m.reverses = {} /\ items'[m.item].status = "active"
    BY <1>5, <1>6, <1>7
  <2> QED
    BY <1>8, <1>9, <1>11, <2>1, PostedAppends DEF StockInv
<1>18. new # {} /\ \A m \in new : m.kind # "opening"
  BY <1>2, <1>6
<1>19. TakesIn(c)
  <2>1. OrderAdmits(c)
    BY <1>1, <1>3 DEF StockInv, Reads, Organizes
  <2>2. /\ \A r \in receipts : r.key # c.key
        /\ \A i \in S : c.lines[i] <= Remaining(c.order, i)
    BY <1>1, <2>1, OrderAdmitsByOperation
  <2>3. PICK s : s = IF Complete(c.order, receipts') THEN "received" ELSE "partially_received"
    OBVIOUS
  <2>4. orders' = [orders EXCEPT ![c.order] = [o EXCEPT !.status = s, !.version = @ + 1]]
    BY <2>3 DEF CommitReceive, SetOrder
  <2>5. row = [o EXCEPT !.status = s, !.version = @ + 1]
    BY <1>2, <2>4 DEF StockInv, RowsInv
  <2>6. PICK old : old = o
    OBVIOUS
  <2>7. row.status = s
    <3>1. old \in OrderRow /\ row = [old EXCEPT !.status = s, !.version = @ + 1]
      BY <1>4, <2>5, <2>6
    <3> HIDE DEF row, o
    <3> QED
      BY <3>1 DEF OrderRow
  <2> QED
    BY <1>1, <1>4, <1>7, <1>13, <2>2, <2>3, <2>7 DEF TakesIn
<1> QED
  BY <1>7, <1>15, <1>16, <1>17, <1>18, <1>19, WritesKeep DEF Ledger!PostMovements

-----------------------------------------------------------------------------
LEMMA StockBegins == Init => StockInv /\ Ledger!Init
<1> SUFFICES ASSUME Init PROVE StockInv /\ Ledger!Init
  OBVIOUS
<1>1. LockInv
  BY LocksBegin
<1>2. [status : {"active"}, unit : Units, key : {{}}] \subseteq ItemRow
  BY DEF ItemRow
<1>3. items \in [Items -> ItemRow \cup {NoItem}]
  BY <1>2 DEF Init
<1>5. RowsInv
  BY <1>3 DEF Init, RowsInv
<1>6. UnitsInv
  BY DEF Init, UnitsInv
<1>7. \A t \in Txns : Reads(t)
  BY DEF Init, Reads, Idle, Organizes
<1>8. Ledger!Init
  BY DEF Init, Ledger!Init, Ledger!NoItem, NoItem, Ledger!Places, Places
<1> QED
  BY <1>1, <1>5, <1>6, <1>7, <1>8 DEF StockInv

LEMMA StockStep == StockInv /\ [Next]_vars => StockInv' /\ [Ledger!Next]_(Ledger!vars)
<1> SUFFICES ASSUME StockInv, [Next]_vars PROVE StockInv' /\ [Ledger!Next]_(Ledger!vars)
  OBVIOUS
<1>1. CASE UNCHANGED vars
  <2>1. UNCHANGED <<items, balances, movements, orders, receipts>> /\ txn' = txn
    BY <1>1 DEF vars
  <2>2. \A b : Needs(b)' = Needs(b)
    BY <2>1 DEF Needs, UpdateLocks, ChangeLocks, ReverseLocks, SaveLocks, TransitionLocks, ReceiveLocks
  <2>3. LockInv'
    BY <2>1, <2>2 DEF StockInv, LockInv, Shape, CommandsInv, HeldIsNeeded, Exclusive, InOrder
  <2> QED
    BY <2>1, <2>3, WithoutRows DEF StockInv, Ledger!vars
<1>2. ASSUME NEW t \in Txns, NEW c \in Commands, Begin(t, c) PROVE StockInv' /\ UNCHANGED Ledger!vars
  BY <1>2, BeginKeeps DEF Begin, Ledger!vars
<1>3. ASSUME NEW t \in Txns, BeginReverse(t) PROVE StockInv' /\ UNCHANGED Ledger!vars
  <2>1. PICK k \in Keys, m \in movements : Begin(t, [op |-> "reverse", key |-> k, target |-> m])
    BY <1>3 DEF BeginReverse
  <2>2. [op |-> "reverse", key |-> k, target |-> m] \in Commands
    BY DEF Commands, ReverseCmd, StockInv, RowsInv
  <2> QED
    BY <1>2, <2>1, <2>2
<1>4. ASSUME NEW t \in Txns, Acquire(t) \/ Abort(t) PROVE StockInv' /\ UNCHANGED Ledger!vars
  BY <1>4, AcquireKeeps, AbortKeeps DEF Acquire, Abort, Ledger!vars
<1>5. ASSUME NEW t \in Txns, CommitSave(t) \/ CommitTransition(t) PROVE StockInv' /\ UNCHANGED Ledger!vars
  BY <1>5, SaveCommits, TransitionCommits DEF Ledger!vars
<1>6. ASSUME NEW t \in Txns, CommitCreate(t) \/ CommitUpdate(t) \/ CommitChange(t) \/ CommitReverse(t) \/ CommitReceive(t)
      PROVE  StockInv' /\ Ledger!Next
  BY <1>6, CreateCommits, UpdateCommits, ChangeCommits, ReverseCommits, ReceiveCommits DEF Ledger!Next
<1> QED
  BY <1>1, <1>2, <1>3, <1>4, <1>5, <1>6 DEF Next, Commands

LEMMA StockAlways == Spec => []StockInv
<1> QED
  BY StockBegins, StockStep, PTL DEF Spec

(* Items, balances, movements, orders and receipts are always rows that     *)
(* their tables allow, and commands what the handlers are given.            *)
THEOREM StockTyped == Spec => []TypeOK
<1>1. StockInv => TypeOK
  BY DEF StockInv, RowsInv, LockInv, CommandsInv, TypeOK
<1> QED
  BY <1>1, StockAlways, PTL

(* No session waits, over however many others, for itself.                  *)
THEOREM NobodyWaitsForever == Spec => []NoDeadlock
<1>1. StockInv => NoDeadlock
  BY LocksPreventDeadlock DEF StockInv
<1> QED
  BY <1>1, StockAlways, PTL

(* A change or reversal that has its locks meets no movement with its key,  *)
(* but for the opening of an item.                                          *)
THEOREM RetriesMeetTheOriginal == Spec => []RetriesAgree
<1>1. ASSUME StockInv, NEW t \in Txns, Ready(t, "change") \/ Ready(t, "reverse"),
             NEW m \in movements, m.id = txn[t].cmd.key
      PROVE  m.kind = "opening"
  <2>1. MovementKey(txn[t].cmd.key) \in txn[t].held /\ txn[t].cmd.op \in {"change", "reverse"}
    BY <1>1, ReadyHolds, NeedsByOperation DEF ChangeLocks, ReverseLocks
  <2> QED
    BY <1>1, <2>1 DEF StockInv, Reads
<1>2. StockInv => RetriesAgree
  BY <1>1 DEF RetriesAgree
<1> QED
  BY <1>2, StockAlways, PTL

(* What was received is counted in the unit it was ordered in, although     *)
(* units of items change.                                                   *)
THEOREM ReceivedAsOrdered == Spec => []ReceivedInOrderedUnit
<1>1. StockInv => ReceivedInOrderedUnit
  BY DEF StockInv, UnitsInv, ReceivedInOrderedUnit
<1> QED
  BY <1>1, StockAlways, PTL

(* However commands overlap, what they do to items, balances and movements  *)
(* is a sequence of steps of the ledger.                                    *)
THEOREM ImplementsLedger == Spec => LedgerSpec
<1>1. Init => Ledger!Init
  BY StockBegins
<1>2. StockInv /\ [Next]_vars => [Ledger!Next]_(Ledger!vars)
  BY StockStep
<1> QED
  BY <1>1, <1>2, StockAlways, PTL DEF Spec, LedgerSpec, Ledger!Spec

-----------------------------------------------------------------------------
(* Quantities.  A sum over movements or receipts is a total, whatever the   *)
(* order they are counted in.                                               *)

Moved(M) == MapThenSumSet(LAMBDA m : m.delta, M)
MovedAt(p) == {m \in movements : Place(m) = p}
DeltaOf == [m \in MovementRow |-> m.delta]

BalancesInv == \A p \in Places : balances[p] = Moved(MovedAt(p)) /\ IsFiniteSet(MovedAt(p))

LEMMA MovedIsTotal ==
  ASSUME NEW M \in SUBSET MovementRow, IsFiniteSet(M)
  PROVE  Weighs(DeltaOf, M) /\ Moved(M) = Total(DeltaOf, M)
<1> DEFINE Sums(g) == g = [s \in SUBSET M |-> IF s = {} THEN 0 ELSE Picked(s).delta + g[s \ {Picked(s)}]]
<1>1. Moved(M) = (CHOOSE g : Sums(g))[M]
  BY DEF Moved, MapThenSumSet, MapThenFoldSet, Picked
<1>2. PICK h : Adds(h, DeltaOf, M)
  BY AddsExists
<1>3. \A s \in SUBSET M : s # {} => DeltaOf[Picked(s)] = Picked(s).delta
  BY PickedIsIn DEF DeltaOf
<1>4. Sums(h)
  BY <1>2, <1>3 DEF Adds
<1>5. PICK g : Sums(g) /\ Moved(M) = g[M]
  BY <1>1, <1>4
<1>6. Adds(g, DeltaOf, M)
  BY <1>3, <1>5 DEF Adds
<1>7. Weighs(DeltaOf, M)
  BY DEF Weighs, DeltaOf, MovementRow
<1> QED
  BY <1>5, <1>6, <1>7, TotalIs

(* Whatever the ledger does, it does to balances and movements alike.       *)
LEMMA LedgerBalances ==
  ASSUME BalancesInv, RowsInv, RowsInv', [Ledger!Next]_(Ledger!vars)
  PROVE  BalancesInv'
<1>1. CASE UNCHANGED <<balances, movements>>
  <2>1. \A p \in Places : MovedAt(p)' = MovedAt(p) /\ balances'[p] = balances[p]
    BY <1>1 DEF MovedAt
  <2> QED
    BY <2>1 DEF BalancesInv
<1>2. CASE Ledger!Append
  <2> SUFFICES ASSUME NEW p \in Places PROVE balances'[p] = Moved(MovedAt(p)') /\ IsFiniteSet(MovedAt(p)')
    BY DEF BalancesInv
  <2>1. PICK M \in SUBSET MovementRow : M = MovedAt(p)
    BY DEF MovedAt, RowsInv
  <2>2. IsFiniteSet(M) /\ balances[p] = Moved(M)
    BY <2>1 DEF BalancesInv
  <2>3. /\ movements \subseteq movements'
        /\ \A m, n \in movements' \ movements : Place(m) = Place(n) => m = n
        /\ \A m \in movements' \ movements : balances'[Place(m)] = balances[Place(m)] + m.delta
        /\ (\A m \in movements' \ movements : Place(m) # p) => balances'[p] = balances[p]
    BY <1>2 DEF Ledger!Append, Ledger!New, Ledger!Place, Place, Ledger!Places, Places
  <2>4. CASE \A m \in movements' \ movements : Place(m) # p
    <3>1. MovedAt(p)' = M
      BY <2>1, <2>3, <2>4 DEF MovedAt
    <3> QED
      BY <2>2, <2>3, <2>4, <3>1
  <2>5. ASSUME NEW m \in movements' \ movements, Place(m) = p
        PROVE  balances'[p] = Moved(MovedAt(p)') /\ IsFiniteSet(MovedAt(p)')
    <3>1. PICK N \in SUBSET MovementRow : N = M \cup {m} /\ N = MovedAt(p)'
      <4>1. MovedAt(p)' = {n \in movements' : Place(n) = p} /\ M = {n \in movements : Place(n) = p}
        BY <2>1 DEF MovedAt
      <4>2. MovedAt(p)' = M \cup {m} /\ MovedAt(p)' \in SUBSET MovementRow
        BY <2>3, <2>5, <4>1 DEF RowsInv
      <4> QED
        BY <4>2
    <3>2. m \in MovementRow /\ m \notin M /\ DeltaOf[m] = m.delta /\ m.delta \in Int
      BY <2>1, <2>5 DEF MovedAt, RowsInv, DeltaOf, MovementRow
    <3>3. Weighs(DeltaOf, M) /\ Moved(M) = Total(DeltaOf, M) /\ Total(DeltaOf, M) \in Int
      BY <2>2, MovedIsTotal, TotalTakes
    <3>4. Weighs(DeltaOf, M \cup {m}) /\ Total(DeltaOf, M \cup {m}) = DeltaOf[m] + Total(DeltaOf, M)
      BY <3>2, <3>3, TotalAdds
    <3>5. IsFiniteSet(N) /\ Moved(N) = Total(DeltaOf, N)
      BY <3>1, <3>4, MovedIsTotal DEF Weighs
    <3>6. balances'[p] = balances[p] + m.delta
      BY <2>3, <2>5
    <3>7. Moved(N) = balances[p] + m.delta
      BY <2>2, <3>1, <3>2, <3>3, <3>4, <3>5
    <3> QED
      BY <3>1, <3>5, <3>6, <3>7
  <2> QED
    BY <2>4, <2>5
<1> QED
  BY <1>1, <1>2 DEF Ledger!Next, Ledger!PostMovements, Ledger!CreateItem, Ledger!EditItem, Ledger!vars

(* The quantity that reads and dashboards show is the sum of the movements, *)
(* however receipts, changes, reversals and creations overlap.              *)
THEOREM BalancesAddUp == Spec => []BalanceIsLedger
<1>1. Init => BalancesInv
  <2> SUFFICES ASSUME Init, NEW p \in Places PROVE balances[p] = Moved(MovedAt(p)) /\ IsFiniteSet(MovedAt(p))
    BY DEF BalancesInv
  <2>1. MovedAt(p) = {} /\ balances[p] = 0
    BY DEF Init, MovedAt
  <2>2. {} \in SUBSET MovementRow /\ IsFiniteSet({})
    BY FS_EmptySet
  <2>3. Moved({}) = 0
    BY <2>2, MovedIsTotal, TotalTakes
  <2> QED
    BY <2>1, <2>2, <2>3
<1>2. BalancesInv /\ StockInv /\ StockInv' /\ [Next]_vars => BalancesInv'
  BY StockStep, LedgerBalances DEF StockInv
<1>3. BalancesInv => BalanceIsLedger
  BY Zenon DEF BalancesInv, BalanceIsLedger, Moved, MovedAt
<1> QED
  BY <1>1, <1>2, <1>3, StockAlways, PTL DEF Spec

(* What has come of a line of an order.                                     *)
Takers(rs, o, i) == {r \in rs : r.order = o /\ i \in DOMAIN r.lines}
LineOf(i) == [r \in ReceiveCmd |-> r.lines[i]]

LEMMA TakenIsTotal ==
  ASSUME NEW rs \in SUBSET ReceiveCmd, IsFiniteSet(rs), NEW o, NEW i
  PROVE  /\ Weighs(LineOf(i), Takers(rs, o, i))
         /\ TakenBy(rs, o, i) = Total(LineOf(i), Takers(rs, o, i))
<1> DEFINE T == Takers(rs, o, i)
           f == LineOf(i)
           Sums(g) == g = [s \in SUBSET T |-> IF s = {} THEN 0 ELSE Picked(s).lines[i] + g[s \ {Picked(s)}]]
<1>1. TakenBy(rs, o, i) = (CHOOSE g : Sums(g))[T]
  BY DEF TakenBy, Takers, MapThenSumSet, MapThenFoldSet, Picked
<1>2. IsFiniteSet(T)
  BY FS_Subset DEF Takers
<1>3. ASSUME NEW r \in T PROVE f[r] = r.lines[i] /\ f[r] \in Int
  <2>1. r \in ReceiveCmd /\ i \in DOMAIN r.lines
    BY DEF Takers
  <2>2. r.lines \in Lines(1 .. MaxQty)
    BY <2>1 DEF ReceiveCmd
  <2>3. r.lines[i] \in 1 .. MaxQty
    BY <2>1, <2>2, LinesOf
  <2> QED
    BY <2>1, <2>3, ConstantsAssumption DEF LineOf
<1> HIDE DEF T, f
<1>4. PICK h : Adds(h, f, T)
  BY <1>2, AddsExists
<1>5. \A s \in SUBSET T : s # {} => f[Picked(s)] = Picked(s).lines[i]
  BY <1>3, PickedIsIn
<1>6. Sums(h)
  BY <1>4, <1>5 DEF Adds
<1>7. PICK g : Sums(g) /\ TakenBy(rs, o, i) = g[T]
  BY <1>1, <1>6
<1>8. Adds(g, f, T)
  BY <1>5, <1>7 DEF Adds
<1>9. TakenBy(rs, o, i) = Total(f, T)
  BY <1>2, <1>7, <1>8, TotalIs
<1>10. Weighs(f, T)
  BY <1>2, <1>3 DEF Weighs
<1> QED
  BY <1>9, <1>10 DEF T, f

(* A receipt adds its lines, and nothing else, to what has come.            *)
LEMMA TakenGrows ==
  ASSUME NEW rs \in SUBSET ReceiveCmd, IsFiniteSet(rs), NEW c \in ReceiveCmd, c \notin rs, NEW o, NEW i
  PROVE  /\ TakenBy(rs, o, i) \in Int
         /\ o = c.order /\ i \in DOMAIN c.lines => TakenBy(rs \cup {c}, o, i) = c.lines[i] + TakenBy(rs, o, i)
         /\ ~(o = c.order /\ i \in DOMAIN c.lines) => TakenBy(rs \cup {c}, o, i) = TakenBy(rs, o, i)
<1>1. PICK T, U, f, all : /\ T = Takers(rs, o, i) /\ f = LineOf(i) /\ all = rs \cup {c}
                          /\ U = Takers(all, o, i)
  OBVIOUS
<1>2. all \in SUBSET ReceiveCmd /\ IsFiniteSet(all)
  BY <1>1, FS_AddElement
<1>3. Weighs(f, T) /\ TakenBy(rs, o, i) = Total(f, T) /\ TakenBy(all, o, i) = Total(f, U)
  BY <1>1, <1>2, TakenIsTotal
<1>4. Total(f, T) \in Int
  BY <1>3, TotalTakes
<1>5. CASE o = c.order /\ i \in DOMAIN c.lines
  <2>1. U = T \cup {c} /\ c \notin T
    BY <1>1, <1>5 DEF Takers
  <2>2. f[c] = c.lines[i] /\ f[c] \in Int
    <3>1. c.lines \in Lines(1 .. MaxQty)
      BY DEF ReceiveCmd
    <3>2. c.lines[i] \in 1 .. MaxQty
      BY <1>5, <3>1, LinesOf
    <3> QED
      BY <1>1, <3>2, ConstantsAssumption DEF LineOf
  <2>3. Total(f, T \cup {c}) = f[c] + Total(f, T)
    BY <1>3, <2>1, <2>2, TotalAdds
  <2> QED
    BY <1>1, <1>3, <1>4, <1>5, <2>1, <2>2, <2>3
<1>6. CASE ~(o = c.order /\ i \in DOMAIN c.lines)
  <2>1. U = T
    BY <1>1, <1>6 DEF Takers
  <2> QED
    BY <1>1, <1>3, <1>4, <1>6, <2>1
<1> QED
  BY <1>5, <1>6

LEMMA NothingTaken ==
  ASSUME NEW rs \in SUBSET ReceiveCmd, IsFiniteSet(rs), NEW o, \A r \in rs : r.order # o, NEW i
  PROVE  TakenBy(rs, o, i) = 0
<1>1. Takers(rs, o, i) = {}
  BY DEF Takers
<1> QED
  BY <1>1, TakenIsTotal, TotalTakes

(* What the status of an order says of what has come of it.                 *)
Story(o) ==
  /\ \A i \in DOMAIN orders[o].lines : TakenBy(receipts, o, i) <= orders[o].lines[i].qty
  /\ orders[o].status \in {"partially_received", "received"} <=> \E r \in receipts : r.order = o
  /\ orders[o].status = "received" <=> Complete(o, receipts)

OrdersInv == IsFiniteSet(receipts) /\ \A o \in Orders : orders[o] # NoOrder => Story(o)

LEMMA StoryStays ==
  ASSUME NEW o, orders'[o] = orders[o], \A r \in receipts' \ receipts : r.order # o, receipts \subseteq receipts',
         \A i : TakenBy(receipts', o, i) = TakenBy(receipts, o, i), Story(o)
  PROVE  Story(o)'
  BY DEF Story, Complete

LEMMA OrdersStep == StockInv /\ OrdersInv /\ [Next]_vars => OrdersInv'
<1> SUFFICES ASSUME StockInv, OrdersInv, [Next]_vars PROVE OrdersInv'
  OBVIOUS
<1>0. receipts \in SUBSET ReceiveCmd /\ IsFiniteSet(receipts)
  BY DEF StockInv, RowsInv, OrdersInv
<1>1. CASE UNCHANGED <<orders, receipts>>
  BY <1>1 DEF OrdersInv, Story, Complete
<1>2. CASE Redrawn
  <2>1. PICK o \in Orders :
          /\ orders'[o] \in OrderRow /\ orders'[o].status \in {"draft", "ordered", "cancelled"}
          /\ orders[o].status \notin {"partially_received", "received"}
          /\ \A p \in Orders \ {o} : orders'[p] = orders[p]
    BY <1>2 DEF Redrawn
  <2>2. receipts' = receipts
    BY <1>2 DEF Redrawn
  <2>3. \A r \in receipts : r.order # o
    BY <2>1 DEF StockInv, UnitsInv
  <2>4. \A i : TakenBy(receipts, o, i) = 0
    BY <1>0, <2>3, NothingTaken
  <2>5. orders'[o].lines \in Lines([qty : 1 .. MaxQty, unit : Units])
    BY <2>1 DEF OrderRow
  <2>6. DOMAIN orders'[o].lines # {}
    BY <2>5 DEF Lines
  <2>7. \A i \in DOMAIN orders'[o].lines : orders'[o].lines[i].qty \in 1 .. MaxQty
    <3>1. \A i \in DOMAIN orders'[o].lines : orders'[o].lines[i] \in [qty : 1 .. MaxQty, unit : Units]
      BY <2>5, LinesOf
    <3> QED
      BY <3>1
  <2>8. Story(o)'
    BY <2>1, <2>2, <2>3, <2>4, <2>6, <2>7, ConstantsAssumption DEF Story, Complete
  <2>9. ASSUME NEW p \in Orders \ {o}, orders'[p] # NoOrder PROVE Story(p)'
    BY <2>1, <2>2, <2>9, StoryStays DEF OrdersInv
  <2> QED
    BY <1>0, <2>2, <2>8, <2>9 DEF OrdersInv
<1>3. ASSUME NEW c, TakesIn(c) PROVE OrdersInv'
  <2>1. PICK o \in Orders : o = c.order
    BY <1>3 DEF TakesIn, ReceiveCmd
  <2>2. c \in ReceiveCmd /\ c \notin receipts /\ receipts' = receipts \cup {c} /\ IsFiniteSet(receipts')
    BY <1>0, <1>3, FS_AddElement DEF TakesIn
  <2>3. \A p, i : /\ TakenBy(receipts, p, i) \in Int
                  /\ p = o /\ i \in DOMAIN c.lines => TakenBy(receipts', p, i) = c.lines[i] + TakenBy(receipts, p, i)
                  /\ ~(p = o /\ i \in DOMAIN c.lines) => TakenBy(receipts', p, i) = TakenBy(receipts, p, i)
    BY <1>0, <2>1, <2>2, TakenGrows
  <2>4. ASSUME NEW p \in Orders \ {o}, orders'[p] # NoOrder PROVE Story(p)'
    <3>1. orders'[p] = orders[p] /\ Story(p)
      BY <1>3, <2>1, <2>4 DEF TakesIn, OrdersInv
    <3> QED
      BY <2>1, <2>2, <2>3, <2>4, <3>1, StoryStays
  <2>5. /\ orders[o] \in OrderRow /\ orders'[o].lines = orders[o].lines
        /\ orders'[o].status = IF Complete(o, receipts') THEN "received" ELSE "partially_received"
        /\ \A i \in DOMAIN c.lines : c.lines[i] <= orders[o].lines[i].qty - TakenBy(receipts, o, i)
    BY <1>3, <2>1 DEF TakesIn, Remaining, Received
  <2>6. /\ \A i \in DOMAIN orders[o].lines : orders[o].lines[i].qty \in Int
        /\ \A i \in DOMAIN c.lines : c.lines[i] \in Int
    <3>1. orders[o].lines \in Lines([qty : 1 .. MaxQty, unit : Units]) /\ c.lines \in Lines(1 .. MaxQty)
      BY <2>2, <2>5 DEF OrderRow, ReceiveCmd
    <3>2. \A i \in DOMAIN orders[o].lines : orders[o].lines[i] \in [qty : 1 .. MaxQty, unit : Units]
      BY <3>1, LinesOf
    <3>3. \A i \in DOMAIN c.lines : c.lines[i] \in 1 .. MaxQty
      BY <3>1, LinesOf
    <3> QED
      BY <3>2, <3>3, ConstantsAssumption
  <2>7. DOMAIN c.lines \subseteq DOMAIN orders[o].lines /\ Story(o)
    BY <1>3, <2>1, <2>5 DEF TakesIn, OrdersInv, OrderRow, NoOrder
  <2>8. \A i \in DOMAIN orders'[o].lines : TakenBy(receipts', o, i) <= orders'[o].lines[i].qty
    BY <2>3, <2>5, <2>6, <2>7 DEF Story
  <2>9. Complete(o, receipts)' <=> Complete(o, receipts')
    BY <2>5 DEF Complete
  <2>10. Story(o)'
    BY <2>1, <2>2, <2>5, <2>8, <2>9 DEF Story
  <2> QED
    BY <2>2, <2>4, <2>10 DEF OrdersInv
<1>4. ASSUME NEW t \in Txns, CommitSave(t) \/ CommitTransition(t) PROVE Redrawn
  BY <1>4, SaveCommits, TransitionCommits
<1>5. ASSUME NEW t \in Txns, CommitReceive(t) PROVE OrdersInv'
  BY <1>3, <1>5, ReceiveCommits
<1>6. ASSUME NEW t \in Txns,
             \/ \E c \in Commands : Begin(t, c)
             \/ BeginReverse(t) \/ Acquire(t) \/ Abort(t)
             \/ CommitCreate(t) \/ CommitUpdate(t) \/ CommitChange(t) \/ CommitReverse(t)
      PROVE  UNCHANGED <<orders, receipts>>
  BY <1>6 DEF Begin, BeginReverse, Acquire, Abort, CommitCreate, CommitUpdate, CommitChange, CommitReverse
<1>7. UNCHANGED vars => UNCHANGED <<orders, receipts>>
  BY DEF vars
<1> QED
  BY <1>1, <1>2, <1>4, <1>5, <1>6, <1>7 DEF Next, Commands

(* No receipt takes more than was ordered, whatever version of the order    *)
(* its client had seen, the status of an order says how much of it has      *)
(* come, and it came in the unit it was ordered in.                         *)
THEOREM ReceivedIsOrdered == Spec => []ReceiptsMatchOrders
<1>1. Init => OrdersInv
  BY FS_EmptySet DEF Init, OrdersInv
<1>2. OrdersInv => OrdersMatchReceipts
  BY DEF OrdersInv, Story, Complete, OrdersMatchReceipts, Received
<1>3. ReceivedInOrderedUnit /\ OrdersMatchReceipts => ReceiptsMatchOrders
  BY DEF ReceiptsMatchOrders
<1> QED
  BY <1>1, <1>2, <1>3, OrdersStep, StockAlways, ReceivedAsOrdered, PTL DEF Spec
=============================================================================
