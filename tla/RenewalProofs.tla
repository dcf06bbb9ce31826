---------------------------- MODULE RenewalProofs ----------------------------
(***************************************************************************)
(* Proofs about Renewal for every set of sessions, renewals and payment    *)
(* keys, every clock and every subscription row an operator may write.     *)
(*                                                                         *)
(* The inductive invariant joins the row types with what the row locks     *)
(* protect: one session at most holds the subscription row, whoever holds  *)
(* a renewal row holds the subscription row too, and a REPEATABLE READ     *)
(* snapshot that no later write has outdated still is the current row.     *)
(***************************************************************************)
EXTENDS Renewal, SumProofs

USE DEF Times, NoEnd, NoRow, NoCommand, SubRow, Locks

(* What a session may hold, and what holding it means. *)
LockInv ==
  /\ \A t \in Txns : txn[t].held # {} => SubRow \in txn[t].held
  /\ \A t, u \in Txns : SubRow \in txn[t].held /\ SubRow \in txn[u].held => t = u
  /\ \A t \in Txns : txn[t].op = "finalize" /\ ~txn[t].stale => txn[t].snap = sub
  /\ \A t \in Txns : txn[t].op = "finalize" /\ SubRow \in txn[t].held
                       => ~txn[t].stale
  /\ \A t \in Txns : txn[t].op = "finalize" => txn[t].seen \subseteq Renewals

(* The period a renewal row grants starts no earlier than the one it       *)
(* follows ends.                                                           *)
PeriodInv ==
  \A r \in Renewals : renewals[r] # NoRow =>
    /\ renewals[r].starts >= renewals[r].priorEnds
    /\ renewals[r].ends > renewals[r].starts

IInv == TypeOK /\ LockInv /\ PeriodInv /\ OneActionablePerPeriod

-----------------------------------------------------------------------------
LEMMA EditsTyped == \A e \in OperatorEdits : e \in Subscription
BY ConstantsAssumption

(* What a session can be doing, and how a step changes it. *)
TxnRow == FinalizeTxn \cup ApplyTxn \cup {NoCommand}

LEMMA TxnCases ==
  ASSUME NEW x \in TxnRow
  PROVE  /\ x.op = "finalize" => x \in FinalizeTxn
         /\ x.op = "apply" => x \in ApplyTxn
         /\ x.op \notin {"finalize", "apply"} => x = NoCommand
BY DEF TxnRow, FinalizeTxn, ApplyTxn

LEMMA OutdatedTyped ==
  ASSUME NEW tx \in [Txns -> TxnRow]
  PROVE  Outdated(tx) \in [Txns -> TxnRow]
<1> SUFFICES ASSUME NEW t \in Txns PROVE Outdated(tx)[t] \in TxnRow
  BY DEF Outdated
<1>1. CASE tx[t].op = "finalize"
  <2>1. tx[t] \in FinalizeTxn
    BY <1>1, TxnCases
  <2>2. [tx[t] EXCEPT !.stale = TRUE] \in FinalizeTxn
    BY <2>1 DEF FinalizeTxn
  <2> QED
    BY <1>1, <2>2 DEF Outdated, TxnRow
<1>2. CASE tx[t].op # "finalize"
  BY <1>2 DEF Outdated
<1> QED
  BY <1>1, <1>2

LEMMA GrantTyped ==
  ASSUME NEW x \in TxnRow, x # NoCommand, NEW l \in Locks
  PROVE  [x EXCEPT !.held = @ \cup {l}] \in TxnRow
<1>1. CASE x \in FinalizeTxn
  BY <1>1 DEF FinalizeTxn, TxnRow
<1>2. CASE x \in ApplyTxn
  BY <1>2 DEF ApplyTxn, TxnRow
<1> QED
  BY <1>1, <1>2 DEF TxnRow

LEMMA InitInv == Init => IInv
<1> SUFFICES ASSUME Init PROVE IInv
  OBVIOUS
<1>1. TypeOK
  BY EditsTyped, ConstantsAssumption DEF Init, TypeOK
<1>2. LockInv
  BY DEF Init, LockInv
<1>3. PeriodInv
  BY DEF Init, PeriodInv
<1>4. OneActionablePerPeriod
  BY DEF Init, OneActionablePerPeriod, Actionable
<1> QED
  BY <1>1, <1>2, <1>3, <1>4 DEF IInv

LEMMA TypeStep == TypeOK /\ [Next]_vars => TypeOK'
<1> SUFFICES ASSUME TypeOK, [Next]_vars PROVE TypeOK'
  OBVIOUS
<1> USE DEF TypeOK
<1>1. CASE Tick
  BY <1>1, ConstantsAssumption DEF Tick
<1>2. ASSUME NEW row \in OperatorEdits, UpdateSubscription(row) PROVE TypeOK'
  BY <1>2, EditsTyped, OutdatedTyped DEF UpdateSubscription, TxnRow
<1>3. ASSUME NEW t \in Txns, FinalizeBegin(t) PROVE TypeOK'
  BY <1>3 DEF FinalizeBegin, Recent, ActionableFor, FinalizeTxn, ApplyTxn
<1>4. ASSUME NEW t \in Txns, FinalizeCommit(t) PROVE TypeOK'
  <2>1. txn' \in [Txns -> FinalizeTxn \cup ApplyTxn \cup {NoCommand}]
    BY <1>4 DEF FinalizeCommit, Done
  <2>2. txn[t] \in FinalizeTxn
    BY <1>4 DEF FinalizeCommit, ApplyTxn
  <2>3. txn[t].snap \in Subscription /\ txn[t].snap.ends \in Times
    BY <1>4, <2>2 DEF FinalizeCommit, FinalizeTxn, Renewable, Subscription
  <2>4. renewals' \in [Renewals -> RenewalRow \cup {NoRow}]
    BY <1>4, <2>3 DEF FinalizeCommit, FinalizedRow, Kind, RenewalRow, Subscription
  <2> QED
    BY <1>4, <2>1, <2>4 DEF FinalizeCommit
<1>5. ASSUME NEW t \in Txns, ApplyBegin(t) PROVE TypeOK'
  BY <1>5 DEF ApplyBegin, Recent, FinalizeTxn, ApplyTxn
<1>6. ASSUME NEW t \in Txns, ApplyCommit(t) PROVE TypeOK'
  <2>1. txn[t] \in ApplyTxn /\ txn[t].renewal \in Renewals
    BY <1>6 DEF ApplyCommit, FinalizeTxn, ApplyTxn
  <2>2. renewals[txn[t].renewal] \in RenewalRow
    BY <1>6, <2>1 DEF ApplyCommit, Applicable
  <2>3. txn' \in [Txns -> FinalizeTxn \cup ApplyTxn \cup {NoCommand}]
    <3>1. Done(t) \in [Txns -> TxnRow]
      BY DEF Done, TxnRow
    <3> QED
      BY <1>6, <3>1, OutdatedTyped DEF ApplyCommit, TxnRow
  <2>4. sub' \in Subscription
    BY <1>6, <2>2 DEF ApplyCommit, Subscription, SubStatuses, RenewalRow
  <2>5. renewals' \in [Renewals -> RenewalRow \cup {NoRow}]
    BY <1>6, <2>1, <2>2 DEF ApplyCommit, RenewalRow
  <2> QED
    BY <1>6, <2>3, <2>4, <2>5 DEF ApplyCommit
<1>7. ASSUME NEW t \in Txns, Acquire(t) PROVE TypeOK'
  <2>1. PICK l \in Wants(t) : txn' = [txn EXCEPT ![t].held = @ \cup {l}]
    BY <1>7 DEF Acquire
  <2>2. l \in Locks
    BY <2>1 DEF Wants, FinalizeTxn, ApplyTxn
  <2>3. txn[t] # NoCommand
    BY <2>1 DEF Wants
  <2>4. [txn[t] EXCEPT !.held = @ \cup {l}] \in TxnRow
    BY <2>2, <2>3, GrantTyped DEF TxnRow
  <2> QED
    BY <1>7, <2>1, <2>4 DEF Acquire, TxnRow
<1>8. ASSUME NEW t \in Txns, Rollback(t) PROVE TypeOK'
  BY <1>8 DEF Rollback, Done
<1>9. ASSUME NEW r \in Renewals, CancelRenewal(r) PROVE TypeOK'
  <2>1. renewals[r] \in RenewalRow
    BY <1>9 DEF CancelRenewal, Actionable
  <2>2. [renewals[r] EXCEPT !.status = "cancelled"] \in RenewalRow
    BY <2>1 DEF RenewalRow
  <2> QED
    BY <1>9, <2>2 DEF CancelRenewal
<1>10. ASSUME NEW r \in Renewals, NEW k \in Keys, VoidPayment(r, k) PROVE TypeOK'
  <2>1. payments' \in [Renewals -> [Keys -> PaymentRow \cup {NoRow}]]
    <3>1. [payments[r][k] EXCEPT !.status = "void"] \in PaymentRow
      BY <1>10 DEF VoidPayment, PaymentRow
    <3> QED
      BY <1>10, <3>1 DEF VoidPayment
  <2>2. renewals' \in [Renewals -> RenewalRow \cup {NoRow}]
    <3>1. renewals[r] \in RenewalRow
      BY <1>10 DEF VoidPayment, Actionable
    <3>2. [renewals[r] EXCEPT !.status = Settlement(r, payments'[r])] \in RenewalRow
      BY <3>1 DEF RenewalRow, Settlement
    <3> QED
      BY <1>10, <3>2 DEF VoidPayment
  <2> QED
    BY <1>10, <2>1, <2>2 DEF VoidPayment
<1>11. ASSUME NEW r \in Renewals, NEW k \in Keys, NEW a \in Amounts,
              RecordPayment(r, k, a)
       PROVE TypeOK'
  <2>1. payments' \in [Renewals -> [Keys -> PaymentRow \cup {NoRow}]]
    BY <1>11 DEF RecordPayment, PaymentRow
  <2>2. renewals' \in [Renewals -> RenewalRow \cup {NoRow}]
    <3>1. renewals[r] \in RenewalRow
      BY <1>11 DEF RecordPayment, Actionable
    <3>2. [renewals[r] EXCEPT !.status = Settlement(r, payments'[r])] \in RenewalRow
      BY <3>1 DEF RenewalRow, Settlement
    <3> QED
      BY <1>11, <3>2 DEF RecordPayment
  <2> QED
    BY <1>11, <2>1, <2>2 DEF RecordPayment
<1>12. CASE UNCHANGED vars
  BY <1>12 DEF vars
<1> QED
  BY <1>1, <1>2, <1>3, <1>4, <1>5, <1>6, <1>7, <1>8, <1>9, <1>10, <1>11, <1>12 DEF Next

(* Every row a renewal, a payment, a subscription or a session can become  *)
(* is one its table or its transaction allows.                             *)
THEOREM TypeCorrect == Spec => []TypeOK
<1>1. Init => TypeOK
  BY InitInv DEF IInv
<1> QED
  BY <1>1, TypeStep, PTL DEF Spec

-----------------------------------------------------------------------------
(* Only the holder of the subscription row holds anything, so a row that   *)
(* is free for one session is not held by another.                         *)
LEMMA LockStep == TypeOK /\ LockInv /\ [Next]_vars => LockInv'
<1> SUFFICES ASSUME TypeOK, LockInv, [Next]_vars PROVE LockInv'
  OBVIOUS
<1>t. \A t \in Txns : txn[t] \in TxnRow
  BY DEF TypeOK, TxnRow
<1>1. ASSUME NEW row \in OperatorEdits, UpdateSubscription(row) PROVE LockInv'
  <2>1. \A t \in Txns : txn[t].held = {}
    BY <1>1 DEF UpdateSubscription, Unlocked, LockInv
  <2>2. \A t \in Txns : /\ txn'[t].op = txn[t].op
                        /\ txn'[t].held = txn[t].held
                        /\ txn[t].op = "finalize" => txn'[t].stale
                        /\ txn[t].op = "finalize" => txn'[t].seen = txn[t].seen
    BY <1>1, <1>t, TxnCases DEF UpdateSubscription, Outdated, FinalizeTxn
  <2> QED
    BY <2>1, <2>2 DEF LockInv
<1>2. ASSUME NEW t \in Txns, FinalizeBegin(t) PROVE LockInv'
  BY <1>2 DEF FinalizeBegin, LockInv, TypeOK, ActionableFor
<1>3. ASSUME NEW t \in Txns, ApplyBegin(t) PROVE LockInv'
  BY <1>3 DEF ApplyBegin, LockInv, TypeOK
<1>4. ASSUME NEW t \in Txns, txn' = Done(t), sub' = sub PROVE LockInv'
  BY <1>4 DEF Done, LockInv, TypeOK
<1>5. ASSUME NEW t \in Txns, ApplyCommit(t) PROVE LockInv'
  <2>1. \A u \in Txns : u # t => txn[u].held = {}
    BY <1>5 DEF ApplyCommit, LockInv
  <2>2. txn'[t] = NoCommand
    BY <1>5 DEF ApplyCommit, Outdated, Done, TypeOK
  <2>3. \A u \in Txns : u # t =>
          /\ txn'[u].op = txn[u].op
          /\ txn'[u].held = {}
          /\ txn[u].op = "finalize" => txn'[u].stale
          /\ txn[u].op = "finalize" => txn'[u].seen = txn[u].seen
    <3> SUFFICES ASSUME NEW u \in Txns, u # t
                 PROVE  /\ txn'[u].op = txn[u].op
                        /\ txn'[u].held = {}
                        /\ txn[u].op = "finalize" => txn'[u].stale
                        /\ txn[u].op = "finalize" => txn'[u].seen = txn[u].seen
      OBVIOUS
    <3>1. txn'[u] = IF txn[u].op = "finalize" THEN [txn[u] EXCEPT !.stale = TRUE]
                    ELSE txn[u]
      BY <1>5 DEF ApplyCommit, Outdated, Done, TypeOK
    <3>2. txn[u].op = "finalize" => txn[u] \in FinalizeTxn
      BY <1>t, TxnCases
    <3> QED
      BY <2>1, <3>1, <3>2 DEF FinalizeTxn
  <2> QED
    BY <2>2, <2>3 DEF LockInv
<1>6. ASSUME NEW t \in Txns, Acquire(t) PROVE LockInv'
  <2>1. PICK l \in Wants(t) :
          /\ Unlocked(l)
          /\ ~Conflicts(t)
          /\ txn' = [txn EXCEPT ![t].held = @ \cup {l}]
          /\ sub' = sub
    BY <1>6 DEF Acquire
  <2>2. SubRow \in txn[t].held \cup {l}
    BY <2>1 DEF Wants, LockInv
  <2>3. txn[t] \in FinalizeTxn \/ txn[t] \in ApplyTxn
    BY <1>t, <2>1, TxnCases DEF Wants
  <2>4. /\ txn'[t].held = txn[t].held \cup {l}
        /\ txn'[t].op = txn[t].op
        /\ txn[t].op = "finalize" => /\ txn'[t].stale = txn[t].stale
                                     /\ txn'[t].seen = txn[t].seen
                                     /\ txn'[t].snap = txn[t].snap
    BY <2>1, <2>3 DEF FinalizeTxn, ApplyTxn, TypeOK
  <2>5. \A u \in Txns : u # t => txn'[u] = txn[u]
    BY <2>1 DEF TypeOK
  <2>6. \A u \in Txns : u # t => SubRow \notin txn[u].held
    BY <2>1, <2>2 DEF Unlocked, LockInv
  <2>7. txn[t].op = "finalize" => ~txn[t].stale
    BY <2>1, <2>3 DEF Conflicts, LockInv, FinalizeTxn
  <2> QED
    BY <2>1, <2>2, <2>4, <2>5, <2>6, <2>7 DEF LockInv
<1>7. ASSUME UNCHANGED <<sub, txn>> PROVE LockInv'
  BY <1>7 DEF LockInv
<1> QED
  BY <1>1, <1>2, <1>3, <1>4, <1>5, <1>6, <1>7
  DEF Next, vars, Tick, FinalizeCommit, Rollback, CancelRenewal, VoidPayment,
      RecordPayment

LEMMA PeriodStep == TypeOK /\ PeriodInv /\ [Next]_vars => PeriodInv'
<1> SUFFICES ASSUME TypeOK, PeriodInv, [Next]_vars PROVE PeriodInv'
  OBVIOUS
<1>1. ASSUME NEW t \in Txns, FinalizeCommit(t) PROVE PeriodInv'
  <2>1. txn[t] \in FinalizeTxn
    BY <1>1, TxnCases DEF FinalizeCommit, TypeOK, TxnRow
  <2>2. txn[t].snap.ends \in Int /\ txn[t].at \in Int
    BY <2>1, ConstantsAssumption DEF FinalizeTxn, Subscription
  <2>3. PICK r \in Renewals, starts \in Times, ends \in Times, agreed \in Totals :
          /\ renewals[r] = NoRow
          /\ ValidPeriod(txn[t].snap, txn[t].at, starts, ends)
          /\ renewals' = [renewals EXCEPT ![r] =
                             FinalizedRow(txn[t].snap, txn[t].at, starts, ends, agreed)]
    BY <1>1 DEF FinalizeCommit
  <2>4. starts >= txn[t].snap.ends /\ ends > starts
    BY <2>2, <2>3, ConstantsAssumption DEF ValidPeriod, Kind
  <2>5. renewals'[r].starts = starts /\ renewals'[r].ends = ends
        /\ renewals'[r].priorEnds = txn[t].snap.ends
    BY <2>3 DEF TypeOK, FinalizedRow
  <2>6. \A q \in Renewals : q # r => renewals'[q] = renewals[q]
    BY <2>3 DEF TypeOK
  <2> QED
    BY <2>4, <2>5, <2>6 DEF PeriodInv
<1>2. ASSUME \A r \in Renewals : renewals'[r] # NoRow =>
               /\ renewals[r] # NoRow
               /\ renewals'[r].starts = renewals[r].starts
               /\ renewals'[r].ends = renewals[r].ends
               /\ renewals'[r].priorEnds = renewals[r].priorEnds
      PROVE  PeriodInv'
  BY <1>2 DEF PeriodInv
<1>3. ASSUME NEW r \in Renewals, NEW st,
             renewals[r] \in RenewalRow,
             renewals' = [renewals EXCEPT ![r].status = st]
      PROVE  PeriodInv'
  BY <1>3, <1>2 DEF TypeOK, RenewalRow
<1>4. ASSUME NEW t \in Txns, ApplyCommit(t) PROVE PeriodInv'
  <2>1. txn[t].renewal \in Renewals
    BY <1>4, TxnCases DEF ApplyCommit, TypeOK, TxnRow, ApplyTxn
  <2>2. renewals[txn[t].renewal] \in RenewalRow
    BY <1>4, <2>1 DEF ApplyCommit, Applicable, TypeOK
  <2> QED
    BY <1>3, <1>4, <2>1, <2>2 DEF ApplyCommit
<1>5. ASSUME NEW r \in Renewals, CancelRenewal(r) PROVE PeriodInv'
  <2>1. renewals[r] \in RenewalRow
    BY <1>5 DEF CancelRenewal, TypeOK, Actionable
  <2>2. \E st : renewals' = [renewals EXCEPT ![r].status = st]
    BY <1>5, Zenon DEF CancelRenewal
  <2> QED
    BY <1>3, <2>1, <2>2
<1>6. ASSUME NEW r \in Renewals, NEW k \in Keys, VoidPayment(r, k) PROVE PeriodInv'
  <2>1. renewals[r] \in RenewalRow
    BY <1>6 DEF VoidPayment, TypeOK, Actionable
  <2>2. \E st : renewals' = [renewals EXCEPT ![r].status = st]
    BY <1>6, Zenon DEF VoidPayment
  <2> QED
    BY <1>3, <2>1, <2>2
<1>7. ASSUME NEW r \in Renewals, NEW k \in Keys, NEW a \in Amounts,
             RecordPayment(r, k, a)
      PROVE  PeriodInv'
  <2>1. renewals[r] \in RenewalRow
    BY <1>7 DEF RecordPayment, TypeOK, Actionable
  <2>2. \E st : renewals' = [renewals EXCEPT ![r].status = st]
    BY <1>7, Zenon DEF RecordPayment
  <2> QED
    BY <1>3, <2>1, <2>2
<1>8. ASSUME UNCHANGED renewals PROVE PeriodInv'
  BY <1>8 DEF PeriodInv
<1> QED
  BY <1>1, <1>4, <1>5, <1>6, <1>7, <1>8
  DEF Next, vars, Tick, UpdateSubscription, FinalizeBegin, ApplyBegin, Acquire, Rollback

(* The only step that opens a renewal is a finalization, and the unique    *)
(* index admits it only when no open renewal has its period.               *)
LEMMA OneActionableStep ==
  TypeOK /\ OneActionablePerPeriod /\ [Next]_vars => OneActionablePerPeriod'
<1> SUFFICES ASSUME TypeOK, OneActionablePerPeriod, [Next]_vars
             PROVE  OneActionablePerPeriod'
  OBVIOUS
<1> USE DEF Actionable
<1>1. ASSUME NEW t \in Txns, FinalizeCommit(t) PROVE OneActionablePerPeriod'
  <2>1. PICK r \in Renewals, starts \in Times, ends \in Times, agreed \in Totals :
          /\ renewals[r] = NoRow
          /\ ValidPeriod(txn[t].snap, txn[t].at, starts, ends)
          /\ renewals' = [renewals EXCEPT ![r] =
                             FinalizedRow(txn[t].snap, txn[t].at, starts, ends, agreed)]
    BY <1>1 DEF FinalizeCommit
  <2>2. renewals'[r].priorEnds = txn[t].snap.ends
    BY <2>1 DEF TypeOK, FinalizedRow
  <2>3. \A q \in Renewals : q # r => renewals'[q] = renewals[q]
    BY <2>1 DEF TypeOK
  <2>4. \A q \in Renewals : renewals[q].status \in Actionable
                            => renewals[q].priorEnds # txn[t].snap.ends
    BY <1>1 DEF FinalizeCommit, IndexAdmits, ActionableFor
  <2> QED
    BY <2>2, <2>3, <2>4 DEF OneActionablePerPeriod
<1>2. ASSUME NEW r \in Renewals, NEW st,
             renewals[r] \in RenewalRow,
             renewals[r].status \in Actionable \/ st \notin Actionable,
             renewals' = [renewals EXCEPT ![r].status = st]
      PROVE  OneActionablePerPeriod'
  <2>1. /\ renewals'[r].status = st
        /\ renewals'[r].priorEnds = renewals[r].priorEnds
    BY <1>2 DEF TypeOK, RenewalRow
  <2>2. \A q \in Renewals : q # r => renewals'[q] = renewals[q]
    BY <1>2 DEF TypeOK
  <2> QED
    BY <1>2, <2>1, <2>2 DEF OneActionablePerPeriod
<1>3. ASSUME NEW t \in Txns, ApplyCommit(t) PROVE OneActionablePerPeriod'
  <2>1. txn[t].renewal \in Renewals
    BY <1>3, TxnCases DEF ApplyCommit, TypeOK, TxnRow, ApplyTxn
  <2>2. renewals[txn[t].renewal] \in RenewalRow
    BY <1>3, <2>1 DEF ApplyCommit, Applicable, TypeOK
  <2> QED
    BY <1>2, <1>3, <2>1, <2>2 DEF ApplyCommit
<1>4. ASSUME NEW r \in Renewals, CancelRenewal(r) PROVE OneActionablePerPeriod'
  <2>1. renewals[r] \in RenewalRow /\ renewals[r].status \in Actionable
    BY <1>4 DEF CancelRenewal, TypeOK
  <2> QED
    BY <1>2, <1>4, <2>1 DEF CancelRenewal
<1>5. ASSUME NEW r \in Renewals, NEW k \in Keys, VoidPayment(r, k)
      PROVE  OneActionablePerPeriod'
  <2>1. renewals[r] \in RenewalRow /\ renewals[r].status \in Actionable
    BY <1>5 DEF VoidPayment, TypeOK
  <2>2. PICK st : renewals' = [renewals EXCEPT ![r].status = st]
    BY <1>5, Zenon DEF VoidPayment
  <2> QED
    BY <1>2, <2>1, <2>2
<1>6. ASSUME NEW r \in Renewals, NEW k \in Keys, NEW a \in Amounts,
             RecordPayment(r, k, a)
      PROVE  OneActionablePerPeriod'
  <2>1. renewals[r] \in RenewalRow /\ renewals[r].status \in Actionable
    BY <1>6 DEF RecordPayment, TypeOK
  <2>2. PICK st : renewals' = [renewals EXCEPT ![r].status = st]
    BY <1>6, Zenon DEF RecordPayment
  <2> QED
    BY <1>2, <2>1, <2>2
<1>7. ASSUME UNCHANGED renewals PROVE OneActionablePerPeriod'
  BY <1>7 DEF OneActionablePerPeriod
<1> QED
  BY <1>1, <1>3, <1>4, <1>5, <1>6, <1>7
  DEF Next, vars, Tick, UpdateSubscription, FinalizeBegin, ApplyBegin, Acquire, Rollback

-----------------------------------------------------------------------------
(* The inductive invariant holds in every reachable state. *)
THEOREM Invariance == Spec => []IInv
<1>1. IInv /\ [Next]_vars => IInv'
  BY TypeStep, LockStep, PeriodStep, OneActionableStep DEF IInv
<1> QED
  BY <1>1, InitInv, PTL DEF Spec

(* No two open renewals for one period of the subscription, however many   *)
(* operators finalize at once: commercial_renewals_one_actionable_period.  *)
THEOREM OneActionable == Spec => []OneActionablePerPeriod
<1>1. IInv => OneActionablePerPeriod
  BY DEF IInv
<1> QED
  BY <1>1, Invariance, PTL

(* Finalize and apply never wait for each other in a cycle, for any number *)
(* of sessions: whoever holds a renewal row holds the subscription row, so *)
(* a session that waits either holds nothing or waits for no one.          *)
THEOREM DeadlockFree == Spec => []NoDeadlock
<1>1. ASSUME TypeOK, LockInv PROVE NoDeadlock
  <2> SUFFICES ASSUME NEW S \in SUBSET Txns, S # {}
               PROVE  \E t \in S : \A u \in S \ {t} : ~WaitsFor(t, u)
    BY DEF NoDeadlock
  <2>1. CASE \E t \in S : SubRow \in txn[t].held
    <3>1. PICK t \in S : SubRow \in txn[t].held
      BY <2>1
    <3>2. \A u \in S \ {t} : txn[u].held = {}
      BY <1>1, <3>1 DEF LockInv
    <3> QED
      BY <3>1, <3>2 DEF WaitsFor
  <2>2. CASE \A t \in S : SubRow \notin txn[t].held
    <3>1. \A u \in S : txn[u].held = {}
      BY <1>1, <2>2 DEF LockInv
    <3> QED
      BY <3>1 DEF WaitsFor
  <2> QED
    BY <2>1, <2>2
<1>2. IInv => NoDeadlock
  BY <1>1 DEF IInv
<1> QED
  BY <1>2, Invariance, PTL

(* finalizeRenewal writes its row against the current subscription, never  *)
(* against an outdated REPEATABLE READ snapshot.                           *)
THEOREM FinalizedCurrent == Spec => FinalizedOnCurrentPeriod
<1> DEFINE A == \A r \in Renewals : renewals[r] = NoRow /\ renewals'[r] # NoRow =>
                  /\ renewals'[r].priorStarts = sub.starts
                  /\ renewals'[r].priorEnds = sub.ends
                  /\ renewals'[r].pkg = sub.pkg
<1>1. ASSUME IInv, [Next]_vars PROVE A
  <2> SUFFICES ASSUME NEW r \in Renewals, renewals[r] = NoRow, renewals'[r] # NoRow
               PROVE  /\ renewals'[r].priorStarts = sub.starts
                      /\ renewals'[r].priorEnds = sub.ends
                      /\ renewals'[r].pkg = sub.pkg
    OBVIOUS
  <2>1. PICK t \in Txns : FinalizeCommit(t)
    <3>1. ASSUME NEW q \in Renewals, NEW st, renewals[q] # NoRow,
                 renewals' = [renewals EXCEPT ![q].status = st]
          PROVE  FALSE
      BY <1>1, <3>1 DEF IInv, TypeOK
    <3>2. ASSUME NEW t \in Txns, ApplyCommit(t) PROVE FALSE
      <4>1. /\ txn[t].renewal \in Renewals
            /\ renewals[txn[t].renewal] # NoRow
        BY <1>1, <3>2, TxnCases
        DEF ApplyCommit, Applicable, IInv, TypeOK, TxnRow, ApplyTxn
      <4> QED
        BY <3>1, <3>2, <4>1 DEF ApplyCommit
    <3>3. ASSUME NEW q \in Renewals, CancelRenewal(q) PROVE FALSE
      BY <3>1, <3>3 DEF CancelRenewal, Actionable
    <3>4. ASSUME NEW q \in Renewals, NEW k \in Keys, VoidPayment(q, k) PROVE FALSE
      <4>1. PICK st : renewals' = [renewals EXCEPT ![q].status = st]
        BY <3>4, Zenon DEF VoidPayment
      <4> QED
        BY <3>1, <3>4, <4>1 DEF VoidPayment, Actionable
    <3>5. ASSUME NEW q \in Renewals, NEW k \in Keys, NEW a \in Amounts,
                 RecordPayment(q, k, a)
          PROVE  FALSE
      <4>1. PICK st : renewals' = [renewals EXCEPT ![q].status = st]
        BY <3>5, Zenon DEF RecordPayment
      <4> QED
        BY <3>1, <3>5, <4>1 DEF RecordPayment, Actionable
    <3> QED
      BY <1>1, <3>2, <3>3, <3>4, <3>5
      DEF Next, vars, Tick, UpdateSubscription, FinalizeBegin, ApplyBegin, Acquire,
          Rollback
  <2>2. PICK q \in Renewals, starts \in Times, ends \in Times, agreed \in Totals :
          /\ renewals[q] = NoRow
          /\ ValidPeriod(txn[t].snap, txn[t].at, starts, ends)
          /\ renewals' = [renewals EXCEPT ![q] =
                             FinalizedRow(txn[t].snap, txn[t].at, starts, ends, agreed)]
    BY <2>1 DEF FinalizeCommit
  <2>3. renewals'[r] = FinalizedRow(txn[t].snap, txn[t].at, starts, ends, agreed)
    BY <1>1, <2>2 DEF IInv, TypeOK
  <2>4. txn[t].snap = sub
    BY <1>1, <2>1 DEF FinalizeCommit, IInv, LockInv
  <2> QED
    BY <2>3, <2>4 DEF FinalizedRow
<1> QED
  BY <1>1, Invariance, PTL DEF Spec, FinalizedOnCurrentPeriod

(* applyRenewal never takes back time the subscription already had, even   *)
(* when operators edited it after the renewal was finalized: the period it *)
(* writes starts at or after the end of the one it replaces.               *)
THEOREM NeverOverlaps == Spec => RenewalNeverOverlaps
<1> DEFINE A == \A r \in Renewals :
                  renewals[r].status # "applied" /\ renewals'[r].status = "applied"
                  => sub.ends # NoEnd /\ sub'.starts >= sub.ends /\ sub'.ends > sub'.starts
<1>1. ASSUME IInv, [Next]_vars PROVE A
  <2> SUFFICES ASSUME NEW r \in Renewals,
                      renewals[r].status # "applied", renewals'[r].status = "applied"
               PROVE  /\ sub.ends # NoEnd
                      /\ sub'.starts >= sub.ends
                      /\ sub'.ends > sub'.starts
    OBVIOUS
  <2>1. PICK t \in Txns : ApplyCommit(t)
    <3>1. ASSUME NEW t \in Txns, FinalizeCommit(t) PROVE FALSE
      <4>1. PICK q \in Renewals, starts \in Times, ends \in Times, agreed \in Totals :
              /\ renewals[q] = NoRow
              /\ ValidPeriod(txn[t].snap, txn[t].at, starts, ends)
              /\ renewals' = [renewals EXCEPT ![q] =
                                 FinalizedRow(txn[t].snap, txn[t].at, starts, ends, agreed)]
        BY <3>1 DEF FinalizeCommit
      <4> QED
        BY <1>1, <4>1 DEF FinalizedRow, IInv, TypeOK
    <3>2. ASSUME NEW q \in Renewals, NEW st, st # "applied", renewals[q] # NoRow,
                 renewals' = [renewals EXCEPT ![q].status = st]
          PROVE  FALSE
      BY <1>1, <3>2 DEF IInv, TypeOK, RenewalRow
    <3>3. ASSUME NEW q \in Renewals, CancelRenewal(q) PROVE FALSE
      BY <3>2, <3>3 DEF CancelRenewal, Actionable
    <3>4. ASSUME NEW q \in Renewals, NEW k \in Keys, VoidPayment(q, k) PROVE FALSE
      <4>1. renewals' = [renewals EXCEPT ![q].status = Settlement(q, payments'[q])]
        BY <3>4 DEF VoidPayment
      <4> QED
        BY <3>2, <3>4, <4>1 DEF VoidPayment, Actionable, Settlement
    <3>5. ASSUME NEW q \in Renewals, NEW k \in Keys, NEW a \in Amounts,
                 RecordPayment(q, k, a)
          PROVE  FALSE
      <4>1. renewals' = [renewals EXCEPT ![q].status = Settlement(q, payments'[q])]
        BY <3>5 DEF RecordPayment
      <4> QED
        BY <3>2, <3>5, <4>1 DEF RecordPayment, Actionable, Settlement
    <3> QED
      BY <1>1, <3>1, <3>3, <3>4, <3>5
      DEF Next, vars, Tick, UpdateSubscription, FinalizeBegin, ApplyBegin, Acquire,
          Rollback
  <2> DEFINE q == txn[t].renewal
  <2>2. q \in Renewals
    BY <1>1, <2>1, TxnCases DEF ApplyCommit, IInv, TypeOK, TxnRow, ApplyTxn
  <2>3. renewals[q] \in RenewalRow
    BY <1>1, <2>1, <2>2 DEF ApplyCommit, Applicable, IInv, TypeOK
  <2>4. /\ sub.ends = renewals[q].priorEnds
        /\ sub'.starts = renewals[q].starts
        /\ sub'.ends = renewals[q].ends
    BY <1>1, <2>1 DEF ApplyCommit, Applicable, SamePeriod, IInv, TypeOK, Subscription
  <2>5. /\ renewals[q].starts >= renewals[q].priorEnds
        /\ renewals[q].ends > renewals[q].starts
    BY <1>1, <2>2, <2>3 DEF IInv, PeriodInv, RenewalRow
  <2> QED
    BY <2>3, <2>4, <2>5, ConstantsAssumption DEF RenewalRow
<1> QED
  BY <1>1, Invariance, PTL DEF Spec, RenewalNeverOverlaps

-----------------------------------------------------------------------------
(* Money.  The payments that count for a renewal.                           *)
Paying(p) == {k \in Keys : p[k].status = "confirmed"}

(* The sum the code computes is the total of the confirmed amounts.         *)
LEMMA ConfirmedIsTotal ==
  ASSUME NEW p, IsFiniteSet(Paying(p)), NEW f, \A k \in Paying(p) : f[k] = p[k].amount
  PROVE  Confirmed(p) = Total(f, Paying(p))
<1> DEFINE Sums(g) == g = [s \in SUBSET Paying(p) |->
                             IF s = {} THEN 0 ELSE p[Picked(s)].amount + g[s \ {Picked(s)}]]
<1>1. Confirmed(p) = (CHOOSE g : Sums(g))[Paying(p)]
  BY DEF Confirmed, MapThenSumSet, MapThenFoldSet, Paying, Picked
<1>2. PICK h : Adds(h, f, Paying(p))
  BY AddsExists
<1>3. \A s \in SUBSET Paying(p) : s # {} => f[Picked(s)] = p[Picked(s)].amount
  BY PickedIsIn
<1>4. Sums(h)
  BY <1>2, <1>3 DEF Adds
<1>5. PICK g : Sums(g) /\ Confirmed(p) = g[Paying(p)]
  BY <1>1, <1>4
<1>6. Adds(g, f, Paying(p))
  BY <1>3, <1>5 DEF Adds
<1> QED
  BY <1>5, <1>6, TotalIs

(* What a payment and a void do to the sum.                                 *)
LEMMA PaymentsAddUp ==
  ASSUME NEW p \in [Keys -> PaymentRow \cup {NoRow}], IsFiniteSet(Paying(p))
  PROVE  /\ Confirmed(p) \in Int
         /\ Paying(p) = {} => Confirmed(p) = 0
         /\ \A k \in Keys \ Paying(p), a \in Amounts :
              LET q == [p EXCEPT ![k] = [status |-> "confirmed", amount |-> a]]
              IN  IsFiniteSet(Paying(q)) /\ Confirmed(q) = Confirmed(p) + a
         /\ \A k \in Paying(p) :
              LET q == [p EXCEPT ![k].status = "void"]
              IN  IsFiniteSet(Paying(q)) /\ Confirmed(q) = Confirmed(p) - p[k].amount
<1> DEFINE f == [k \in Keys |-> p[k].amount]
<1>1. ASSUME NEW k \in Paying(p) PROVE p[k] \in PaymentRow /\ f[k] = p[k].amount /\ f[k] \in Nat
  <2>1. k \in Keys /\ p[k].status = "confirmed"
    BY DEF Paying
  <2>2. p[k] \in PaymentRow /\ f[k] = p[k].amount
    BY <2>1
  <2> QED
    BY <2>2, ConstantsAssumption DEF PaymentRow
<1>2. Weighs(f, Paying(p)) /\ Confirmed(p) = Total(f, Paying(p))
  <2>1. Weighs(f, Paying(p))
    BY <1>1 DEF Weighs
  <2> HIDE DEF f
  <2> QED
    BY <1>1, <2>1, ConfirmedIsTotal
<1>3. Confirmed(p) \in Int
  BY <1>2, TotalTakes
<1>4. Paying(p) = {} => Confirmed(p) = 0
  <2> HIDE DEF f
  <2> QED
    BY <1>2, TotalTakes
<1>5. ASSUME NEW k \in Keys \ Paying(p), NEW a \in Amounts, NEW q,
             q = [p EXCEPT ![k] = [status |-> "confirmed", amount |-> a]]
      PROVE  IsFiniteSet(Paying(q)) /\ Confirmed(q) = Confirmed(p) + a
  <2>1. Paying(q) = Paying(p) \cup {k}
    BY <1>5 DEF Paying
  <2>2. PICK h : h = [x \in Keys |-> q[x].amount]
    OBVIOUS
  <2>3. h[k] = a /\ a \in Int /\ \A x \in Paying(p) : h[x] = f[x]
    BY <1>5, <2>2, ConstantsAssumption DEF Paying
  <2> HIDE DEF f
  <2>4. Weighs(h, Paying(p)) /\ Total(h, Paying(p)) = Confirmed(p)
    BY <1>2, <2>3, TotalSame DEF Weighs
  <2>5. Weighs(h, Paying(q)) /\ Total(h, Paying(q)) = a + Total(h, Paying(p))
    <3>1. k \notin Paying(p) /\ h[k] \in Int
      BY <2>3
    <3>2. Weighs(h, Paying(p) \cup {k}) /\ Total(h, Paying(p) \cup {k}) = h[k] + Total(h, Paying(p))
      BY <2>4, <3>1, TotalAdds
    <3> QED
      BY <2>1, <2>3, <3>2
  <2>6. \A x \in Paying(q) : h[x] = q[x].amount
    BY <2>2 DEF Paying
  <2>7. IsFiniteSet(Paying(q)) /\ Confirmed(q) = Total(h, Paying(q))
    BY <2>5, <2>6, ConfirmedIsTotal DEF Weighs
  <2> QED
    BY <1>3, <2>3, <2>4, <2>5, <2>7
<1>6. ASSUME NEW k \in Paying(p), NEW q, q = [p EXCEPT ![k].status = "void"]
      PROVE  IsFiniteSet(Paying(q)) /\ Confirmed(q) = Confirmed(p) - p[k].amount
  <2>1. k \in Keys /\ p[k] \in PaymentRow
    BY <1>1 DEF Paying
  <2>2. Paying(q) = Paying(p) \ {k} /\ \A x \in Paying(q) : q[x] = p[x]
    BY <1>6, <2>1 DEF Paying, PaymentRow
  <2>3. \A x \in Paying(q) : f[x] = q[x].amount
    BY <1>1, <2>2
  <2>4. Total(f, Paying(p)) = f[k] + Total(f, Paying(q)) /\ Weighs(f, Paying(q))
    <3> HIDE DEF f
    <3>1. Total(f, Paying(p)) = f[k] + Total(f, Paying(q))
      BY <1>2, <2>2, TotalTakes
    <3>2. Weighs(f, Paying(q))
      BY <1>2, <2>2, FS_RemoveElement DEF Weighs
    <3> QED
      BY <3>1, <3>2
  <2>5. f[k] = p[k].amount /\ f[k] \in Int
    BY <1>1
  <2> HIDE DEF f
  <2>6. Total(f, Paying(q)) \in Int /\ Confirmed(q) = Total(f, Paying(q))
    BY <2>3, <2>4, TotalTakes, ConfirmedIsTotal DEF Weighs
  <2> QED
    BY <1>2, <1>3, <2>4, <2>5, <2>6 DEF Weighs
<1> QED
  BY <1>3, <1>4, <1>5, <1>6

(* Only finitely many payments count, and none for a renewal that is not    *)
(* written yet.                                                             *)
MoneyInv ==
  \A r \in Renewals :
    /\ IsFiniteSet(Paying(payments[r]))
    /\ renewals[r] = NoRow => Paying(payments[r]) = {}

(* What SettledExactly says of one renewal row and its payments.            *)
Settled(row, p) ==
  /\ Confirmed(p) <= row.agreed
  /\ row.status \in {"paid", "applied"} => Confirmed(p) = row.agreed
  /\ row.status = "awaiting_payment" => Confirmed(p) < row.agreed

LEMMA MoneyStep ==
  TypeOK /\ MoneyInv /\ SettledExactly /\ [Next]_vars => (MoneyInv /\ SettledExactly)'
<1> SUFFICES ASSUME TypeOK, MoneyInv, SettledExactly, [Next]_vars
             PROVE  MoneyInv' /\ SettledExactly'
  OBVIOUS
<1>1. \A r \in Renewals : renewals[r] # NoRow => Settled(renewals[r], payments[r])
  BY DEF SettledExactly, Settled
<1>2. \A r \in Renewals : Confirmed(payments[r]) \in Int
  BY PaymentsAddUp DEF TypeOK, MoneyInv
<1>3. ASSUME NEW r \in Renewals, NEW row, row # NoRow, NEW p,
             renewals' = [renewals EXCEPT ![r] = row],
             payments' = [payments EXCEPT ![r] = p],
             IsFiniteSet(Paying(p)), Settled(row, p)
      PROVE  MoneyInv' /\ SettledExactly'
  <2>1. renewals'[r] = row /\ payments'[r] = p
    BY <1>3 DEF TypeOK
  <2>2. \A q \in Renewals : q # r => renewals'[q] = renewals[q] /\ payments'[q] = payments[q]
    BY <1>3 DEF TypeOK
  <2>3. MoneyInv'
    BY <1>3, <2>1, <2>2 DEF MoneyInv
  <2>4. \A q \in Renewals : renewals'[q] # NoRow => Settled(renewals'[q], payments'[q])
    BY <1>1, <1>3, <2>1, <2>2
  <2>5. SettledExactly'
    BY <2>4 DEF SettledExactly, Settled
  <2> QED
    BY <2>3, <2>5
(* A renewal whose payments stay.                                           *)
<1>4. ASSUME NEW r \in Renewals, NEW row, row # NoRow,
             renewals' = [renewals EXCEPT ![r] = row], payments' = payments,
             Settled(row, payments[r])
      PROVE  MoneyInv' /\ SettledExactly'
  <2>1. payments' = [payments EXCEPT ![r] = payments[r]] /\ IsFiniteSet(Paying(payments[r]))
    BY <1>4 DEF TypeOK, MoneyInv
  <2> QED
    BY <1>3, <1>4, <2>1
<1>5. ASSUME NEW t \in Txns, FinalizeCommit(t) PROVE MoneyInv' /\ SettledExactly'
  <2>1. PICK r \in Renewals, starts \in Times, ends \in Times, agreed \in Totals :
          /\ renewals[r] = NoRow
          /\ ValidPeriod(txn[t].snap, txn[t].at, starts, ends)
          /\ renewals' = [renewals EXCEPT ![r] =
                             FinalizedRow(txn[t].snap, txn[t].at, starts, ends, agreed)]
    BY <1>5 DEF FinalizeCommit
  <2>2. PICK row : row = FinalizedRow(txn[t].snap, txn[t].at, starts, ends, agreed)
    OBVIOUS
  <2>3. row.agreed = agreed /\ row.status = IF agreed = 0 THEN "paid" ELSE "awaiting_payment"
    BY <2>2 DEF FinalizedRow
  <2>4. Confirmed(payments[r]) = 0 /\ agreed \in Nat
    BY <2>1, PaymentsAddUp, ConstantsAssumption DEF MoneyInv, TypeOK
  <2>5. Settled(row, payments[r]) /\ row # NoRow
    BY <2>3, <2>4 DEF Settled
  <2> QED
    BY <1>4, <1>5, <2>1, <2>2, <2>5 DEF FinalizeCommit
<1>6. ASSUME NEW t \in Txns, ApplyCommit(t) PROVE MoneyInv' /\ SettledExactly'
  <2>1. PICK r \in Renewals : r = txn[t].renewal
    BY <1>6, TxnCases DEF ApplyCommit, TypeOK, TxnRow, ApplyTxn
  <2>2. renewals[r] \in RenewalRow /\ renewals[r].agreed \in Nat
    BY <1>6, <2>1, ConstantsAssumption DEF ApplyCommit, Applicable, TypeOK, RenewalRow
  <2>3. PICK row : row = [renewals[r] EXCEPT !.status = "applied"]
    OBVIOUS
  <2>4. row.status = "applied" /\ row.agreed = renewals[r].agreed /\ row # NoRow
    BY <2>2, <2>3 DEF RenewalRow
  <2>5. Settled(row, payments[r])
    BY <1>6, <2>1, <2>2, <2>4 DEF ApplyCommit, Applicable, Settled
  <2>6. renewals' = [renewals EXCEPT ![r] = row] /\ payments' = payments
    BY <1>6, <2>1, <2>3 DEF ApplyCommit
  <2> QED
    BY <1>4, <2>4, <2>5, <2>6
<1>7. ASSUME NEW r \in Renewals, CancelRenewal(r) PROVE MoneyInv' /\ SettledExactly'
  <2>1. renewals[r] \in RenewalRow
    BY <1>7 DEF CancelRenewal, Actionable, TypeOK
  <2>2. PICK row : row = [renewals[r] EXCEPT !.status = "cancelled"]
    OBVIOUS
  <2>3. row.status = "cancelled" /\ row.agreed = renewals[r].agreed /\ row # NoRow
    BY <2>1, <2>2 DEF RenewalRow
  <2>4. Settled(row, payments[r])
    BY <1>1, <2>1, <2>3 DEF Settled, RenewalRow
  <2>5. renewals' = [renewals EXCEPT ![r] = row] /\ payments' = payments
    BY <1>7, <2>2 DEF CancelRenewal
  <2> QED
    BY <1>4, <2>3, <2>4, <2>5
(* A payment and a void end by settling the renewal.                        *)
<1>8. ASSUME NEW r \in Renewals, renewals[r] \in RenewalRow, NEW p,
             payments' = [payments EXCEPT ![r] = p],
             renewals' = [renewals EXCEPT ![r].status = Settlement(r, payments'[r])],
             IsFiniteSet(Paying(p)), Confirmed(p) \in Int, Confirmed(p) <= renewals[r].agreed
      PROVE  MoneyInv' /\ SettledExactly'
  <2>1. payments'[r] = p
    BY <1>8 DEF TypeOK
  <2>2. PICK row : row = [renewals[r] EXCEPT !.status = Settlement(r, p)]
    OBVIOUS
  <2>3. row.status = Settlement(r, p) /\ row.agreed = renewals[r].agreed
    BY <1>8, <2>2 DEF RenewalRow
  <2>4. Settlement(r, p) \in {"paid", "awaiting_payment"}
        /\ (Settlement(r, p) = "paid" <=> Confirmed(p) = renewals[r].agreed)
    BY DEF Settlement
  <2>5. row # NoRow
    BY <2>3, <2>4
  <2>6. renewals[r].agreed \in Nat
    BY <1>8, ConstantsAssumption DEF RenewalRow
  <2>7. Settled(row, p)
    BY <1>8, <2>3, <2>4, <2>6 DEF Settled
  <2>8. renewals' = [renewals EXCEPT ![r] = row]
    BY <1>8, <2>1, <2>2
  <2> QED
    BY <1>3, <1>8, <2>5, <2>7, <2>8
<1>9. ASSUME NEW r \in Renewals, NEW k \in Keys, VoidPayment(r, k) PROVE MoneyInv' /\ SettledExactly'
  <2>1. renewals[r] \in RenewalRow /\ k \in Paying(payments[r])
    BY <1>9 DEF VoidPayment, Actionable, TypeOK, Paying
  <2>2. PICK p : p = [payments[r] EXCEPT ![k].status = "void"]
    OBVIOUS
  <2>3. IsFiniteSet(Paying(p)) /\ Confirmed(p) = Confirmed(payments[r]) - payments[r][k].amount
    BY <2>1, <2>2, PaymentsAddUp DEF TypeOK, MoneyInv
  <2>4. payments[r][k].amount \in Nat /\ renewals[r].agreed \in Nat
    <3>1. payments[r][k] \in PaymentRow
      BY <2>1 DEF TypeOK, Paying
    <3> QED
      BY <2>1, <3>1, ConstantsAssumption DEF PaymentRow, RenewalRow
  <2>5. Confirmed(p) \in Int /\ Confirmed(p) <= renewals[r].agreed
    BY <1>1, <1>2, <2>1, <2>3, <2>4 DEF Settled, RenewalRow
  <2>6. payments' = [payments EXCEPT ![r] = p]
    BY <1>9, <2>2 DEF VoidPayment
  <2> QED
    BY <1>8, <1>9, <2>1, <2>3, <2>5, <2>6 DEF VoidPayment
<1>10. ASSUME NEW r \in Renewals, NEW k \in Keys, NEW a \in Amounts, RecordPayment(r, k, a)
       PROVE  MoneyInv' /\ SettledExactly'
  <2>1. renewals[r] \in RenewalRow /\ k \in Keys \ Paying(payments[r])
    BY <1>10 DEF RecordPayment, Actionable, TypeOK, Paying
  <2>2. PICK p : p = [payments[r] EXCEPT ![k] = [status |-> "confirmed", amount |-> a]]
    OBVIOUS
  <2>3. IsFiniteSet(Paying(p)) /\ Confirmed(p) = Confirmed(payments[r]) + a
    BY <2>1, <2>2, PaymentsAddUp DEF TypeOK, MoneyInv
  <2>4. Confirmed(p) \in Int /\ Confirmed(p) <= renewals[r].agreed
    BY <1>2, <1>10, <2>3, ConstantsAssumption DEF RecordPayment
  <2>5. payments' = [payments EXCEPT ![r] = p]
    BY <1>10, <2>2 DEF RecordPayment
  <2> QED
    BY <1>8, <1>10, <2>1, <2>3, <2>4, <2>5 DEF RecordPayment
<1>11. ASSUME UNCHANGED <<renewals, payments>> PROVE MoneyInv' /\ SettledExactly'
  BY <1>11 DEF MoneyInv, SettledExactly
<1> QED
  BY <1>5, <1>6, <1>7, <1>9, <1>10, <1>11
  DEF Next, vars, Tick, UpdateSubscription, FinalizeBegin, ApplyBegin, Acquire, Rollback

(* A renewal is paid or applied exactly when its confirmed payments equal   *)
(* what was agreed, for any number of payments, voids and retries.          *)
THEOREM Settles == Spec => []SettledExactly
<1>1. Init => MoneyInv /\ SettledExactly
  <2> SUFFICES ASSUME Init PROVE MoneyInv /\ SettledExactly
    OBVIOUS
  <2>1. \A r \in Renewals : Paying(payments[r]) = {} /\ renewals[r] = NoRow
    BY DEF Init, Paying
  <2> QED
    BY <2>1, FS_EmptySet DEF MoneyInv, SettledExactly
<1> QED
  BY <1>1, MoneyStep, TypeCorrect, PTL DEF Spec

HIDE DEF Times, NoEnd, NoRow, NoCommand, SubRow, Locks
=============================================================================
