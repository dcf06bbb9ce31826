------------------------------- MODULE Renewal -------------------------------
(***************************************************************************)
(* The renewal aggregate of one subscription: operators finalize a renewal *)
(* of the current period, record and void manual payments against it,      *)
(* apply it to the subscription or cancel it, while other operators edit   *)
(* the subscription itself.                                                *)
(*                                                                         *)
(* Every command is one PostgreSQL transaction.  The two that take more    *)
(* than one row lock, finalize (REPEATABLE READ) and apply (READ           *)
(* COMMITTED), run in several steps: begin, one step per lock, and a last  *)
(* step that does every write and commits.  The commands that lock only    *)
(* the renewal row first and do everything under it (record, void,         *)
(* cancel), and the single upsert of a subscription edit, are one step     *)
(* each, taken while nobody else holds the row.                            *)
(***************************************************************************)
EXTENDS Commands, FiniteSetsExt, Entitlements

CONSTANTS
  Renewals,          \* ids of commercial_renewals rows
  Packages,          \* plan, add-on keys and billing cycle, as one value
  RenewablePackages, \* packages that are priced by a cycle, not empty and active
  Totals,            \* agreed totals, in minor units
  Amounts,           \* payment amounts, in minor units
  OperatorEdits,     \* subscription rows an operator may write by hand
  MaxTime,           \* the clock stops here
  MaxWait            \* how stale a command's own clock reading can be

Times == 0 .. MaxTime
SubStatuses == {"active", "trialing", "suspended", "cancelled", "inactive"}
Live == {"active", "trialing"}
Actionable == {"awaiting_payment", "paid"}

Subscription == [status : SubStatuses, starts : Times,
                 ends : Times \cup {NoEnd}, pkg : Packages]

ASSUME ConstantsAssumption ==
  /\ RenewablePackages \subseteq Packages
  /\ MaxTime \in Nat /\ MaxWait \in Nat
  /\ Totals \subseteq Nat
  /\ Amounts \subseteq Nat \ {0}
  /\ OperatorEdits \subseteq Subscription
  /\ \A e \in OperatorEdits : e.ends # NoEnd => e.starts < e.ends
  /\ "subscription" \notin Renewals

VARIABLES
  now,       \* wall clock
  sub,       \* the subscriptions row
  renewals,  \* commercial_renewals
  payments,  \* manual_renewal_payments, by renewal and idempotency key
  txn        \* what each session is doing, and the row locks it holds

vars == <<now, sub, renewals, payments, txn>>

-----------------------------------------------------------------------------
(* Rows and sessions.                                                      *)

NoRow == [status |-> "none"]
RenewalRow == [status : {"awaiting_payment", "paid", "applied", "cancelled"},
               kind : {"continuous", "reactivation"}, agreed : Totals,
               priorStarts : Times, priorEnds : Times,
               starts : Times, ends : Times, pkg : Packages]
PaymentRow == [status : {"confirmed", "void"}, amount : Amounts]

SubRow == "subscription"             \* the lock on the subscriptions row
Locks == {SubRow} \cup Renewals

NoCommand == [op |-> "idle", held |-> {}]
FinalizeTxn == [op : {"finalize"}, held : SUBSET Locks, at : Times,
                snap : Subscription, seen : SUBSET Renewals, stale : BOOLEAN]
ApplyTxn == [op : {"apply"}, held : SUBSET Locks, at : Times, renewal : Renewals]

TypeOK ==
  /\ now \in Times
  /\ sub \in Subscription
  /\ renewals \in [Renewals -> RenewalRow \cup {NoRow}]
  /\ payments \in [Renewals -> [Keys -> PaymentRow \cup {NoRow}]]
  /\ txn \in [Txns -> FinalizeTxn \cup ApplyTxn \cup {NoCommand}]

Unlocked(l) == \A t \in Txns : l \notin txn[t].held

(* SUM(amount_minor) FILTER (WHERE status = 'confirmed') *)
Confirmed(p) == MapThenSumSet(LAMBDA k : p[k].amount,
                              {k \in Keys : p[k].status = "confirmed"})

ActionableFor(periodEnd) ==
  {r \in Renewals : /\ renewals[r].status \in Actionable
                    /\ renewals[r].priorEnds = periodEnd}

(* A command reads the clock before it gets a connection and locks rows. *)
Recent == {at \in Times : at <= now /\ now <= at + MaxWait}

(* Every open REPEATABLE READ snapshot is older than a row written now. *)
Outdated(tx) == [t \in Txns |-> IF tx[t].op = "finalize"
                                THEN [tx[t] EXCEPT !.stale = TRUE] ELSE tx[t]]

Done(t) == [txn EXCEPT ![t] = NoCommand]

Init ==
  /\ now = 0
  /\ sub \in {s \in OperatorEdits : s.status \in Live}
  /\ renewals = [r \in Renewals |-> NoRow]
  /\ payments = [r \in Renewals |-> [k \in Keys |-> NoRow]]
  /\ txn = [t \in Txns |-> NoCommand]

-----------------------------------------------------------------------------
(* Locks.  Finalize locks the subscription, then the actionable renewals   *)
(* its snapshot shows; apply locks the subscription, then its renewal.     *)

(* Mutant: apply locks its renewal before the subscription.                *)
WantsRenewalFirst(t) ==
  CASE txn[t].op = "finalize" -> IF SubRow \notin txn[t].held THEN {SubRow}
                                 ELSE txn[t].seen \ txn[t].held
    [] txn[t].op = "apply"    -> IF txn[t].renewal \notin txn[t].held
                                 THEN {txn[t].renewal} ELSE {SubRow} \ txn[t].held
    [] OTHER                  -> {}

Wants(t) ==
  CASE txn[t].op = "finalize" -> IF SubRow \notin txn[t].held THEN {SubRow}
                                 ELSE txn[t].seen \ txn[t].held
    [] txn[t].op = "apply"    -> IF SubRow \notin txn[t].held THEN {SubRow}
                                 ELSE {txn[t].renewal} \ txn[t].held
    [] OTHER                  -> {}

(* FOR UPDATE on a row that changed after a REPEATABLE READ snapshot fails *)
(* with SQLSTATE 40001 as soon as the lock could be granted.               *)
(* Mutant: finalize runs without REPEATABLE READ's conflict check.         *)
NeverConflicts(t) == FALSE

Conflicts(t) == txn[t].op = "finalize" /\ txn[t].stale /\ SubRow \notin txn[t].held

Acquire(t) ==
  \E l \in Wants(t) :
    /\ Unlocked(l)
    /\ ~Conflicts(t)
    /\ txn' = [txn EXCEPT ![t].held = @ \cup {l}]
    /\ UNCHANGED <<now, sub, renewals, payments>>

-----------------------------------------------------------------------------
(* finalizeRenewal *)

FinalizeBegin(t) ==
  /\ txn[t] = NoCommand
  /\ \E at \in Recent :
       txn' = [txn EXCEPT ![t] = [op |-> "finalize", held |-> {}, at |-> at,
                                  snap |-> sub, seen |-> ActionableFor(sub.ends),
                                  stale |-> FALSE]]
  /\ UNCHANGED <<now, sub, renewals, payments>>

Kind(s, at) == IF s.ends > at THEN "continuous" ELSE "reactivation"

(* A package renews that has a billing cycle, is not empty and of which     *)
(* every offer is active.                                                  *)
PackageRenews(s) == s.pkg \in RenewablePackages

Renewable(s) ==
  /\ s.status \in Live
  /\ s.ends # NoEnd
  /\ s.ends > s.starts
  /\ PackageRenews(s)

ValidPeriod(s, at, starts, ends) ==
  /\ Kind(s, at) = "continuous" => starts = s.ends
  /\ Kind(s, at) = "reactivation" => starts >= at
  /\ ends > starts

(* The row it inserts; a complimentary renewal is paid at once. *)
FinalizedRow(s, at, starts, ends, agreed) ==
  [status |-> IF agreed = 0 THEN "paid" ELSE "awaiting_payment",
   kind |-> Kind(s, at), agreed |-> agreed,
   priorStarts |-> s.starts, priorEnds |-> s.ends,
   starts |-> starts, ends |-> ends, pkg |-> s.pkg]

(* The unique index commercial_renewals_one_actionable_period. *)
IndexAdmits(periodEnd) == ActionableFor(periodEnd) = {}

FinalizeCommit(t) ==
  /\ txn[t].op = "finalize"
  /\ SubRow \in txn[t].held
  /\ txn[t].seen = {}
  /\ Renewable(txn[t].snap)
  /\ IndexAdmits(txn[t].snap.ends)
  /\ \E r \in Renewals, starts \in Times, ends \in Times, agreed \in Totals :
       /\ renewals[r] = NoRow
       /\ ValidPeriod(txn[t].snap, txn[t].at, starts, ends)
       /\ renewals' = [renewals EXCEPT ![r] =
                          FinalizedRow(txn[t].snap, txn[t].at, starts, ends, agreed)]
  /\ txn' = Done(t)
  /\ UNCHANGED <<now, sub, payments>>

-----------------------------------------------------------------------------
(* recordPayment, voidPayment, cancelRenewal: one lock, the renewal row.   *)

Settlement(r, p) == IF Confirmed(p) = renewals[r].agreed
                    THEN "paid" ELSE "awaiting_payment"

(* A known key is a retry: it returns the renewal and writes nothing. *)
RecordPayment(r, k, amount) ==
  /\ Unlocked(r)
  /\ renewals[r].status \in Actionable
  /\ payments[r][k] = NoRow
  /\ renewals[r].agreed # 0
  /\ Confirmed(payments[r]) + amount <= renewals[r].agreed
  /\ payments' = [payments EXCEPT ![r][k] = [status |-> "confirmed", amount |-> amount]]
  /\ renewals' = [renewals EXCEPT ![r].status = Settlement(r, payments'[r])]
  /\ UNCHANGED <<now, sub, txn>>

(* Mutant: a void leaves the renewal's status as it was.                   *)
VoidKeepsStatus(r, k) ==
  /\ Unlocked(r)
  /\ renewals[r].status \in Actionable
  /\ payments[r][k].status = "confirmed"
  /\ payments' = [payments EXCEPT ![r][k].status = "void"]
  /\ UNCHANGED <<now, sub, renewals, txn>>

VoidPayment(r, k) ==
  /\ Unlocked(r)
  /\ renewals[r].status \in Actionable
  /\ payments[r][k].status = "confirmed"
  /\ payments' = [payments EXCEPT ![r][k].status = "void"]
  /\ renewals' = [renewals EXCEPT ![r].status = Settlement(r, payments'[r])]
  /\ UNCHANGED <<now, sub, txn>>

(* Cancelling a cancelled renewal returns it; an applied one is terminal.  *)
CancelRenewal(r) ==
  /\ Unlocked(r)
  /\ renewals[r].status \in Actionable
  /\ renewals' = [renewals EXCEPT ![r].status = "cancelled"]
  /\ UNCHANGED <<now, sub, payments, txn>>

-----------------------------------------------------------------------------
(* applyRenewal *)

ApplyBegin(t) ==
  /\ txn[t] = NoCommand
  /\ \E at \in Recent, r \in Renewals :
       /\ renewals[r] # NoRow
       /\ txn' = [txn EXCEPT ![t] = [op |-> "apply", held |-> {}, at |-> at, renewal |-> r]]
  /\ UNCHANGED <<now, sub, renewals, payments>>

(* Mutant: only the start of the prior period is compared.                 *)
SameStart(r) == sub.starts = renewals[r].priorStarts

SamePeriod(r) == sub.starts = renewals[r].priorStarts /\ sub.ends = renewals[r].priorEnds

Applicable(r, at) ==
  /\ renewals[r].status = "paid"
  /\ Confirmed(payments[r]) = renewals[r].agreed
  /\ renewals[r].ends > at
  /\ sub.status \in Live
  /\ SamePeriod(r)
  /\ sub.pkg = renewals[r].pkg
  /\ PackageRenews(sub)

ApplyCommit(t) ==
  /\ txn[t].op = "apply"
  /\ {SubRow, txn[t].renewal} \subseteq txn[t].held
  /\ LET r == txn[t].renewal IN
       /\ Applicable(r, txn[t].at)
       /\ sub' = [sub EXCEPT !.status = "active", !.starts = renewals[r].starts,
                             !.ends = renewals[r].ends]
       /\ renewals' = [renewals EXCEPT ![r].status = "applied"]
  /\ txn' = Outdated(Done(t))
  /\ UNCHANGED <<now, payments>>

-----------------------------------------------------------------------------
(* Every other way a finalize or an apply can end: an early return or a    *)
(* refusal once its locks are granted, or a lost connection at any time.   *)

Refused(t) ==
  \/ Conflicts(t) /\ Unlocked(SubRow)
  \/ txn[t].op = "finalize" /\ SubRow \in txn[t].held /\ Wants(t) = {}
  \/ /\ txn[t].op = "apply" /\ SubRow \in txn[t].held /\ Wants(t) = {}
     /\ ~Applicable(txn[t].renewal, txn[t].at)

Rollback(t) ==
  /\ txn[t] # NoCommand
  /\ txn' = Done(t)
  /\ UNCHANGED <<now, sub, renewals, payments>>

Refuse(t) == Refused(t) /\ Rollback(t)

-----------------------------------------------------------------------------
(* updateSubscription: an upsert that waits for the row, and the clock.    *)

UpdateSubscription(row) ==
  /\ Unlocked(SubRow)
  /\ sub' = row
  /\ txn' = Outdated(txn)
  /\ UNCHANGED <<now, renewals, payments>>

Tick ==
  /\ now < MaxTime
  /\ now' = now + 1
  /\ UNCHANGED <<sub, renewals, payments, txn>>

Next ==
  \/ Tick
  \/ \E row \in OperatorEdits : UpdateSubscription(row)
  \/ \E t \in Txns : \/ FinalizeBegin(t) \/ FinalizeCommit(t)
                     \/ ApplyBegin(t) \/ ApplyCommit(t)
                     \/ Acquire(t) \/ Rollback(t)
  \/ \E r \in Renewals :
       \/ CancelRenewal(r)
       \/ \E k \in Keys : VoidPayment(r, k)
       \/ \E k \in Keys, amount \in Amounts : RecordPayment(r, k, amount)

Spec == Init /\ [][Next]_vars

(* PostgreSQL grants a row lock in queue order, so a waiter that is passed *)
(* over is granted in the end, and a session that holds its locks runs its *)
(* remaining statements: each session is strongly fair.                    *)
Step(t) == Acquire(t) \/ FinalizeCommit(t) \/ ApplyCommit(t) \/ Refuse(t)
FairSpec == Spec /\ \A t \in Txns : SF_vars(Step(t))

-----------------------------------------------------------------------------
(* Properties.                                                             *)

(* Two finalizations that began before either committed do not both leave  *)
(* an open renewal for one period, although neither snapshot shows the     *)
(* other's row.                                                            *)
OneActionablePerPeriod ==
  \A r, q \in Renewals :
    /\ r # q
    /\ renewals[r].status \in Actionable
    /\ renewals[q].status \in Actionable
    => renewals[r].priorEnds # renewals[q].priorEnds

(* A renewal is paid or applied exactly when its confirmed payments equal  *)
(* the agreed total, whatever was recorded, retried and voided, and they   *)
(* never exceed it.                                                        *)
SettledExactly ==
  \A r \in Renewals : renewals[r] # NoRow =>
    /\ Confirmed(payments[r]) <= renewals[r].agreed
    /\ renewals[r].status \in {"paid", "applied"}
         => Confirmed(payments[r]) = renewals[r].agreed
    /\ renewals[r].status = "awaiting_payment"
         => Confirmed(payments[r]) < renewals[r].agreed

(* A renewal is written against the subscription as it stands when the     *)
(* renewal commits, not as an older snapshot showed it.                    *)
FinalizedOnCurrentPeriod ==
  [][\A r \in Renewals : renewals[r] = NoRow /\ renewals'[r] # NoRow =>
       /\ renewals'[r].priorStarts = sub.starts
       /\ renewals'[r].priorEnds = sub.ends
       /\ renewals'[r].pkg = sub.pkg]_vars

(* Applying a renewal never takes back time the subscription already had:  *)
(* the new period starts no earlier than the current one ends, even when   *)
(* an operator edited the subscription after the renewal was finalized.    *)
RenewalNeverOverlaps ==
  [][\A r \in Renewals :
       renewals[r].status # "applied" /\ renewals'[r].status = "applied"
       => sub.ends # NoEnd /\ sub'.starts >= sub.ends /\ sub'.ends > sub'.starts]_vars

WaitsFor(t, u) == Wants(t) \cap txn[u].held # {}

(* Finalize and apply on one subscription cannot deadlock: no set of       *)
(* sessions has all its members waiting for each other's locks.            *)
NoDeadlock ==
  \A S \in SUBSET Txns : S # {} =>
    \E t \in S : \A u \in S \ {t} : ~WaitsFor(t, u)

(* Every finalize and apply that got a connection ends.                    *)
CommandsFinish == \A t \in Txns : txn[t] # NoCommand ~> txn[t] = NoCommand

(* A customer with access keeps it through the application of a renewal    *)
(* that continues the current period.                                      *)
ContinuousRenewalPreservesAccess ==
  [][\A r \in Renewals :
       /\ renewals[r].status = "paid" /\ renewals'[r].status = "applied"
       /\ renewals[r].kind = "continuous"
       /\ GivesAccess(sub, now)
       => GivesAccess(sub', now')]_vars
=============================================================================
