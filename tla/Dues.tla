--------------------------------- MODULE Dues ---------------------------------
(***************************************************************************)
(* Customer Dues: an append-only register of charges, payments and         *)
(* adjustments in the branches of an organization, and of reversals of     *)
(* them.  What a customer owes is never stored; it is summed from the      *)
(* entries of all branches each time it is needed.                         *)
(***************************************************************************)
EXTENDS Commands, Tenant, FiniteSetsExt

CONSTANTS
  Customers,
  DueAmounts,   \* in minor units
  LegacyDues    \* entries imported before the register was opened

DueKinds == {"charge", "payment", "adjustment_increase", "adjustment_decrease"}

(* Entries.  An imported entry has an id that is nobody's key.              *)
PostCmd == [op : {"post"}, key : Keys, kind : DueKinds, branch : Branches,
            customer : Customers, amount : DueAmounts]
Posting(id, c) == [id |-> id, kind |-> c.kind, branch |-> c.branch,
                   customer |-> c.customer, amount |-> c.amount, reverses |-> {}]
Reversal(id, e) == [id |-> id, kind |-> "reversal", branch |-> e.branch,
                    customer |-> e.customer, amount |-> e.amount, reverses |-> {e}]

Postings == {Posting(c.key, c) : c \in PostCmd} \cup LegacyDues
DueEntry == Postings \cup {Reversal(k, e) : k \in Keys, e \in Postings}
ReverseDueCmd == [op : {"reverse"}, key : Keys, branch : Branches, target : DueEntry]

ASSUME DuesAssumption ==
  /\ DueAmounts \subseteq Nat \ {0} /\ IsFiniteSet(LegacyDues)
  /\ \A e \in LegacyDues :
       /\ e = Posting(e.id, e) /\ e.id \notin Keys
       /\ e.kind \in {"charge", "payment"} /\ e.amount \in Nat \ {0}
       /\ e.branch \in Branches /\ e.customer \in Customers
       /\ \A f \in LegacyDues : f.id = e.id => f = e

VARIABLES
  dues,    \* customer_due_entries
  dueTxn   \* the sessions

duesVars == <<dues, dueTxn>>

DuesTypeOK ==
  /\ dues \subseteq DueEntry
  /\ \A t \in Txns : dueTxn[t] = NotInTxn \/ dueTxn[t].cmd \in PostCmd \cup ReverseDueCmd

DuesInit == dues = LegacyDues /\ dueTxn = AllIdle

-----------------------------------------------------------------------------
Sign(kind) == IF kind \in {"charge", "adjustment_increase"} THEN 1 ELSE -1

(* signed_effect_minor: a reversal has the opposite effect of its target.   *)
Effect(e) ==
  IF e.reverses = {} THEN Sign(e.kind) * e.amount
  ELSE -Sign((CHOOSE f \in e.reverses : TRUE).kind) * e.amount

Owed(c) == MapThenSumSet(Effect, {e \in dues : e.customer = c})

Reversed(e) == \E r \in dues : r.reverses = {e}

-----------------------------------------------------------------------------
(* Locks, in the order in which a command takes them.                       *)

DueKey(k) == <<1, k>>
DueRow(e) == <<2, e.id>>
DueCustomer(c) == <<3, c>>

(* Mutant: a posting takes no lock on its idempotency key.                  *)
DueLocksWithoutKey(c) ==
  CASE c.op = "post"    -> {DueCustomer(c.customer)}
    [] c.op = "reverse" -> {DueKey(c.key), DueRow(c.target), DueCustomer(c.target.customer)}
    [] OTHER            -> {}

DueLocks(c) ==
  CASE c.op = "post"    -> {DueKey(c.key), DueCustomer(c.customer)}
    [] c.op = "reverse" -> {DueKey(c.key), DueRow(c.target), DueCustomer(c.target.customer)}
    [] OTHER            -> {}

DueWants(t) ==
  LET missing == DueLocks(dueTxn[t].cmd) \ dueTxn[t].held
  IN  {l \in missing : \A m \in missing : l[1] <= m[1]}

UnusedDueKey(k) == \A e \in dues : e.id # k

(* Mutant: the balance is read before the customer is locked.               *)
CoveredUnlocked(c, l) ==
  CASE l[1] = 1 -> UnusedDueKey(c.key) /\ (c.op = "post" /\ c.kind = "payment"
                                            => c.amount <= Owed(c.customer))
    [] l[1] = 2 -> c.target.reverses = {} /\ c.target.branch = c.branch
    [] l[1] = 3 -> c.op = "reverse" => ~Reversed(c.target)

(* What a command must find when it gets a lock.  A key that is in use      *)
(* answers the stored entry or a conflict, and ends the command.            *)
DueAdmits(c, l) ==
  CASE l[1] = 1 -> UnusedDueKey(c.key)
    [] l[1] = 2 -> c.target.reverses = {} /\ c.target.branch = c.branch
    [] l[1] = 3 -> IF c.op = "reverse" THEN ~Reversed(c.target)
                   ELSE c.kind = "payment" => c.amount <= Owed(c.customer)

-----------------------------------------------------------------------------
(* Steps of a command.                                                      *)

DueBegin(t, c) ==
  /\ dueTxn[t] = NotInTxn
  /\ dueTxn' = Begun(dueTxn, t, c)
  /\ UNCHANGED dues

DueLock(t) ==
  /\ \E l \in DueWants(t) :
       /\ Free(dueTxn, l)
       /\ DueAdmits(dueTxn[t].cmd, l)
       /\ dueTxn' = Locked(dueTxn, t, l)
  /\ UNCHANGED dues

(* A refusal, the replay of the stored entry, or a lost connection.         *)
DueAbort(t) ==
  /\ dueTxn[t] # NotInTxn
  /\ dueTxn' = Ended(dueTxn, t)
  /\ UNCHANGED dues

DueReady(t, op) == dueTxn[t].cmd.op = op /\ DueWants(t) = {}

PostCommit(t) ==
  LET c == dueTxn[t].cmd IN
  /\ DueReady(t, "post")
  /\ dues' = dues \cup {Posting(c.key, c)}
  /\ dueTxn' = Ended(dueTxn, t)

ReverseCommit(t) ==
  LET c == dueTxn[t].cmd IN
  /\ DueReady(t, "reverse")
  /\ dues' = dues \cup {Reversal(c.key, c.target)}
  /\ dueTxn' = Ended(dueTxn, t)

DuesNext ==
  \E t \in Txns :
    \/ \E c \in PostCmd : DueBegin(t, c)
    \/ \E k \in Keys, b \in Branches, e \in dues :
         DueBegin(t, [op |-> "reverse", key |-> k, branch |-> b, target |-> e])
    \/ DueLock(t) \/ DueAbort(t) \/ PostCommit(t) \/ ReverseCommit(t)

DuesSpec == DuesInit /\ [][DuesNext]_duesVars

-----------------------------------------------------------------------------
(* Properties.                                                              *)

(* Two calls with one idempotency key, however they interleave, never book  *)
(* two entries: a command that got its locks finds no entry of its key, so  *)
(* the retry of a call that is still running waits for it and answers with  *)
(* its entry.                                                               *)
DueRetriesAgree ==
  \A t \in Txns : DueReady(t, "post") \/ DueReady(t, "reverse") =>
    UnusedDueKey(dueTxn[t].cmd.key)

(* The register keeps the promises of DuesLedger for what is owed in the    *)
(* whole organization: payments taken at the same time in several branches  *)
(* do not exceed it together, and an entry is cancelled once.               *)
Booked(e) == [id |-> e.id, customer |-> e.customer, effect |-> Effect(e),
              payment |-> e.kind = "payment"]
Register == INSTANCE DuesLedger WITH
  Ids <- Keys,
  Entries <- {Booked(e) : e \in Postings},
  owed <- [c \in Customers |-> Owed(c)],
  standing <- {Booked(e) : e \in {f \in dues : f.reverses = {} /\ ~Reversed(f)}},
  used <- {e.id : e \in dues}
DuesLedgerSpec == Register!Spec
=============================================================================
