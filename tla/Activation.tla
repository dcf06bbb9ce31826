------------------------------ MODULE Activation ------------------------------
(***************************************************************************)
(* From a request on the public site to a running organization: a visitor  *)
(* submits a quote, operators review the request, finalize an agreement,   *)
(* record payments and issue a one-time invitation, whose holder creates   *)
(* the organization and its owner.                                         *)
(***************************************************************************)
EXTENDS Commands, Sequences, SequencesExt, FiniteSetsExt

CONSTANTS
  Requests,         \* access requests, as their visitors submit them
  PhoneOf,          \* the normalized phone of each
  AgreedTotals, PaidAmounts,  \* agreed totals and payments, in minor units
  MaxPrices,        \* times the price list changes
  MaxInvitations    \* invitations of an agreement

ASSUME ActivationAssumption ==
  /\ AgreedTotals \subseteq Nat /\ PaidAmounts \subseteq Nat \ {0}
  /\ MaxPrices \in Nat /\ MaxInvitations \in Nat

Phones == {PhoneOf[r] : r \in Requests}

Reviews == [pending |-> {"contacted", "approved", "rejected"},
            contacted |-> {"approved", "rejected"},
            approved |-> {}, rejected |-> {}, activated |-> {}]

AgreementPayment == [key : Keys, amount : PaidAmounts, status : {"confirmed", "void"}]
Unsubmitted == [status |-> "none"]
Unfinalized == [status |-> "none", payments |-> {}, invitations |-> <<>>]

SubmitCmd == [op : {"submit"}, request : Requests, quote : 0 .. MaxPrices]
ReviewCmd == [op : {"review"}, request : Requests, to : DOMAIN Reviews]
FinalizeCmd == [op : {"finalize"}, request : Requests, total : AgreedTotals]
PayCmd == [op : {"pay"}, request : Requests, key : Keys, amount : PaidAmounts]
VoidCmd == [op : {"void"}, request : Requests, payment : AgreementPayment]
InvitationCmd == [op : {"invite", "revoke", "complete"}, request : Requests, nth : Nat]
ActivationCmd ==
  SubmitCmd \cup ReviewCmd \cup FinalizeCmd \cup PayCmd \cup VoidCmd \cup InvitationCmd

VARIABLES
  price,        \* edition of the published price list
  requests,     \* commercial_access_requests
  recent,       \* requests younger than the cooldown of their phone
  agreements,   \* commercial_agreements with their payments and invitations
  users,        \* phones of the users
  commerceTxn   \* the sessions

commercial == <<price, requests, recent, agreements, users>>
activationVars == <<commercial, commerceTxn>>

ActivationTypeOK ==
  /\ price \in 0 .. MaxPrices
  /\ requests \in [Requests -> [status : DOMAIN Reviews, quote : 0 .. MaxPrices] \cup {Unsubmitted}]
  /\ recent \subseteq Requests
  /\ \A r \in Requests : agreements[r] = Unfinalized \/
       /\ agreements[r].status \in {"awaiting_payment", "paid", "onboarding_pending", "activated"}
       /\ agreements[r].total \in AgreedTotals
       /\ agreements[r].payments \subseteq AgreementPayment
       /\ \A p, q \in agreements[r].payments : p.key = q.key => p = q
       /\ agreements[r].invitations \in
            BoundedSeq({"live", "revoked", "consumed"}, MaxInvitations)
  /\ users \subseteq Phones
  /\ \A t \in Txns : commerceTxn[t] = NotInTxn \/ commerceTxn[t].cmd \in ActivationCmd

ActivationInit ==
  /\ price = 0
  /\ requests = [r \in Requests |-> Unsubmitted]
  /\ recent = {}
  /\ agreements = [r \in Requests |-> Unfinalized]
  /\ users = {}
  /\ commerceTxn = AllIdle

-----------------------------------------------------------------------------
PaymentSum(P) == MapThenSumSet(LAMBDA p : p.amount, P)

(* Mutant: voided payments still count.                                     *)
WithVoided(P) == PaymentSum(P)

(* The confirmed payments, which have to make up the agreed total exactly.  *)
ConfirmedTotal(P) == PaymentSum({p \in P : p.status = "confirmed"})

SettledStatus(total, P) == IF ConfirmedTotal(P) = total THEN "paid" ELSE "awaiting_payment"

LiveInvitation(a) ==
  IF a.invitations # <<>> /\ Last(a.invitations) = "live" THEN {Len(a.invitations)} ELSE {}

-----------------------------------------------------------------------------
(* Locks.                                                                   *)

RequestRow(r) == <<"request", r>>
AgreementRow(r) == <<"agreement", r>>
InvitationRow(r, n) == <<"invitation", r, n>>
PriceShared(t) == <<"price", t>>

CooldownOf(r) == <<"cooldown", PhoneOf[r]>>

IdentityOf(r) == <<"identity", PhoneOf[r]>>

CommerceLocks(t, c) ==
  CASE c.op = "submit"           -> {CooldownOf(c.request), PriceShared(t)}
    [] c.op = "review"           -> {RequestRow(c.request)}
    [] c.op = "finalize"         -> {RequestRow(c.request), PriceShared(t)}
    [] c.op \in {"pay", "void"}  -> {AgreementRow(c.request)}
    [] c.op = "invite"           -> {AgreementRow(c.request), RequestRow(c.request)} \cup
         {InvitationRow(c.request, n) : n \in LiveInvitation(agreements[c.request])}
    [] c.op = "revoke"           -> {AgreementRow(c.request), InvitationRow(c.request, c.nth)}
    [] c.op = "complete"         -> {InvitationRow(c.request, c.nth), AgreementRow(c.request),
                                     RequestRow(c.request), IdentityOf(c.request)}
    [] OTHER                     -> {}

(* The order in which a command takes them.  An operator who replaces or    *)
(* revokes an invitation locks its agreement first, its holder last; two of *)
(* them can wait for each other until the database ends one.                *)
CommerceOrder(c) ==
  IF c.op = "complete" THEN [invitation |-> 1, agreement |-> 2, request |-> 3, identity |-> 4]
  ELSE [cooldown |-> 1, agreement |-> 2, request |-> 3, invitation |-> 4, price |-> 5]

CommerceMissing(t) == CommerceLocks(t, commerceTxn[t].cmd) \ commerceTxn[t].held

CommerceWants(t) ==
  LET order == CommerceOrder(commerceTxn[t].cmd)
  IN  {l \in CommerceMissing(t) : \A m \in CommerceMissing(t) : order[l[1]] <= order[m[1]]}

(* Mutant: the invitation is looked at before its row is locked only.       *)
HonoursUnlocked(a, n) == a.status = "onboarding_pending"

(* An invitation is honoured while it is live.  One that has expired is     *)
(* refused, which is an abort here.                                         *)
Honours(a, n) == a.status = "onboarding_pending" /\ a.invitations[n] = "live"

AcceptsPayments(a) == a.status \in {"awaiting_payment", "paid"}

(* A quote names the edition of every price it is the sum of.               *)
CurrentQuote == price

(* What a command must find when it has one of its locks.                   *)
CommerceAdmits(c, l) ==
  LET r == c.request
      a == agreements[r]
      settled == ConfirmedTotal(a.payments) = a.total
      On(ops, row) == c.op \in ops /\ l[1] = row IN
  /\ On({"submit"}, "cooldown") => \A s \in recent : PhoneOf[s] # PhoneOf[r]
  /\ On({"submit"}, "price") => c.quote = CurrentQuote
  /\ On({"review"}, "request") => c.to \in Reviews[requests[r].status]
  /\ On({"finalize"}, "request") => requests[r].status = "approved" /\ a = Unfinalized
  /\ On({"pay"}, "agreement") => /\ AcceptsPayments(a) /\ a.total # 0
                                 /\ \A p \in a.payments : p.key # c.key
                                 /\ ConfirmedTotal(a.payments) + c.amount <= a.total
  /\ On({"void"}, "agreement") => AcceptsPayments(a) /\ c.payment \in a.payments
  /\ On({"invite"}, "agreement") => a.status \in {"paid", "onboarding_pending"}
  /\ On({"invite"}, "request") => requests[r].status = "approved" /\ settled
  /\ On({"revoke"}, l[1]) => Honours(a, c.nth)
  /\ On({"complete"}, "request") => Honours(a, c.nth) /\ requests[r].status = "approved" /\ settled
  /\ On({"complete"}, "identity") => PhoneOf[r] \notin users

-----------------------------------------------------------------------------
(* Steps of a command.                                                      *)

CommerceBegin(t, c) ==
  /\ commerceTxn[t] = NotInTxn
  /\ commerceTxn' = Begun(commerceTxn, t, c)
  /\ UNCHANGED commercial

CommerceLock(t) ==
  /\ \E l \in CommerceWants(t) :
       /\ Free(commerceTxn, l)
       /\ CommerceAdmits(commerceTxn[t].cmd, l)
       /\ commerceTxn' = Locked(commerceTxn, t, l)
  /\ UNCHANGED commercial

(* A refusal, the answer to a retry, a deadlock or a lost connection.       *)
CommerceAbort(t) ==
  /\ commerceTxn[t] # NotInTxn
  /\ commerceTxn' = Ended(commerceTxn, t)
  /\ UNCHANGED commercial

Commits(t, op) ==
  /\ commerceTxn[t].cmd.op = op /\ CommerceMissing(t) = {}
  /\ commerceTxn' = Ended(commerceTxn, t)

(* Bound: a visitor's second row, after the cooldown, is not followed.      *)
Submit(t) ==
  LET c == commerceTxn[t].cmd IN
  /\ Commits(t, "submit")
  /\ requests[c.request] = Unsubmitted
  /\ requests' = [requests EXCEPT ![c.request] = [status |-> "pending", quote |-> c.quote]]
  /\ recent' = recent \cup {c.request}
  /\ UNCHANGED <<price, agreements, users>>

Review(t) ==
  LET c == commerceTxn[t].cmd IN
  /\ Commits(t, "review")
  /\ requests' = [requests EXCEPT ![c.request].status = c.to]
  /\ UNCHANGED <<price, recent, agreements, users>>

(* A complimentary agreement is settled from the start.                     *)
FinalizeAgreement(t) ==
  LET c == commerceTxn[t].cmd IN
  /\ Commits(t, "finalize")
  /\ agreements' = [agreements EXCEPT ![c.request] =
       [status |-> SettledStatus(c.total, {}), total |-> c.total, payments |-> {}, invitations |-> <<>>]]
  /\ UNCHANGED <<price, requests, recent, users>>

SetPayments(r, P) ==
  agreements' = [agreements EXCEPT ![r].payments = P,
                                   ![r].status = SettledStatus(agreements[r].total, P)]

RecordAgreementPayment(t) ==
  LET c == commerceTxn[t].cmd IN
  /\ Commits(t, "pay")
  /\ SetPayments(c.request, agreements[c.request].payments \cup
                   {[key |-> c.key, amount |-> c.amount, status |-> "confirmed"]})
  /\ UNCHANGED <<price, requests, recent, users>>

VoidAgreementPayment(t) ==
  LET c == commerceTxn[t].cmd IN
  /\ Commits(t, "void")
  /\ SetPayments(c.request, (agreements[c.request].payments \ {c.payment}) \cup
                              {[c.payment EXCEPT !.status = "void"]})
  /\ UNCHANGED <<price, requests, recent, users>>

(* A new invitation replaces the one that is live.                          *)
CreateInvitation(t) ==
  LET r == commerceTxn[t].cmd.request
      was == agreements[r].invitations IN
  /\ Commits(t, "invite")
  /\ Len(was) < MaxInvitations
  /\ agreements' = [agreements EXCEPT ![r].status = "onboarding_pending",
       ![r].invitations = Append([n \in DOMAIN was |->
          IF n \in LiveInvitation(agreements[r]) THEN "revoked" ELSE was[n]], "live")]
  /\ UNCHANGED <<price, requests, recent, users>>

RevokeInvitation(t) ==
  LET c == commerceTxn[t].cmd IN
  /\ Commits(t, "revoke")
  /\ agreements' = [agreements EXCEPT ![c.request].status = "paid",
                                      ![c.request].invitations[c.nth] = "revoked"]
  /\ UNCHANGED <<price, requests, recent, users>>

(* The organization, its owner, branch, membership, billing profile and     *)
(* subscription are created with it.                                        *)
CompleteOnboarding(t) ==
  LET c == commerceTxn[t].cmd IN
  /\ Commits(t, "complete")
  /\ agreements' = [agreements EXCEPT ![c.request].status = "activated",
                                      ![c.request].invitations[c.nth] = "consumed"]
  /\ requests' = [requests EXCEPT ![c.request].status = "activated"]
  /\ users' = users \cup {PhoneOf[c.request]}
  /\ UNCHANGED <<price, recent>>

(* Mutant: the price rows that a quote rests on are not locked.             *)
PriceUnderQuote ==
  /\ price < MaxPrices
  /\ price' = price + 1
  /\ UNCHANGED <<requests, recent, agreements, users, commerceTxn>>

(* An edit of the price list waits for the quotes that hold it shared.      *)
UpsertPricing ==
  /\ price < MaxPrices
  /\ \A t \in Txns : PriceShared(t) \notin commerceTxn[t].held
  /\ price' = price + 1
  /\ UNCHANGED <<requests, recent, agreements, users, commerceTxn>>

CooldownEnds(r) ==
  /\ r \in recent
  /\ recent' = recent \ {r}
  /\ UNCHANGED <<price, requests, agreements, users, commerceTxn>>

(* The visitor accepts the quote of the present price list.                 *)
VisitorBegins(t, r) ==
  /\ requests[r] = Unsubmitted
  /\ CommerceBegin(t, [op |-> "submit", request |-> r, quote |-> CurrentQuote])

(* Operators act on the rows their pages show.                              *)
ReviewBegins(t, r) ==
  /\ requests[r] # Unsubmitted
  /\ \E s \in Reviews[requests[r].status] :
       CommerceBegin(t, [op |-> "review", request |-> r, to |-> s])

OperatorBegins(t, r) ==
  \/ requests[r].status = "approved" /\ \E n \in AgreedTotals :
       CommerceBegin(t, [op |-> "finalize", request |-> r, total |-> n])
  \/ /\ agreements[r] # Unfinalized
     /\ \/ \E k \in Keys, n \in PaidAmounts :
             CommerceBegin(t, [op |-> "pay", request |-> r, key |-> k, amount |-> n])
        \/ \E p \in {q \in agreements[r].payments : q.status = "confirmed"} :
             CommerceBegin(t, [op |-> "void", request |-> r, payment |-> p])
        \/ CommerceBegin(t, [op |-> "invite", request |-> r, nth |-> 0])
        \/ \E n \in DOMAIN agreements[r].invitations :
             CommerceBegin(t, [op |-> "revoke", request |-> r, nth |-> n])

(* Whoever was given a link may use it at any time.                         *)
HolderBegins(t, r) ==
  \E n \in DOMAIN agreements[r].invitations :
    CommerceBegin(t, [op |-> "complete", request |-> r, nth |-> n])

ActivationNext ==
  \/ UpsertPricing
  \/ \E r \in Requests : CooldownEnds(r)
  \/ \E t \in Txns :
       \/ \E r \in Requests : \/ VisitorBegins(t, r) \/ ReviewBegins(t, r)
                              \/ OperatorBegins(t, r) \/ HolderBegins(t, r)
       \/ CommerceLock(t) \/ CommerceAbort(t)
       \/ Submit(t) \/ Review(t) \/ FinalizeAgreement(t) \/ RecordAgreementPayment(t) \/ VoidAgreementPayment(t)
       \/ CreateInvitation(t) \/ RevokeInvitation(t) \/ CompleteOnboarding(t)

ActivationSpec == ActivationInit /\ [][ActivationNext]_activationVars

-----------------------------------------------------------------------------
(* Properties.                                                              *)

(* An agreement says that it is paid, waits for its owner or is active      *)
(* exactly when its confirmed payments make up the agreed total, whatever   *)
(* was recorded, retried and voided at the same time.                       *)
PaidExactly ==
  \A r \in Requests : agreements[r] # Unfinalized =>
    LET sum == MapThenSumSet(LAMBDA p : IF p.status = "void" THEN 0 ELSE p.amount,
                             agreements[r].payments)
    IN  /\ sum <= agreements[r].total
        /\ agreements[r].status # "awaiting_payment" <=> sum = agreements[r].total

(* An organization comes from the latest invitation of its agreement, used  *)
(* once; links that were replaced or revoked create nothing, also when they *)
(* are used while they are being replaced.                                  *)
ConsumedOnce ==
  \A r \in Requests :
    LET used == {n \in DOMAIN agreements[r].invitations : agreements[r].invitations[n] = "consumed"}
    IN  /\ used \subseteq {Len(agreements[r].invitations)}
        /\ used # {} <=> agreements[r].status = "activated"
        /\ used # {} <=> requests[r].status = "activated"

(* One phone becomes the owner of one organization, though it may have made *)
(* several requests that were all approved, paid and invited.               *)
OwnersAreDistinct ==
  \A r, s \in Requests :
    requests[r].status = "activated" /\ requests[s].status = "activated"
      /\ PhoneOf[r] = PhoneOf[s] => r = s

(* Requests sent at the same time from one phone are not all accepted.      *)
OneRequestPerCooldown == \A r, s \in recent : PhoneOf[r] = PhoneOf[s] => r = s

(* A request is stored with the price that is published when it commits,    *)
(* not with one that was replaced between the quote and the submission.     *)
QuotesAreCurrent ==
  [][\A r \in Requests : requests[r] = Unsubmitted /\ requests'[r] # Unsubmitted =>
       requests'[r].quote = price]_activationVars
=============================================================================
