---------------------------- MODULE CommerceProofs ----------------------------
(***************************************************************************)
(* Proofs about first activations of organizations, and about the cutovers *)
(* that import their data.                                                 *)
(***************************************************************************)
EXTENDS MCCommerce, RenewalProofs, SequenceTheorems

-----------------------------------------------------------------------------
(* What Activation promises for all requests, phones, prices and payments,  *)
(* and any number of operators, visitors and holders of invitations.  The   *)
(* argument: what a command found when it got a lock is still so when it    *)
(* writes, because whoever could change it needs that lock.                 *)

AnyLock == {RequestRow(r) : r \in Requests} \cup {AgreementRow(r) : r \in Requests}
         \cup {InvitationRow(r, n) : r \in Requests, n \in Nat} \cup {PriceShared(t) : t \in Txns}
         \cup {CooldownOf(r) : r \in Requests} \cup {IdentityOf(r) : r \in Requests}

Invitations == BoundedSeq({"live", "revoked", "consumed"}, MaxInvitations)

Finalized == [status : {"awaiting_payment", "paid", "onboarding_pending", "activated"},
              total : AgreedTotals, payments : SUBSET AgreementPayment, invitations : Invitations]

RequestRows == [status : DOMAIN Reviews, quote : 0 .. MaxPrices] \cup {Unsubmitted}

Session == {NotInTxn} \cup [cmd : ActivationCmd, held : SUBSET AnyLock]

CommerceTypes ==
  /\ ActivationTypeOK
  /\ agreements \in [Requests -> Finalized \cup {Unfinalized}]
  /\ commerceTxn \in [Txns -> Session]

(* A lock is held once.                                                     *)
Exclusive == \A t, u \in Txns : t # u => commerceTxn[t].held \cap commerceTxn[u].held = {}

(* What a command knows, of what was there when it began and of what it     *)
(* found with its locks.                                                    *)
KnowsRequest(c, held) ==
  LET status == requests[c.request].status
      has == RequestRow(c.request) \in held IN
  /\ c.op = "review" => requests[c.request] # Unsubmitted
  /\ c.op = "review" /\ has => c.to \in Reviews[status]
  /\ c.op = "finalize" /\ has => status = "approved" /\ agreements[c.request] = Unfinalized
  /\ c.op = "complete" /\ has => /\ status = "approved" /\ Honours(agreements[c.request], c.nth)
                                 /\ AgreementRow(c.request) \in held

KnowsAgreement(c, held) ==
  LET a == agreements[c.request]
      has == AgreementRow(c.request) \in held IN
  /\ c.op \in {"pay", "void", "invite", "revoke", "complete"} => a # Unfinalized
  /\ c.op \in {"revoke", "complete"} => c.nth \in DOMAIN a.invitations
  /\ c.op = "pay" /\ has => AcceptsPayments(a) /\ \A p \in a.payments : p.key # c.key
  /\ c.op = "void" /\ has => AcceptsPayments(a) /\ c.payment \in a.payments
  /\ c.op = "invite" /\ has => a.status \in {"paid", "onboarding_pending"}
  /\ c.op = "revoke" /\ has => Honours(a, c.nth)

KnowsOthers(t, c, held) ==
  /\ c.op = "submit" /\ CooldownOf(c.request) \in held =>
       \A s \in recent : PhoneOf[s] # PhoneOf[c.request]
  /\ c.op = "submit" /\ PriceShared(t) \in held => c.quote = price
  /\ c.op = "complete" /\ IdentityOf(c.request) \in held => PhoneOf[c.request] \notin users

Knows(t) ==
  LET c == commerceTxn[t].cmd
      held == commerceTxn[t].held
  IN  KnowsRequest(c, held) /\ KnowsAgreement(c, held) /\ KnowsOthers(t, c, held)

(* Only the last invitation is live or consumed, and consumed it is when    *)
(* its request and its agreement are activated.                             *)
Used(a) == {n \in DOMAIN a.invitations : a.invitations[n] = "consumed"}
Once(a, status) ==
  /\ \A n \in DOMAIN a.invitations : a.invitations[n] = "live" => n = Len(a.invitations)
  /\ Used(a) \subseteq {Len(a.invitations)}
  /\ Used(a) # {} <=> a.status = "activated"
  /\ Used(a) # {} <=> status = "activated"

OwnersAreUsers == \A r \in Requests : requests[r].status = "activated" => PhoneOf[r] \in users

ActivationInv ==
  /\ CommerceTypes /\ Exclusive /\ \A t \in Txns : Knows(t)
  /\ \A r \in Requests : Once(agreements[r], requests[r].status)
  /\ OwnersAreUsers /\ OwnersAreDistinct /\ OneRequestPerCooldown

-----------------------------------------------------------------------------
(* Commands, locks and rows.                                                *)

LEMMA CommandsByOperation ==
  ASSUME NEW c \in ActivationCmd \cup {NotInTxn.cmd}
  PROVE  /\ c.op # "idle" => c.request \in Requests
         /\ c.op \in {"idle", "submit", "review", "finalize", "pay", "void", "invite", "revoke", "complete"}
         /\ c.op = "submit" => c \in SubmitCmd
         /\ c.op = "review" => c \in ReviewCmd
         /\ c.op = "finalize" => c \in FinalizeCmd
         /\ c.op = "pay" => c \in PayCmd
         /\ c.op = "void" => c \in VoidCmd
         /\ c.op \in {"invite", "revoke", "complete"} => c \in InvitationCmd
  BY DEF ActivationCmd, SubmitCmd, ReviewCmd, FinalizeCmd, PayCmd, VoidCmd, InvitationCmd, NotInTxn

LEMMA LockKinds ==
  ASSUME NEW r, NEW n, NEW t
  PROVE  /\ RequestRow(r)[1] = "request" /\ AgreementRow(r)[1] = "agreement"
         /\ InvitationRow(r, n)[1] = "invitation" /\ PriceShared(t)[1] = "price"
         /\ CooldownOf(r)[1] = "cooldown" /\ IdentityOf(r)[1] = "identity"
  BY DEF RequestRow, AgreementRow, InvitationRow, PriceShared, CooldownOf, IdentityOf

LEMMA LocksByOperation ==
  ASSUME NEW t \in Txns, NEW c \in ActivationCmd
  PROVE  /\ c.op = "submit" => CommerceLocks(t, c) = {CooldownOf(c.request), PriceShared(t)}
         /\ c.op = "review" => CommerceLocks(t, c) = {RequestRow(c.request)}
         /\ c.op = "finalize" => CommerceLocks(t, c) = {RequestRow(c.request), PriceShared(t)}
         /\ c.op = "pay" => CommerceLocks(t, c) = {AgreementRow(c.request)}
         /\ c.op = "void" => CommerceLocks(t, c) = {AgreementRow(c.request)}
         /\ c.op = "invite" => CommerceLocks(t, c) =
              {AgreementRow(c.request), RequestRow(c.request)} \cup
                {InvitationRow(c.request, n) : n \in LiveInvitation(agreements[c.request])}
         /\ c.op = "revoke" => CommerceLocks(t, c) = {AgreementRow(c.request), InvitationRow(c.request, c.nth)}
         /\ c.op = "complete" => CommerceLocks(t, c) =
              {InvitationRow(c.request, c.nth), AgreementRow(c.request), RequestRow(c.request), IdentityOf(c.request)}
<1>1. c.op = "submit" => CommerceLocks(t, c) = {CooldownOf(c.request), PriceShared(t)}
  BY Zenon DEF CommerceLocks
<1>2. c.op = "review" => CommerceLocks(t, c) = {RequestRow(c.request)}
  BY Zenon DEF CommerceLocks
<1>3. c.op = "finalize" => CommerceLocks(t, c) = {RequestRow(c.request), PriceShared(t)}
  BY Zenon DEF CommerceLocks
<1>4. c.op = "pay" => CommerceLocks(t, c) = {AgreementRow(c.request)}
  BY Zenon DEF CommerceLocks
<1>5. c.op = "void" => CommerceLocks(t, c) = {AgreementRow(c.request)}
  BY Zenon DEF CommerceLocks
<1>6. c.op = "invite" => CommerceLocks(t, c) =
        {AgreementRow(c.request), RequestRow(c.request)} \cup
          {InvitationRow(c.request, n) : n \in LiveInvitation(agreements[c.request])}
  BY Zenon DEF CommerceLocks
<1>7. c.op = "revoke" => CommerceLocks(t, c) = {AgreementRow(c.request), InvitationRow(c.request, c.nth)}
  BY Zenon DEF CommerceLocks
<1>8. c.op = "complete" => CommerceLocks(t, c) =
        {InvitationRow(c.request, c.nth), AgreementRow(c.request), RequestRow(c.request), IdentityOf(c.request)}
  BY Zenon DEF CommerceLocks
<1> QED
  BY <1>1, <1>2, <1>3, <1>4, <1>5, <1>6, <1>7, <1>8

LEMMA InvitationLists ==
  ASSUME NEW s
  PROVE  s \in Invitations <=> s \in Seq({"live", "revoked", "consumed"}) /\ Len(s) <= MaxInvitations
<1>1. ASSUME NEW m \in 0 .. MaxInvitations, s \in [1 .. m -> {"live", "revoked", "consumed"}]
      PROVE  s \in Seq({"live", "revoked", "consumed"}) /\ Len(s) = m
  BY <1>1, ActivationAssumption
<1>2. ASSUME s \in Seq({"live", "revoked", "consumed"}), Len(s) <= MaxInvitations
      PROVE  Len(s) \in 0 .. MaxInvitations /\ s \in [1 .. Len(s) -> {"live", "revoked", "consumed"}]
  BY <1>2, ActivationAssumption
<1>3. s \in Invitations <=> \E m \in 0 .. MaxInvitations : s \in [1 .. m -> {"live", "revoked", "consumed"}]
  BY DEF Invitations, BoundedSeq, SeqOf
<1> QED
  BY <1>1, <1>2, <1>3

LEMMA NoInvitations == <<>> \in Invitations
<1>1. PICK none \in Seq({"live", "revoked", "consumed"}) : none = <<>> /\ Len(none) = 0
  BY EmptySeq
<1>2. 0 <= MaxInvitations
  BY ActivationAssumption
<1>3. none \in Invitations
  BY <1>1, <1>2, InvitationLists
<1> QED
  BY <1>1, <1>3

LEMMA AgreementRows ==
  ASSUME NEW a \in Finalized \cup {Unfinalized}
  PROVE  /\ a # Unfinalized => a \in Finalized
         /\ a = Unfinalized <=> a.status = "none"
         /\ a.invitations \in Seq({"live", "revoked", "consumed"})
         /\ DOMAIN a.invitations = 1 .. Len(a.invitations) /\ Len(a.invitations) \in Nat
<1>1. CASE a = Unfinalized
  BY <1>1 DEF Unfinalized
<1>2. CASE a # Unfinalized
  <2>1. a \in Finalized /\ a.invitations \in Invitations /\ a.status # "none"
    BY <1>2 DEF Finalized
  <2>2. a.invitations \in Seq({"live", "revoked", "consumed"})
    BY <2>1, InvitationLists
  <2> QED
    BY <1>2, <2>1, <2>2
<1> QED
  BY <1>1, <1>2

LEMMA RequestsByStatus ==
  ASSUME NEW q \in RequestRows
  PROVE  /\ q # Unsubmitted => q \in [status : DOMAIN Reviews, quote : 0 .. MaxPrices]
         /\ q = Unsubmitted <=> q.status = "none"
         /\ q.status \in {"none", "pending", "contacted", "approved", "rejected", "activated"}
         /\ Reviews.pending = {"contacted", "approved", "rejected"}
         /\ Reviews.contacted = {"approved", "rejected"} /\ Reviews.activated = {}
         /\ Reviews.approved = {} /\ Reviews.rejected = {}
  BY DEF RequestRows, Unsubmitted, Reviews
-----------------------------------------------------------------------------
(* How commands go on.                                                      *)

LEMMA Sessions ==
  ASSUME CommerceTypes, NEW t \in Txns
  PROVE  /\ commerceTxn[t] \in Session /\ commerceTxn[t].held \subseteq AnyLock
         /\ commerceTxn[t].cmd \in ActivationCmd \cup {NotInTxn.cmd}
         /\ commerceTxn[t].cmd.op # "idle" => commerceTxn[t].cmd \in ActivationCmd
         /\ NotInTxn \in Session
  BY DEF CommerceTypes, Session, NotInTxn

LEMMA LocksAreLocks ==
  ASSUME CommerceTypes, NEW t \in Txns, NEW c \in ActivationCmd PROVE CommerceLocks(t, c) \subseteq AnyLock
<1>1. c.request \in Requests
  BY CommandsByOperation DEF ActivationCmd, SubmitCmd, ReviewCmd, FinalizeCmd, PayCmd, VoidCmd, InvitationCmd
<1>2. c.op \in {"revoke", "complete"} => c.nth \in Nat
  BY CommandsByOperation DEF InvitationCmd
<1>3. LiveInvitation(agreements[c.request]) \subseteq Nat
  BY <1>1, AgreementRows DEF LiveInvitation, CommerceTypes
<1>4. c.op \in {"submit", "review", "finalize", "pay", "void", "invite", "revoke", "complete"}
  BY DEF ActivationCmd, SubmitCmd, ReviewCmd, FinalizeCmd, PayCmd, VoidCmd, InvitationCmd
<1>5. CommerceLocks(t, c) \in SUBSET
        ({RequestRow(c.request), AgreementRow(c.request), PriceShared(t), CooldownOf(c.request), IdentityOf(c.request)}
         \cup {InvitationRow(c.request, n) : n \in Nat})
  BY <1>2, <1>3, <1>4, LocksByOperation
<1> QED
  BY <1>1, <1>5 DEF AnyLock

(* A command has all its locks when it commits, and knows what it knows.    *)
LEMMA CommitHolds ==
  ASSUME ActivationInv, NEW t \in Txns, NEW op, Commits(t, op), op # "idle"
  PROVE  /\ commerceTxn[t].cmd \in ActivationCmd /\ commerceTxn[t].cmd.op = op
         /\ CommerceLocks(t, commerceTxn[t].cmd) \subseteq commerceTxn[t].held
         /\ commerceTxn' = [commerceTxn EXCEPT ![t] = NotInTxn]
         /\ commerceTxn[t].cmd.request \in Requests
         /\ Knows(t)
  BY Sessions, CommandsByOperation DEF ActivationInv, Commits, CommerceMissing, Ended

LEMMA IdleKnows == ASSUME NEW t, commerceTxn[t] = NotInTxn PROVE Knows(t)
  BY DEF Knows, KnowsRequest, KnowsAgreement, KnowsOthers, NotInTxn

(* What a command knows remains true when nobody writes what it has locked. *)
LEMMA KnowledgeStays ==
  ASSUME NEW u \in Txns, Knows(u), CommerceTypes, commerceTxn'[u] = commerceTxn[u],
         NEW r, r = commerceTxn[u].cmd.request, NEW held, held = commerceTxn[u].held,
         NEW op, op = commerceTxn[u].cmd.op, op # "idle",
         RequestRow(r) \in held /\ op \in {"review", "finalize", "complete"} => requests'[r] = requests[r],
         RequestRow(r) \in held /\ op = "finalize" => agreements'[r] = agreements[r],
         AgreementRow(r) \in held /\ op \notin {"submit", "review", "finalize"} =>
           agreements'[r] = agreements[r],
         requests[r] # Unsubmitted => requests'[r] # Unsubmitted,
         agreements[r] # Unfinalized => agreements'[r] # Unfinalized,
         DOMAIN agreements[r].invitations \subseteq DOMAIN agreements'[r].invitations,
         CooldownOf(r) \in held => \A s \in recent' \ recent : PhoneOf[s] # PhoneOf[r],
         PriceShared(u) \in held => price' = price,
         IdentityOf(r) \in held /\ PhoneOf[r] \in users' => PhoneOf[r] \in users
  PROVE  Knows(u)'
<1> DEFINE c == commerceTxn[u].cmd
<1>1. KnowsRequest(c, held)'
  BY DEF Knows, KnowsRequest
<1>2. KnowsAgreement(c, held)'
  BY DEF Knows, KnowsAgreement
<1>3. KnowsOthers(u, c, held)'
  BY DEF Knows, KnowsOthers
<1> QED
  BY <1>1, <1>2, <1>3 DEF Knows, KnowsRequest, KnowsAgreement, KnowsOthers

LEMMA ActivationBegins == ActivationInit => ActivationInv
<1> SUFFICES ASSUME ActivationInit PROVE ActivationInv
  OBVIOUS
<1>1. CommerceTypes
  BY ActivationAssumption
     DEF ActivationInit, CommerceTypes, ActivationTypeOK, Unfinalized, Unsubmitted, AllIdle, NotInTxn, Session
<1>2. Exclusive /\ \A t \in Txns : Knows(t)
  BY IdleKnows DEF ActivationInit, AllIdle, Exclusive, NotInTxn
<1>3. \A r \in Requests : Once(agreements[r], requests[r].status)
  BY DEF ActivationInit, Once, Used, Unfinalized, Unsubmitted
<1>4. OwnersAreUsers /\ OwnersAreDistinct /\ OneRequestPerCooldown
  BY DEF ActivationInit, OwnersAreUsers, OwnersAreDistinct, OneRequestPerCooldown, Unsubmitted
<1> QED
  BY <1>1, <1>2, <1>3, <1>4 DEF ActivationInv
(* A step that only one command takes, of what it may write by itself.      *)
LEMMA SessionSteps ==
  ASSUME ActivationInv, NEW t \in Txns, NEW next \in Session, commerceTxn' = [commerceTxn EXCEPT ![t] = next],
         Knows(t)', CommerceTypes', \A u \in Txns \ {t} : Knows(u)',
         \A u \in Txns \ {t} : next.held \cap commerceTxn[u].held = {}
  PROVE  Exclusive' /\ \A u \in Txns : Knows(u)'
<1>1. commerceTxn'[t] = next /\ \A u \in Txns \ {t} : commerceTxn'[u] = commerceTxn[u]
  BY DEF ActivationInv, CommerceTypes
<1>2. Exclusive'
  BY <1>1 DEF ActivationInv, Exclusive
<1> QED
  BY <1>2

(* When a command commits, it is enough that it wrote what it had locked.   *)
LEMMA CommitSteps ==
  ASSUME ActivationInv, NEW t \in Txns, commerceTxn' = [commerceTxn EXCEPT ![t] = NotInTxn],
         CommerceTypes', NEW r \in Requests,
         \A s \in Requests \ {r} : requests'[s] = requests[s] /\ agreements'[s] = agreements[s],
         \/ requests'[r] = requests[r]
         \/ requests[r] = Unsubmitted
         \/ RequestRow(r) \in commerceTxn[t].held,
         \/ agreements'[r] = agreements[r]
         \/ agreements[r] = Unfinalized /\ RequestRow(r) \in commerceTxn[t].held
         \/ agreements[r] # Unfinalized /\ AgreementRow(r) \in commerceTxn[t].held,
         requests[r] # Unsubmitted => requests'[r] # Unsubmitted,
         agreements[r] # Unfinalized => agreements'[r] # Unfinalized,
         DOMAIN agreements[r].invitations \subseteq DOMAIN agreements'[r].invitations,
         recent' \subseteq recent \/ (recent' \subseteq recent \cup {r} /\ CooldownOf(r) \in commerceTxn[t].held),
         price' = price,
         users' \subseteq users \/ (users' \subseteq users \cup {PhoneOf[r]} /\ IdentityOf(r) \in commerceTxn[t].held)
  PROVE  Exclusive' /\ \A u \in Txns : Knows(u)'
<1>1. NotInTxn \in Session /\ NotInTxn.held = {} /\ commerceTxn'[t] = NotInTxn
  BY Sessions DEF NotInTxn, ActivationInv, CommerceTypes
<1>2. ASSUME NEW u \in Txns \ {t} PROVE Knows(u)'
  <2>1. PICK s, held, op : s = commerceTxn[u].cmd.request /\ held = commerceTxn[u].held /\ op = commerceTxn[u].cmd.op
    OBVIOUS
  <2>2. commerceTxn'[u] = commerceTxn[u] /\ held \cap commerceTxn[t].held = {} /\ Knows(u) /\ CommerceTypes
    BY <2>1 DEF ActivationInv, CommerceTypes, Exclusive
  <2>3. CASE op = "idle"
    BY <2>1, <2>2, <2>3 DEF Knows, KnowsRequest, KnowsAgreement, KnowsOthers
  <2>4. CASE op # "idle"
    <3>1. s \in Requests /\ op \in {"submit", "review", "finalize", "pay", "void", "invite", "revoke", "complete"}
      BY <2>1, <2>2, <2>4, Sessions, CommandsByOperation
    <3>2. /\ op = "review" => requests[s] # Unsubmitted
          /\ op \in {"finalize", "complete"} /\ RequestRow(s) \in held => requests[s] # Unsubmitted
          /\ op = "finalize" /\ RequestRow(s) \in held => agreements[s] = Unfinalized
          /\ op \notin {"submit", "review", "finalize"} => agreements[s] # Unfinalized
      BY <2>1, <2>2, <3>1 DEF Knows, KnowsRequest, KnowsAgreement, Unsubmitted
    <3>3. /\ RequestRow(s) \in held /\ op \in {"review", "finalize", "complete"} => requests'[s] = requests[s]
          /\ RequestRow(s) \in held /\ op = "finalize" => agreements'[s] = agreements[s]
          /\ AgreementRow(s) \in held /\ op \notin {"submit", "review", "finalize"} => agreements'[s] = agreements[s]
      BY <2>2, <3>1, <3>2
    <3>4. /\ requests[s] # Unsubmitted => requests'[s] # Unsubmitted
          /\ agreements[s] # Unfinalized => agreements'[s] # Unfinalized
          /\ DOMAIN agreements[s].invitations \subseteq DOMAIN agreements'[s].invitations
      BY <3>1
    <3>5. CooldownOf(s) \in held => \A q \in recent' \ recent : PhoneOf[q] # PhoneOf[s]
      BY <2>2, <3>1 DEF CooldownOf
    <3>6. IdentityOf(s) \in held /\ PhoneOf[s] \in users' => PhoneOf[s] \in users
      BY <2>2, <3>1 DEF IdentityOf
    <3> QED
      BY <2>1, <2>2, <2>4, <3>3, <3>4, <3>5, <3>6, KnowledgeStays
  <2> QED
    BY <2>3, <2>4
<1>3. Knows(t)'
  BY <1>1 DEF Knows, KnowsRequest, KnowsAgreement, KnowsOthers, NotInTxn
<1>4. PICK next : next = NotInTxn
  OBVIOUS
<1>5. /\ next \in Session /\ commerceTxn' = [commerceTxn EXCEPT ![t] = next]
      /\ \A u \in Txns \ {t} : next.held \cap commerceTxn[u].held = {}
  BY <1>1, <1>4
<1> QED
  BY <1>2, <1>3, <1>5, SessionSteps

(* Steps that write no row.                                                 *)
LEMMA QuietSteps ==
  ASSUME ActivationInv, NEW t \in Txns, NEW next \in Session, commerceTxn' = [commerceTxn EXCEPT ![t] = next],
         UNCHANGED commercial, \A u \in Txns \ {t} : next.held \cap commerceTxn[u].held = {},
         LET c == next.cmd
             held == next.held
         IN  KnowsRequest(c, held) /\ KnowsAgreement(c, held) /\ KnowsOthers(t, c, held)
  PROVE  ActivationInv'
<1>1. commerceTxn'[t] = next /\ \A u \in Txns \ {t} : commerceTxn'[u] = commerceTxn[u]
  BY DEF ActivationInv, CommerceTypes
<1>2. commerceTxn' \in [Txns -> Session]
  BY DEF ActivationInv, CommerceTypes
<1>3. \A u \in Txns : commerceTxn'[u] = NotInTxn \/ commerceTxn'[u].cmd \in ActivationCmd
  BY <1>2 DEF Session
<1>4. CommerceTypes'
  BY <1>2, <1>3 DEF ActivationInv, CommerceTypes, ActivationTypeOK, commercial
<1>5. ASSUME NEW u \in Txns \ {t} PROVE Knows(u)'
  <2>1. Knows(u) /\ commerceTxn'[u] = commerceTxn[u]
    BY <1>1 DEF ActivationInv
  <2> QED
    BY <2>1 DEF commercial, Knows, KnowsRequest, KnowsAgreement, KnowsOthers
<1>6. Knows(t)'
  BY <1>1 DEF commercial, Knows, KnowsRequest, KnowsAgreement, KnowsOthers
<1>7. Exclusive' /\ \A u \in Txns : Knows(u)'
  BY <1>4, <1>5, <1>6, SessionSteps
<1> QED
  BY <1>4, <1>7 DEF ActivationInv, commercial, OwnersAreUsers, OwnersAreDistinct, OneRequestPerCooldown

LEMMA BeginSteps ==
  ASSUME ActivationInv, NEW t \in Txns, NEW c \in ActivationCmd, CommerceBegin(t, c),
         c.op = "review" => requests[c.request] # Unsubmitted,
         c.op \in {"pay", "void", "invite", "revoke", "complete"} => agreements[c.request] # Unfinalized,
         c.op \in {"revoke", "complete"} => c.nth \in DOMAIN agreements[c.request].invitations
  PROVE  ActivationInv'
<1>1. PICK next : next = [cmd |-> c, held |-> {}]
  OBVIOUS
<1>2. next \in Session /\ next.held = {} /\ next.cmd = c
  BY <1>1 DEF Session
<1>3. commerceTxn' = [commerceTxn EXCEPT ![t] = next] /\ UNCHANGED commercial
  BY <1>1 DEF CommerceBegin, Begun
<1>4. KnowsRequest(c, {}) /\ KnowsAgreement(c, {}) /\ KnowsOthers(t, c, {})
  BY DEF KnowsRequest, KnowsAgreement, KnowsOthers
<1> QED
  BY <1>2, <1>3, <1>4, QuietSteps

LEMMA LockSteps ==
  ASSUME ActivationInv, NEW t \in Txns, CommerceLock(t)
  PROVE  ActivationInv'
<1>1. PICK c, held : c = commerceTxn[t].cmd /\ held = commerceTxn[t].held
  OBVIOUS
<1>2. PICK l \in CommerceWants(t) :
        /\ Free(commerceTxn, l) /\ CommerceAdmits(c, l)
        /\ commerceTxn' = Locked(commerceTxn, t, l) /\ UNCHANGED commercial
  BY <1>1 DEF CommerceLock
<1>3. l \in CommerceMissing(t) /\ \A m \in CommerceMissing(t) : CommerceOrder(c)[l[1]] <= CommerceOrder(c)[m[1]]
  BY <1>1, <1>2 DEF CommerceWants
<1>4. c \in ActivationCmd
  <2>1. CASE c.op = "idle"
    <3>1. CommerceLocks(t, c) = {}
      BY <2>1 DEF CommerceLocks
    <3> QED
      BY <1>1, <1>3, <3>1 DEF CommerceMissing
  <2>2. CASE c.op # "idle"
    BY <1>1, <2>2, Sessions DEF ActivationInv
  <2> QED
    BY <2>1, <2>2
<1>5. l \in CommerceLocks(t, c) /\ l \in AnyLock /\ l \notin held
  BY <1>1, <1>3, <1>4, LocksAreLocks DEF CommerceMissing, ActivationInv
<1>6. PICK next : next = [cmd |-> c, held |-> held \cup {l}]
  OBVIOUS
<1>7. commerceTxn[t] \in [cmd : ActivationCmd, held : SUBSET AnyLock]
  BY <1>1, <1>4, <1>5 DEF ActivationInv, CommerceTypes, Session, NotInTxn, ActivationCmd,
     SubmitCmd, ReviewCmd, FinalizeCmd, PayCmd, VoidCmd, InvitationCmd
<1>8. next \in Session /\ commerceTxn' = [commerceTxn EXCEPT ![t] = next]
      /\ next.cmd = c /\ next.held = held \cup {l}
  <2>1. PICK old : old = commerceTxn[t]
    OBVIOUS
  <2>2. next = [old EXCEPT !.held = @ \cup {l}] /\ next \in Session /\ next.cmd = c /\ next.held = held \cup {l}
    BY <1>1, <1>5, <1>6, <1>7, <2>1 DEF Session
  <2>3. commerceTxn' = [commerceTxn EXCEPT ![t] = next]
    BY <1>2, <2>1, <2>2 DEF Locked, ActivationInv, CommerceTypes
  <2> QED
    BY <2>2, <2>3
<1>9. \A u \in Txns \ {t} : next.held \cap commerceTxn[u].held = {}
  BY <1>1, <1>2, <1>8 DEF Free, ActivationInv, Exclusive
<1>10. KnowsRequest(c, held) /\ KnowsAgreement(c, held) /\ KnowsOthers(t, c, held)
  BY <1>1 DEF ActivationInv, Knows
<1>11. PICK r : r = c.request
  OBVIOUS
<1>12. KnowsAgreement(c, held \cup {l})
  <2>1. l = AgreementRow(r) => l[1] = "agreement"
    BY LockKinds
  <2> QED
    BY <1>2, <1>10, <1>11, <2>1 DEF CommerceAdmits, KnowsAgreement
<1>13. KnowsRequest(c, held \cup {l})
  <2>1. l = RequestRow(r) => l[1] = "request"
    BY LockKinds
  <2>2. c.op = "complete" /\ l = RequestRow(r) => AgreementRow(r) \in held
    <3>1. SUFFICES ASSUME c.op = "complete", l = RequestRow(r), AgreementRow(r) \notin held PROVE FALSE
      OBVIOUS
    <3>2. AgreementRow(r) \in CommerceMissing(t)
      BY <1>1, <1>4, <1>11, <3>1, LocksByOperation DEF CommerceMissing
    <3>3. CommerceOrder(c) = [invitation |-> 1, agreement |-> 2, request |-> 3, identity |-> 4]
      BY <3>1 DEF CommerceOrder
    <3>4. CommerceOrder(c)[l[1]] = 3 /\ CommerceOrder(c)[AgreementRow(r)[1]] = 2
      BY <3>1, <3>3, LockKinds
    <3> QED
      BY <1>3, <3>2, <3>4
  <2> QED
    BY <1>2, <1>10, <1>11, <2>1, <2>2 DEF CommerceAdmits, KnowsRequest
<1>14. KnowsOthers(t, c, held \cup {l})
  <2>1. /\ l = CooldownOf(r) => l[1] = "cooldown"
        /\ l = PriceShared(t) => l[1] = "price"
        /\ l = IdentityOf(r) => l[1] = "identity"
    BY LockKinds
  <2> QED
    BY <1>2, <1>10, <1>11, <2>1 DEF CommerceAdmits, KnowsOthers, CurrentQuote
<1>15. /\ KnowsRequest(next.cmd, next.held) /\ KnowsAgreement(next.cmd, next.held)
       /\ KnowsOthers(t, next.cmd, next.held)
  BY <1>8, <1>12, <1>13, <1>14
<1> QED
  BY <1>2, <1>8, <1>9, <1>15, QuietSteps
(* What a command writes of one request and its agreement.                  *)
LEMMA WriteSteps ==
  ASSUME ActivationInv, NEW t \in Txns, commerceTxn' = [commerceTxn EXCEPT ![t] = NotInTxn],
         NEW r \in Requests, NEW a \in Finalized \cup {Unfinalized}, NEW q \in RequestRows,
         NEW held, held = commerceTxn[t].held,
         agreements' = [agreements EXCEPT ![r] = a], requests' = [requests EXCEPT ![r] = q], price' = price,
         a # Unfinalized => \A x, y \in a.payments : x.key = y.key => x = y,
         Once(a, q.status),
         q = requests[r] \/ requests[r] = Unsubmitted \/ RequestRow(r) \in held,
         \/ a = agreements[r]
         \/ agreements[r] = Unfinalized /\ RequestRow(r) \in held
         \/ agreements[r] # Unfinalized /\ AgreementRow(r) \in held,
         requests[r] # Unsubmitted => q # Unsubmitted,
         agreements[r] # Unfinalized => a # Unfinalized,
         Len(agreements[r].invitations) <= Len(a.invitations),
         \/ recent' = recent
         \/ /\ recent' = recent \cup {r} /\ CooldownOf(r) \in held
            /\ \A s \in recent : PhoneOf[s] # PhoneOf[r],
         \/ users' = users /\ (q.status = "activated" => requests[r].status = "activated")
         \/ users' = users \cup {PhoneOf[r]} /\ IdentityOf(r) \in held /\ PhoneOf[r] \notin users
  PROVE  ActivationInv'
<1>1. /\ agreements'[r] = a /\ requests'[r] = q
      /\ \A s \in Requests \ {r} : requests'[s] = requests[s] /\ agreements'[s] = agreements[s]
  BY DEF ActivationInv, CommerceTypes, ActivationTypeOK
<1>2. CommerceTypes'
  <2>1. /\ agreements' \in [Requests -> Finalized \cup {Unfinalized}]
        /\ requests' \in [Requests -> RequestRows]
    BY DEF ActivationInv, CommerceTypes, ActivationTypeOK, RequestRows
  <2>2. commerceTxn' \in [Txns -> Session]
    BY DEF ActivationInv, CommerceTypes, Session
  <2>3. \A u \in Txns : commerceTxn'[u] = NotInTxn \/ commerceTxn'[u].cmd \in ActivationCmd
    BY <2>2 DEF Session
  <2>4. recent' \subseteq Requests /\ users' \subseteq Phones /\ price' \in 0 .. MaxPrices
    BY DEF ActivationInv, CommerceTypes, ActivationTypeOK, Phones
  <2>5. ASSUME NEW s \in Requests, agreements'[s] # Unfinalized
        PROVE  /\ agreements'[s].status \in {"awaiting_payment", "paid", "onboarding_pending", "activated"}
               /\ agreements'[s].total \in AgreedTotals
               /\ agreements'[s].payments \subseteq AgreementPayment
               /\ \A x, y \in agreements'[s].payments : x.key = y.key => x = y
               /\ agreements'[s].invitations \in BoundedSeq({"live", "revoked", "consumed"}, MaxInvitations)
    <3>1. agreements'[s] \in Finalized
      BY <2>1, <2>5
    <3>2. \A x, y \in agreements'[s].payments : x.key = y.key => x = y
      BY <1>1, <2>5 DEF ActivationInv, CommerceTypes, ActivationTypeOK
    <3> QED
      BY <3>1, <3>2 DEF Finalized, Invitations
  <2> QED
    BY <2>1, <2>2, <2>3, <2>4, <2>5 DEF CommerceTypes, ActivationTypeOK, RequestRows
<1>3. Exclusive' /\ \A u \in Txns : Knows(u)'
  <2>1. DOMAIN agreements[r].invitations \subseteq DOMAIN agreements'[r].invitations
    <3>1. agreements[r] \in Finalized \cup {Unfinalized}
      BY DEF ActivationInv, CommerceTypes
    <3> QED
      BY <1>1, <3>1, AgreementRows
  <2>2. recent' \subseteq recent \/ (recent' \subseteq recent \cup {r} /\ CooldownOf(r) \in held)
    OBVIOUS
  <2>3. users' \subseteq users \/ (users' \subseteq users \cup {PhoneOf[r]} /\ IdentityOf(r) \in held)
    OBVIOUS
  <2> QED
    BY <1>1, <1>2, <2>1, <2>2, <2>3, CommitSteps
<1>4. \A s \in Requests : Once(agreements'[s], requests'[s].status)
  BY <1>1 DEF ActivationInv
<1>5. OwnersAreUsers' /\ OwnersAreDistinct'
  BY <1>1 DEF ActivationInv, OwnersAreUsers, OwnersAreDistinct
<1>6. OneRequestPerCooldown'
  BY DEF ActivationInv, OneRequestPerCooldown
<1> QED
  BY <1>2, <1>3, <1>4, <1>5, <1>6 DEF ActivationInv, Once, Used

LEMMA RequestCommits ==
  ASSUME ActivationInv, NEW t \in Txns, Submit(t) \/ Review(t) \/ FinalizeAgreement(t)
  PROVE  ActivationInv'
<1> DEFINE c == commerceTxn[t].cmd
<1>1. PICK op \in {"submit", "review", "finalize"} : Commits(t, op)
  BY DEF Submit, Review, FinalizeAgreement
<1>2. /\ c \in ActivationCmd /\ c.op = op /\ CommerceLocks(t, c) \subseteq commerceTxn[t].held
      /\ commerceTxn' = [commerceTxn EXCEPT ![t] = NotInTxn] /\ c.request \in Requests /\ Knows(t)
  BY <1>1, CommitHolds
<1>3. PICK r, a, q, held : /\ r = c.request /\ a = agreements[r] /\ q = requests[r]
                           /\ held = commerceTxn[t].held
  OBVIOUS
<1>4. /\ r \in Requests /\ a \in Finalized \cup {Unfinalized} /\ q \in RequestRows /\ Once(a, q.status)
      /\ a # Unfinalized => \A x, y \in a.payments : x.key = y.key => x = y
      /\ agreements = [agreements EXCEPT ![r] = a] /\ requests = [requests EXCEPT ![r] = q]
      /\ Len(a.invitations) <= Len(a.invitations)
  BY <1>2, <1>3, AgreementRows DEF ActivationInv, CommerceTypes, ActivationTypeOK, RequestRows
<1>5. CASE Submit(t)
  <2>1. PICK new : new = [status |-> "pending", quote |-> c.quote]
    OBVIOUS
  <2>2. c.op = "submit" /\ c \in SubmitCmd
    BY <1>2, <1>5, CommandsByOperation DEF Submit, Commits
  <2>3. new \in RequestRows /\ new # Unsubmitted /\ new.status = "pending"
    BY <2>1, <2>2 DEF SubmitCmd, RequestRows, Reviews, Unsubmitted
  <2>4. CooldownOf(r) \in held /\ \A s \in recent : PhoneOf[s] # PhoneOf[r]
    BY <1>2, <1>3, <2>2, LocksByOperation DEF Knows, KnowsOthers
  <2>5. /\ q = Unsubmitted /\ requests' = [requests EXCEPT ![r] = new] /\ recent' = recent \cup {r}
        /\ UNCHANGED <<price, agreements, users>>
    BY <1>3, <1>5, <2>1 DEF Submit
  <2>6. Once(a, new.status)
    BY <1>4, <2>3, <2>5 DEF Once, Unsubmitted
  <2> QED
    BY <1>2, <1>3, <1>4, <2>3, <2>4, <2>5, <2>6, WriteSteps
<1>6. CASE Review(t)
  <2>1. c.op = "review" /\ c \in ReviewCmd
    BY <1>2, <1>6, CommandsByOperation DEF Review, Commits
  <2>2. RequestRow(r) \in held /\ q # Unsubmitted /\ c.to \in Reviews[q.status]
    BY <1>2, <1>3, <2>1, LocksByOperation DEF Knows, KnowsRequest
  <2>3. PICK new : new = [q EXCEPT !.status = c.to]
    OBVIOUS
  <2>4. /\ requests' = [requests EXCEPT ![r] = new]
        /\ UNCHANGED <<price, recent, agreements, users>>
    BY <1>3, <1>6, <2>3 DEF Review, ActivationInv, CommerceTypes, ActivationTypeOK
  <2>5. c.to \in {"contacted", "approved", "rejected"} /\ q.status \in {"pending", "contacted"}
    BY <1>4, <2>2, RequestsByStatus
  <2>6. new \in RequestRows /\ new # Unsubmitted /\ new.status = c.to
    BY <1>4, <2>2, <2>3, <2>5, RequestsByStatus DEF RequestRows, Reviews, Unsubmitted
  <2>7. Once(a, new.status)
    BY <1>4, <2>5, <2>6 DEF Once
  <2> QED
    BY <1>2, <1>3, <1>4, <2>2, <2>4, <2>5, <2>6, <2>7, WriteSteps
<1>7. CASE FinalizeAgreement(t)
  <2>1. c.op = "finalize" /\ c \in FinalizeCmd
    BY <1>2, <1>7, CommandsByOperation DEF FinalizeAgreement, Commits
  <2>2. RequestRow(r) \in held /\ q.status = "approved" /\ a = Unfinalized
    BY <1>2, <1>3, <2>1, LocksByOperation DEF Knows, KnowsRequest
  <2>3. PICK new : new = [status |-> SettledStatus(c.total, {}), total |-> c.total, payments |-> {},
                          invitations |-> <<>>]
    OBVIOUS
  <2>4. SettledStatus(c.total, {}) \in {"awaiting_payment", "paid"}
    BY DEF SettledStatus
  <2>5. <<>> \in Invitations
    BY NoInvitations
  <2>6. /\ new \in Finalized /\ new # Unfinalized /\ new.status # "activated"
        /\ new.payments = {} /\ new.invitations = <<>>
    <3>1. c.total \in AgreedTotals
      BY <2>1 DEF FinalizeCmd
    <3>2. PICK status \in {"awaiting_payment", "paid"} : status = SettledStatus(c.total, {})
      BY <2>4
    <3>3. new = [status |-> status, total |-> c.total, payments |-> {}, invitations |-> <<>>]
      BY <2>3, <3>2
    <3>4. new \in Finalized
      BY <2>5, <3>1, <3>3 DEF Finalized
    <3>5. new.status = status /\ new.payments = {} /\ new.invitations = <<>>
      BY <3>3
    <3> QED
      BY <3>4, <3>5 DEF Unfinalized
  <2>7. /\ agreements' = [agreements EXCEPT ![r] = new]
        /\ UNCHANGED <<price, recent, requests, users>>
    BY <1>3, <1>7, <2>3 DEF FinalizeAgreement
  <2>8. Once(new, q.status) /\ Len(a.invitations) <= Len(new.invitations)
    BY <2>2, <2>6 DEF Once, Used, Unfinalized
  <2>9. new # Unfinalized => \A x, y \in new.payments : x.key = y.key => x = y
    BY <2>6
  <2>10. requests' = [requests EXCEPT ![r] = q] /\ recent' = recent /\ users' = users /\ price' = price
    BY <1>4, <2>7
  <2>11. /\ r \in Requests /\ new \in Finalized \cup {Unfinalized} /\ q \in RequestRows
         /\ held = commerceTxn[t].held /\ commerceTxn' = [commerceTxn EXCEPT ![t] = NotInTxn]
         /\ agreements' = [agreements EXCEPT ![r] = new] /\ Once(new, q.status) /\ new # Unfinalized
         /\ agreements[r] = Unfinalized /\ RequestRow(r) \in held
         /\ Len(agreements[r].invitations) <= Len(new.invitations) /\ q = requests[r]
         /\ q.status = "activated" => requests[r].status = "activated"
         /\ requests[r] # Unsubmitted => q # Unsubmitted
    BY <1>2, <1>3, <1>4, <2>2, <2>6, <2>7, <2>8
  <2> HIDE DEF c
  <2> QED
    BY <2>9, <2>10, <2>11, WriteSteps
<1> QED
  BY <1>5, <1>6, <1>7

(* What a command that has locked a finalized agreement finds.              *)
LEMMA AgreementsFound ==
  ASSUME ActivationInv, NEW t \in Txns, NEW op \in {"pay", "void", "invite", "revoke", "complete"}, Commits(t, op),
         NEW c, c = commerceTxn[t].cmd, NEW r, r = c.request, NEW a, a = agreements[r],
         NEW q, q = requests[r], NEW held, held = commerceTxn[t].held
  PROVE  /\ c \in ActivationCmd /\ c.op = op /\ CommerceLocks(t, c) \subseteq held
         /\ commerceTxn' = [commerceTxn EXCEPT ![t] = NotInTxn]
         /\ AgreementRow(r) \in held /\ r \in Requests
         /\ KnowsRequest(c, held) /\ KnowsAgreement(c, held) /\ KnowsOthers(t, c, held)
         /\ a \in Finalized /\ a # Unfinalized /\ agreements[r] # Unfinalized /\ q \in RequestRows /\ Once(a, q.status)
         /\ \A x, y \in a.payments : x.key = y.key => x = y
         /\ a.invitations \in Invitations /\ a.invitations \in Seq({"live", "revoked", "consumed"})
         /\ Len(a.invitations) \in Nat /\ DOMAIN a.invitations = 1 .. Len(a.invitations)
<1>1. /\ c \in ActivationCmd /\ c.op = op /\ CommerceLocks(t, c) \subseteq held
      /\ commerceTxn' = [commerceTxn EXCEPT ![t] = NotInTxn] /\ r \in Requests /\ Knows(t)
  BY CommitHolds
<1>2. AgreementRow(r) \in held
  BY <1>1, LocksByOperation
<1>3. KnowsRequest(c, held) /\ KnowsAgreement(c, held) /\ KnowsOthers(t, c, held)
  BY <1>1 DEF Knows
<1>4. a # Unfinalized
  BY <1>1, <1>3 DEF KnowsAgreement
<1>5. a \in Finalized /\ q \in RequestRows /\ Once(a, q.status) /\ \A x, y \in a.payments : x.key = y.key => x = y
  BY <1>1, <1>4 DEF ActivationInv, CommerceTypes, ActivationTypeOK, RequestRows
<1>6. a.invitations \in Invitations
  BY <1>5 DEF Finalized
<1> QED
  BY <1>1, <1>2, <1>3, <1>4, <1>5, <1>6, AgreementRows

LEMMA PaymentSteps ==
  ASSUME ActivationInv, NEW t \in Txns, NEW op \in {"pay", "void"}, Commits(t, op),
         NEW r, r = commerceTxn[t].cmd.request, NEW P \in SUBSET AgreementPayment,
         \A x, y \in P : x.key = y.key => x = y,
         SetPayments(r, P), UNCHANGED <<price, requests, recent, users>>
  PROVE  ActivationInv'
<1>1. PICK c, a, q, held : c = commerceTxn[t].cmd /\ a = agreements[r] /\ q = requests[r] /\ held = commerceTxn[t].held
  OBVIOUS
<1>2. /\ c.op = op /\ r \in Requests /\ a \in Finalized /\ a # Unfinalized /\ q \in RequestRows
      /\ AgreementRow(r) \in held /\ KnowsAgreement(c, held) /\ Once(a, q.status)
      /\ commerceTxn' = [commerceTxn EXCEPT ![t] = NotInTxn] /\ Len(a.invitations) \in Nat
  BY <1>1, AgreementsFound
<1>3. PICK status : status = SettledStatus(a.total, P)
  OBVIOUS
<1>4. status \in {"paid", "awaiting_payment"}
  BY <1>3 DEF SettledStatus
<1>5. a.status \in {"awaiting_payment", "paid"}
  BY <1>1, <1>2 DEF KnowsAgreement, AcceptsPayments
<1>6. PICK new : new = [a EXCEPT !.payments = P, !.status = status]
  OBVIOUS
<1>7. /\ new \in Finalized /\ new.payments = P /\ new.status = status /\ new.invitations = a.invitations
  BY <1>2, <1>4, <1>6 DEF Finalized
<1>8. new # Unfinalized /\ Once(new, q.status)
  BY <1>2, <1>4, <1>5, <1>7 DEF Once, Used, Unfinalized
<1>9. agreements' = [agreements EXCEPT ![r] = new]
  BY <1>1, <1>2, <1>3, <1>6 DEF SetPayments, ActivationInv, CommerceTypes
<1>10. requests' = [requests EXCEPT ![r] = q]
  BY <1>1, <1>2 DEF ActivationInv, CommerceTypes, ActivationTypeOK
<1>11. new # Unfinalized => \A x, y \in new.payments : x.key = y.key => x = y
  BY <1>7
<1>12. /\ agreements[r] # Unfinalized /\ AgreementRow(r) \in held /\ held = commerceTxn[t].held
       /\ Len(agreements[r].invitations) <= Len(new.invitations)
       /\ q = requests[r] /\ recent' = recent /\ users' = users /\ price' = price
       /\ commerceTxn' = [commerceTxn EXCEPT ![t] = NotInTxn]
       /\ r \in Requests /\ q \in RequestRows /\ new \in Finalized \cup {Unfinalized}
  BY <1>1, <1>2, <1>7
<1> QED
  BY <1>8, <1>9, <1>10, <1>11, <1>12, WriteSteps

LEMMA PaymentCommits ==
  ASSUME ActivationInv, NEW t \in Txns, RecordAgreementPayment(t) \/ VoidAgreementPayment(t)
  PROVE  ActivationInv'
<1>1. PICK c, r, a, q, held : /\ c = commerceTxn[t].cmd /\ r = c.request /\ a = agreements[r] /\ q = requests[r]
                              /\ held = commerceTxn[t].held
  OBVIOUS
<1>2. CASE RecordAgreementPayment(t)
  <2>1. Commits(t, "pay")
    BY <1>2 DEF RecordAgreementPayment
  <2>2. /\ c.op = "pay" /\ c \in ActivationCmd /\ a \in Finalized /\ KnowsAgreement(c, held) /\ AgreementRow(r) \in held
        /\ \A x, y \in a.payments : x.key = y.key => x = y
    BY <1>1, <2>1, AgreementsFound
  <2>3. c \in PayCmd
    BY <2>2, CommandsByOperation
  <2>4. PICK p : p = [key |-> c.key, amount |-> c.amount, status |-> "confirmed"]
    OBVIOUS
  <2>5. p \in AgreementPayment /\ p.key = c.key /\ \A x \in a.payments : x.key # c.key
    BY <1>1, <2>2, <2>3, <2>4 DEF PayCmd, AgreementPayment, KnowsAgreement
  <2>6. PICK P : P = a.payments \cup {p}
    OBVIOUS
  <2>7. P \in SUBSET AgreementPayment /\ \A x, y \in P : x.key = y.key => x = y
    BY <2>2, <2>5, <2>6 DEF Finalized
  <2>8. SetPayments(r, P) /\ UNCHANGED <<price, requests, recent, users>>
    BY <1>1, <1>2, <2>4, <2>6 DEF RecordAgreementPayment
  <2> QED
    BY <1>1, <2>1, <2>7, <2>8, PaymentSteps
<1>3. CASE VoidAgreementPayment(t)
  <2>1. Commits(t, "void")
    BY <1>3 DEF VoidAgreementPayment
  <2>2. /\ c.op = "void" /\ c \in ActivationCmd /\ a \in Finalized /\ KnowsAgreement(c, held) /\ AgreementRow(r) \in held
        /\ \A x, y \in a.payments : x.key = y.key => x = y
    BY <1>1, <2>1, AgreementsFound
  <2>3. c.payment \in AgreementPayment /\ c.payment \in a.payments
    BY <1>1, <2>2, CommandsByOperation DEF VoidCmd, KnowsAgreement
  <2>4. PICK p : p = [c.payment EXCEPT !.status = "void"]
    OBVIOUS
  <2>5. p \in AgreementPayment /\ p.key = c.payment.key
    BY <2>3, <2>4 DEF AgreementPayment
  <2>6. PICK P : P = (a.payments \ {c.payment}) \cup {p}
    OBVIOUS
  <2>7. P \in SUBSET AgreementPayment /\ \A x, y \in P : x.key = y.key => x = y
    BY <2>2, <2>3, <2>5, <2>6 DEF Finalized
  <2>8. SetPayments(r, P) /\ UNCHANGED <<price, requests, recent, users>>
    BY <1>1, <1>3, <2>4, <2>6 DEF VoidAgreementPayment
  <2> QED
    BY <1>1, <2>1, <2>7, <2>8, PaymentSteps
<1> QED
  BY <1>2, <1>3

LEMMA InvitationCommits ==
  ASSUME ActivationInv, NEW t \in Txns, CreateInvitation(t) \/ RevokeInvitation(t)
  PROVE  ActivationInv'
<1>1. PICK c, r, a, q, held : /\ c = commerceTxn[t].cmd /\ r = c.request /\ a = agreements[r] /\ q = requests[r]
                              /\ held = commerceTxn[t].held
  OBVIOUS
<1>2. PICK op \in {"invite", "revoke"} : Commits(t, op)
  BY DEF CreateInvitation, RevokeInvitation
<1>3. /\ c.op = op /\ r \in Requests /\ a \in Finalized /\ a # Unfinalized /\ q \in RequestRows
      /\ AgreementRow(r) \in held /\ KnowsAgreement(c, held) /\ Once(a, q.status)
      /\ \A x, y \in a.payments : x.key = y.key => x = y
      /\ commerceTxn' = [commerceTxn EXCEPT ![t] = NotInTxn]
      /\ a.invitations \in Invitations /\ a.invitations \in Seq({"live", "revoked", "consumed"})
      /\ Len(a.invitations) \in Nat /\ DOMAIN a.invitations = 1 .. Len(a.invitations)
  BY <1>1, <1>2, AgreementsFound
<1>4. PICK was : was = a.invitations
  OBVIOUS
<1>5. ASSUME NEW status \in {"paid", "onboarding_pending"}, NEW list \in Invitations, Len(was) <= Len(list),
             NEW new, new = [a EXCEPT !.status = status, !.invitations = list],
             agreements' = [agreements EXCEPT ![r] = new], UNCHANGED <<price, requests, recent, users>>,
             a.status # "activated",
             \A n \in DOMAIN list : list[n] # "consumed" /\ (list[n] = "live" => n = Len(list))
      PROVE  ActivationInv'
  <2>1. new \in Finalized /\ new.status = status /\ new.invitations = list /\ new.payments = a.payments
    BY <1>3, <1>5 DEF Finalized
  <2>2. new # Unfinalized /\ Once(new, q.status)
    BY <1>3, <1>5, <2>1 DEF Once, Used, Unfinalized
  <2>3. requests' = [requests EXCEPT ![r] = q]
    BY <1>1, <1>3, <1>5 DEF ActivationInv, CommerceTypes, ActivationTypeOK
  <2>4. new # Unfinalized => \A x, y \in new.payments : x.key = y.key => x = y
    BY <1>3, <2>1
  <2>5. /\ agreements[r] # Unfinalized /\ AgreementRow(r) \in held /\ held = commerceTxn[t].held
        /\ Len(agreements[r].invitations) <= Len(new.invitations)
        /\ q = requests[r] /\ recent' = recent /\ users' = users /\ price' = price
        /\ commerceTxn' = [commerceTxn EXCEPT ![t] = NotInTxn]
        /\ r \in Requests /\ q \in RequestRows /\ new \in Finalized \cup {Unfinalized}
        /\ agreements' = [agreements EXCEPT ![r] = new]
    BY <1>1, <1>3, <1>4, <1>5, <2>1
  <2> QED
    BY <2>2, <2>3, <2>4, <2>5, WriteSteps
<1>6. CASE CreateInvitation(t)
  <2>1. c.op = "invite" /\ a.status \in {"paid", "onboarding_pending"}
    BY <1>1, <1>2, <1>3, <1>6 DEF CreateInvitation, Commits, KnowsAgreement
  <2>2. PICK live : live = LiveInvitation(a)
    OBVIOUS
  <2>3. PICK kept : kept = [n \in DOMAIN was |-> IF n \in live THEN "revoked" ELSE was[n]]
    OBVIOUS
  <2>4. kept \in Seq({"live", "revoked", "consumed"}) /\ Len(kept) = Len(was)
    BY <1>3, <1>4, <2>3
  <2>5. PICK list : list = Append(kept, "live")
    OBVIOUS
  <2>6. /\ list \in Seq({"live", "revoked", "consumed"}) /\ Len(list) = Len(was) + 1
        /\ \A n \in 1 .. Len(was) : list[n] = kept[n]
        /\ list[Len(list)] = "live" /\ DOMAIN list = 1 .. Len(was) + 1
    BY <1>3, <1>4, <2>4, <2>5
  <2>7. Len(was) < MaxInvitations /\ MaxInvitations \in Nat
    BY <1>1, <1>4, <1>6, ActivationAssumption DEF CreateInvitation
  <2>8. list \in Invitations /\ Len(was) <= Len(list)
    BY <1>3, <1>4, <2>6, <2>7, InvitationLists
  <2>9. ASSUME NEW n \in DOMAIN list PROVE list[n] # "consumed" /\ (list[n] = "live" => n = Len(list))
    <3>1. CASE n = Len(was) + 1
      BY <2>6, <3>1
    <3>2. CASE n \in 1 .. Len(was)
      <4>1. list[n] = IF n \in live THEN "revoked" ELSE was[n]
        BY <1>3, <1>4, <2>3, <2>6, <3>2
      <4>2. was[n] # "consumed"
        BY <1>3, <1>4, <2>1, <3>2 DEF Once, Used
      <4>3. was[n] = "live" => n \in live
        <5>1. was[n] = "live" => n = Len(was)
          BY <1>3, <1>4, <3>2 DEF Once
        <5>2. was # <<>>
          BY <1>3, <1>4, <3>2
        <5> QED
          BY <1>4, <2>2, <5>1, <5>2 DEF LiveInvitation, Last
      <4> QED
        BY <4>1, <4>2, <4>3
    <3> QED
      BY <1>3, <1>4, <2>6, <2>9, <3>1, <3>2
  <2>10. PICK new : new = [a EXCEPT !.status = "onboarding_pending", !.invitations = list]
    OBVIOUS
  <2>11. agreements' = [agreements EXCEPT ![r] = new] /\ UNCHANGED <<price, requests, recent, users>>
    BY <1>1, <1>3, <1>4, <1>6, <2>2, <2>3, <2>5, <2>10 DEF CreateInvitation, ActivationInv, CommerceTypes
  <2> QED
    BY <1>5, <2>1, <2>8, <2>9, <2>10, <2>11
<1>7. CASE RevokeInvitation(t)
  <2>1. c.op = "revoke" /\ Honours(a, c.nth) /\ c.nth \in DOMAIN was
    BY <1>1, <1>2, <1>3, <1>4, <1>7 DEF RevokeInvitation, Commits, KnowsAgreement
  <2>2. PICK list : list = [was EXCEPT ![c.nth] = "revoked"]
    OBVIOUS
  <2>3. list \in Seq({"live", "revoked", "consumed"}) /\ Len(list) = Len(was)
    BY <1>3, <1>4, <2>1, <2>2
  <2>4. list \in Invitations /\ Len(was) <= Len(list)
    BY <1>3, <1>4, <2>3, InvitationLists
  <2>5. \A n \in DOMAIN list : list[n] # "consumed" /\ (list[n] = "live" => n = Len(list))
    BY <1>3, <1>4, <2>1, <2>2, <2>3 DEF Once, Used, Honours
  <2>6. PICK new : new = [a EXCEPT !.status = "paid", !.invitations = list]
    OBVIOUS
  <2>7. agreements' = [agreements EXCEPT ![r] = new] /\ UNCHANGED <<price, requests, recent, users>>
    BY <1>1, <1>3, <1>4, <1>7, <2>2, <2>6 DEF RevokeInvitation, ActivationInv, CommerceTypes, Finalized
  <2> QED
    BY <1>5, <2>1, <2>4, <2>5, <2>6, <2>7 DEF Honours
<1> QED
  BY <1>6, <1>7

LEMMA OnboardingCommits ==
  ASSUME ActivationInv, NEW t \in Txns, CompleteOnboarding(t) PROVE ActivationInv'
<1>1. PICK c, r, a, q, held : /\ c = commerceTxn[t].cmd /\ r = c.request /\ a = agreements[r] /\ q = requests[r]
                              /\ held = commerceTxn[t].held
  OBVIOUS
<1>2. PICK op \in {"pay", "void", "invite", "revoke", "complete"} : op = "complete" /\ Commits(t, op)
  BY DEF CompleteOnboarding
<1>3. /\ c.op = "complete" /\ r \in Requests /\ a \in Finalized /\ a # Unfinalized /\ q \in RequestRows
      /\ KnowsRequest(c, held) /\ KnowsAgreement(c, held) /\ KnowsOthers(t, c, held) /\ Once(a, q.status)
      /\ \A x, y \in a.payments : x.key = y.key => x = y
      /\ AgreementRow(r) \in held /\ CommerceLocks(t, c) \subseteq held /\ c \in ActivationCmd
      /\ commerceTxn' = [commerceTxn EXCEPT ![t] = NotInTxn]
      /\ a.invitations \in Invitations /\ a.invitations \in Seq({"live", "revoked", "consumed"})
      /\ Len(a.invitations) \in Nat /\ DOMAIN a.invitations = 1 .. Len(a.invitations)
  <2>1. /\ c.op = op /\ c \in ActivationCmd /\ r \in Requests
        /\ commerceTxn' = [commerceTxn EXCEPT ![t] = NotInTxn] /\ AgreementRow(r) \in held
    BY <1>1, <1>2, AgreementsFound
  <2>5. CommerceLocks(t, c) \subseteq held
    BY <1>1, <1>2, CommitHolds
  <2>2. KnowsRequest(c, held) /\ KnowsAgreement(c, held) /\ KnowsOthers(t, c, held)
    BY <1>1, <1>2, AgreementsFound
  <2>3. /\ a \in Finalized /\ a # Unfinalized /\ q \in RequestRows /\ Once(a, q.status)
        /\ \A x, y \in a.payments : x.key = y.key => x = y
    BY <1>1, <1>2, AgreementsFound
  <2>4. /\ a.invitations \in Invitations /\ a.invitations \in Seq({"live", "revoked", "consumed"})
        /\ Len(a.invitations) \in Nat /\ DOMAIN a.invitations = 1 .. Len(a.invitations)
    BY <1>1, <1>2, AgreementsFound
  <2> QED
    BY <1>2, <2>1, <2>2, <2>3, <2>4, <2>5
<1>4. RequestRow(r) \in held /\ IdentityOf(r) \in held
  BY <1>1, <1>3, LocksByOperation
<1>5. /\ q.status = "approved" /\ Honours(a, c.nth) /\ c.nth \in DOMAIN a.invitations /\ PhoneOf[r] \notin users
  BY <1>1, <1>3, <1>4 DEF KnowsRequest, KnowsAgreement, KnowsOthers
<1>6. PICK list : list = [a.invitations EXCEPT ![c.nth] = "consumed"]
  OBVIOUS
<1>7. /\ list \in Seq({"live", "revoked", "consumed"}) /\ Len(list) = Len(a.invitations)
      /\ list \in Invitations /\ DOMAIN list = 1 .. Len(list)
  <2>1. list \in Seq({"live", "revoked", "consumed"}) /\ Len(list) = Len(a.invitations)
    BY <1>3, <1>5, <1>6
  <2> QED
    BY <1>3, <2>1, InvitationLists
<1>8. /\ c.nth = Len(list) /\ \A n \in DOMAIN list : list[n] # "live" /\ (list[n] = "consumed" <=> n = Len(list))
  BY <1>3, <1>5, <1>6, <1>7 DEF Once, Used, Honours
<1>9. PICK new : new = [a EXCEPT !.status = "activated", !.invitations = list]
  OBVIOUS
<1>10. PICK done : done = [q EXCEPT !.status = "activated"]
  OBVIOUS
<1>11. /\ new \in Finalized /\ new.status = "activated" /\ new.invitations = list /\ new.payments = a.payments
  BY <1>3, <1>7, <1>9 DEF Finalized
<1>12. done \in RequestRows /\ done # Unsubmitted /\ done.status = "activated"
  BY <1>3, <1>5, <1>10, RequestsByStatus DEF RequestRows, Unsubmitted, Reviews
<1>13. new # Unfinalized /\ Once(new, done.status)
  <2>1. Used(new) = {Len(list)}
    BY <1>3, <1>5, <1>7, <1>8, <1>11 DEF Used
  <2> QED
    BY <1>8, <1>11, <1>12, <2>1 DEF Once, Unfinalized
<1>14. agreements' = [agreements EXCEPT ![r] = new]
  BY <1>1, <1>3, <1>6, <1>9 DEF CompleteOnboarding, ActivationInv, CommerceTypes, Finalized
<1>15. requests' = [requests EXCEPT ![r] = done]
  BY <1>1, <1>3, <1>10 DEF CompleteOnboarding, ActivationInv, CommerceTypes, ActivationTypeOK
<1>16. new # Unfinalized => \A x, y \in new.payments : x.key = y.key => x = y
  BY <1>3, <1>11
<1>17. recent' = recent /\ users' = users \cup {PhoneOf[r]} /\ price' = price
  BY <1>1 DEF CompleteOnboarding
<1>18. /\ agreements[r] # Unfinalized /\ AgreementRow(r) \in held /\ RequestRow(r) \in held
       /\ IdentityOf(r) \in held /\ PhoneOf[r] \notin users /\ held = commerceTxn[t].held
       /\ commerceTxn' = [commerceTxn EXCEPT ![t] = NotInTxn]
       /\ r \in Requests /\ new \in Finalized \cup {Unfinalized} /\ done \in RequestRows
  BY <1>1, <1>3, <1>4, <1>5, <1>11, <1>12
<1>19. Len(agreements[r].invitations) <= Len(new.invitations)
  <2>1. agreements[r] = a
    BY <1>1
  <2>2. new.invitations = list
    BY <1>11
  <2>3. Len(list) = Len(a.invitations) /\ Len(a.invitations) \in Nat
    BY <1>3, <1>7
  <2> QED
    BY <2>1, <2>2, <2>3
<1> QED
  BY <1>12, <1>13, <1>14, <1>15, <1>16, <1>17, <1>18, <1>19, WriteSteps

-----------------------------------------------------------------------------
LEMMA BeginningSteps ==
  ASSUME ActivationInv, NEW t \in Txns, NEW r \in Requests,
         VisitorBegins(t, r) \/ ReviewBegins(t, r) \/ OperatorBegins(t, r) \/ HolderBegins(t, r)
  PROVE  ActivationInv'
<1>1. /\ price \in 0 .. MaxPrices /\ requests[r] \in RequestRows
      /\ agreements[r] \in Finalized \cup {Unfinalized}
  BY DEF ActivationInv, CommerceTypes, ActivationTypeOK, RequestRows
<1>2. CASE VisitorBegins(t, r)
  <2>1. PICK c : c = [op |-> "submit", request |-> r, quote |-> price]
    OBVIOUS
  <2>2. c \in ActivationCmd /\ c.op = "submit"
    BY <1>1, <2>1 DEF ActivationCmd, SubmitCmd
  <2>3. CommerceBegin(t, c)
    BY <1>2, <2>1 DEF VisitorBegins, CurrentQuote
  <2> QED
    BY <2>2, <2>3, BeginSteps
<1>3. CASE ReviewBegins(t, r)
  <2>1. PICK s \in Reviews[requests[r].status] :
          requests[r] # Unsubmitted /\ CommerceBegin(t, [op |-> "review", request |-> r, to |-> s])
    BY <1>3 DEF ReviewBegins
  <2>2. PICK c : c = [op |-> "review", request |-> r, to |-> s]
    OBVIOUS
  <2>3. s \in DOMAIN Reviews
    BY <1>1, <2>1, RequestsByStatus DEF Reviews
  <2>4. c \in ActivationCmd /\ c.op = "review" /\ c.request = r
    BY <2>2, <2>3 DEF ActivationCmd, ReviewCmd
  <2> QED
    BY <2>1, <2>2, <2>4, BeginSteps
<1>4. ASSUME NEW c \in ActivationCmd, c.op \in {"finalize", "pay", "void", "invite", "revoke", "complete"}, c.request = r,
             CommerceBegin(t, c), c.op # "finalize" => agreements[r] # Unfinalized,
             c.op \in {"revoke", "complete"} => c.nth \in DOMAIN agreements[r].invitations
      PROVE  ActivationInv'
  BY <1>4, BeginSteps
<1>5. ASSUME NEW n \in DOMAIN agreements[r].invitations PROVE n \in Nat /\ agreements[r] # Unfinalized
  BY <1>1, <1>5, AgreementRows DEF Unfinalized
<1>6. CASE OperatorBegins(t, r)
  <2>1. CASE \E n \in AgreedTotals : CommerceBegin(t, [op |-> "finalize", request |-> r, total |-> n])
    <3>1. PICK n \in AgreedTotals : CommerceBegin(t, [op |-> "finalize", request |-> r, total |-> n])
      BY <2>1
    <3>2. PICK c : c = [op |-> "finalize", request |-> r, total |-> n]
      OBVIOUS
    <3>3. c \in ActivationCmd /\ c.op = "finalize" /\ c.request = r /\ CommerceBegin(t, c)
      BY <3>1, <3>2 DEF ActivationCmd, FinalizeCmd
    <3> QED
      BY <1>4, <3>3
  <2>2. CASE agreements[r] # Unfinalized /\ \E k \in Keys, n \in PaidAmounts :
               CommerceBegin(t, [op |-> "pay", request |-> r, key |-> k, amount |-> n])
    <3>1. PICK k \in Keys, n \in PaidAmounts :
            CommerceBegin(t, [op |-> "pay", request |-> r, key |-> k, amount |-> n])
      BY <2>2
    <3>2. PICK c : c = [op |-> "pay", request |-> r, key |-> k, amount |-> n]
      OBVIOUS
    <3>3. c \in ActivationCmd /\ c.op = "pay" /\ c.request = r /\ CommerceBegin(t, c)
      BY <3>1, <3>2 DEF ActivationCmd, PayCmd
    <3> QED
      BY <1>4, <2>2, <3>3
  <2>3. CASE agreements[r] # Unfinalized /\ \E p \in {q \in agreements[r].payments : q.status = "confirmed"} :
               CommerceBegin(t, [op |-> "void", request |-> r, payment |-> p])
    <3>1. PICK p \in agreements[r].payments : CommerceBegin(t, [op |-> "void", request |-> r, payment |-> p])
      BY <2>3
    <3>2. PICK c : c = [op |-> "void", request |-> r, payment |-> p]
      OBVIOUS
    <3>3. p \in AgreementPayment
      BY <1>1, <2>3 DEF Finalized
    <3>4. c \in ActivationCmd /\ c.op = "void" /\ c.request = r /\ CommerceBegin(t, c)
      BY <3>1, <3>2, <3>3 DEF ActivationCmd, VoidCmd
    <3> QED
      BY <1>4, <2>3, <3>4
  <2>4. CASE agreements[r] # Unfinalized /\ CommerceBegin(t, [op |-> "invite", request |-> r, nth |-> 0])
    <3>1. PICK c : c = [op |-> "invite", request |-> r, nth |-> 0]
      OBVIOUS
    <3>2. c \in ActivationCmd /\ c.op = "invite" /\ c.request = r /\ CommerceBegin(t, c)
      BY <2>4, <3>1 DEF ActivationCmd, InvitationCmd
    <3> QED
      BY <1>4, <2>4, <3>2
  <2>5. CASE \E n \in DOMAIN agreements[r].invitations :
               CommerceBegin(t, [op |-> "revoke", request |-> r, nth |-> n])
    <3>1. PICK n \in DOMAIN agreements[r].invitations :
            CommerceBegin(t, [op |-> "revoke", request |-> r, nth |-> n])
      BY <2>5
    <3>2. PICK c : c = [op |-> "revoke", request |-> r, nth |-> n]
      OBVIOUS
    <3>3. c \in ActivationCmd /\ c.op = "revoke" /\ c.request = r /\ c.nth = n /\ CommerceBegin(t, c)
      BY <1>5, <3>1, <3>2 DEF ActivationCmd, InvitationCmd
    <3> QED
      BY <1>4, <1>5, <3>3
  <2> QED
    BY <1>6, <2>1, <2>2, <2>3, <2>4, <2>5 DEF OperatorBegins
<1>7. CASE HolderBegins(t, r)
  <2>1. PICK n \in DOMAIN agreements[r].invitations :
          CommerceBegin(t, [op |-> "complete", request |-> r, nth |-> n])
    BY <1>7 DEF HolderBegins
  <2>2. PICK c : c = [op |-> "complete", request |-> r, nth |-> n]
    OBVIOUS
  <2>3. c \in ActivationCmd /\ c.op = "complete" /\ c.request = r /\ c.nth = n /\ CommerceBegin(t, c)
    BY <1>5, <2>1, <2>2 DEF ActivationCmd, InvitationCmd
  <2> QED
    BY <1>4, <1>5, <2>3
<1> QED
  BY <1>2, <1>3, <1>6, <1>7

LEMMA AbortSteps == ASSUME ActivationInv, NEW t \in Txns, CommerceAbort(t) PROVE ActivationInv'
<1>1. PICK next : next = NotInTxn
  OBVIOUS
<1>2. /\ next \in Session /\ next.held = {} /\ commerceTxn' = [commerceTxn EXCEPT ![t] = next] /\ UNCHANGED commercial
  BY <1>1, Sessions DEF CommerceAbort, Ended, NotInTxn, ActivationInv
<1>3. PICK c : c = next.cmd
  OBVIOUS
<1>4. KnowsRequest(c, next.held) /\ KnowsAgreement(c, next.held) /\ KnowsOthers(t, c, next.held)
  BY <1>1, <1>3 DEF KnowsRequest, KnowsAgreement, KnowsOthers, NotInTxn
<1> QED
  BY <1>2, <1>3, <1>4, QuietSteps

(* The price list and the passing of time.                                  *)
LEMMA OutsideSteps ==
  ASSUME ActivationInv, UpsertPricing \/ (\E r \in Requests : CooldownEnds(r)) \/ UNCHANGED activationVars
  PROVE  ActivationInv'
<1>1. /\ UNCHANGED <<requests, agreements, users, commerceTxn>> /\ recent' \subseteq recent
      /\ price' \in 0 .. MaxPrices
      /\ \A t \in Txns : PriceShared(t) \in commerceTxn[t].held => price' = price
  BY ActivationAssumption
     DEF UpsertPricing, CooldownEnds, activationVars, commercial, ActivationInv, CommerceTypes, ActivationTypeOK
<1>2. CommerceTypes'
  BY <1>1 DEF ActivationInv, CommerceTypes, ActivationTypeOK
<1>3. ASSUME NEW t \in Txns PROVE Knows(t)'
  BY <1>1 DEF ActivationInv, Knows, KnowsRequest, KnowsAgreement, KnowsOthers
<1> QED
  BY <1>1, <1>2, <1>3 DEF ActivationInv, Exclusive, OwnersAreUsers, OwnersAreDistinct, OneRequestPerCooldown

LEMMA ActivationSteps == ActivationInv /\ [ActivationNext]_activationVars => ActivationInv'
<1> SUFFICES ASSUME ActivationInv, [ActivationNext]_activationVars PROVE ActivationInv'
  OBVIOUS
<1> QED
  BY OutsideSteps, BeginningSteps, LockSteps, AbortSteps, RequestCommits, PaymentCommits, InvitationCommits,
     OnboardingCommits DEF ActivationNext

(* Whatever visitors, operators and holders of invitations do at the same   *)
(* time, what each of them has found with its locks stays true until it     *)
(* writes, and the rows of requests, agreements and users agree.            *)
THEOREM ActivationKept == ActivationSpec => []ActivationInv
  BY ActivationBegins, ActivationSteps, PTL DEF ActivationSpec

(* Requests, agreements, payments and invitations have the form the tables  *)
(* demand, with one payment of a key.                                       *)
THEOREM CommerceTyped == ActivationSpec => []ActivationTypeOK
<1>1. ActivationInv => ActivationTypeOK
  BY DEF ActivationInv, CommerceTypes
<1> QED
  BY <1>1, ActivationKept, PTL

(* An invitation creates an organization once, and only the last one of its *)
(* agreement does.                                                          *)
THEOREM OneActivation == ActivationSpec => []ConsumedOnce
<1>1. ActivationInv => ConsumedOnce
  BY DEF ActivationInv, ConsumedOnce, Once, Used
<1> QED
  BY <1>1, ActivationKept, PTL

(* A phone owns one organization, and has one request in its cooldown.      *)
THEOREM OnePhone == ActivationSpec => [](OwnersAreDistinct /\ OneRequestPerCooldown)
<1>1. ActivationInv => OwnersAreDistinct /\ OneRequestPerCooldown
  BY DEF ActivationInv
<1> QED
  BY <1>1, ActivationKept, PTL

(* A request is stored with the price of the moment, since the prices it    *)
(* was quoted from are locked before they are compared.                     *)
THEOREM QuotesHold == ActivationSpec => QuotesAreCurrent
<1> DEFINE Current == \A r \in Requests : requests[r] = Unsubmitted /\ requests'[r] # Unsubmitted =>
                        requests'[r].quote = price
<1>1. ASSUME ActivationInv, [ActivationNext]_activationVars PROVE [Current]_activationVars
  <2>1. SUFFICES ASSUME NEW r \in Requests, requests[r] = Unsubmitted, requests'[r] # Unsubmitted
                 PROVE  requests'[r].quote = price
    OBVIOUS
  <2>2. PICK t \in Txns : Submit(t)
    <3>1. requests[r].status \notin {"approved", "activated"}
      BY <2>1 DEF Unsubmitted
    <3>2. ASSUME NEW t \in Txns, Review(t) \/ CompleteOnboarding(t) PROVE requests'[r] = requests[r]
      <4>1. PICK c, held : c = commerceTxn[t].cmd /\ held = commerceTxn[t].held
        OBVIOUS
      <4>2. PICK op \in {"review", "complete"} : Commits(t, op)
        BY <3>2 DEF Review, CompleteOnboarding
      <4>3. /\ c \in ActivationCmd /\ c.op = op /\ CommerceLocks(t, c) \subseteq held /\ Knows(t)
        BY <1>1, <4>1, <4>2, CommitHolds
      <4>4. RequestRow(c.request) \in held
        BY <4>2, <4>3, LocksByOperation
      <4>5. r # c.request
        BY <2>1, <3>1, <4>1, <4>2, <4>3, <4>4 DEF Knows, KnowsRequest
      <4> QED
        BY <3>2, <4>1, <4>5, <1>1 DEF Review, CompleteOnboarding, ActivationInv, CommerceTypes, ActivationTypeOK
    <3> QED
      BY <1>1, <2>1, <3>2 DEF ActivationNext, activationVars, commercial, UpsertPricing, CooldownEnds, VisitorBegins,
         ReviewBegins, OperatorBegins, HolderBegins, CommerceBegin, CommerceLock, CommerceAbort, FinalizeAgreement,
         RecordAgreementPayment, VoidAgreementPayment, CreateInvitation, RevokeInvitation
  <2>3. PICK c, held : c = commerceTxn[t].cmd /\ held = commerceTxn[t].held
    OBVIOUS
  <2>4. Commits(t, "submit")
    BY <2>2 DEF Submit
  <2>5. c \in ActivationCmd /\ c.op = "submit" /\ CommerceLocks(t, c) \subseteq held /\ Knows(t)
    BY <1>1, <2>3, <2>4, CommitHolds
  <2>6. PriceShared(t) \in held
    BY <2>5, LocksByOperation
  <2>7. c.quote = price
    BY <2>3, <2>5, <2>6 DEF Knows, KnowsOthers
  <2>8. requests' = [requests EXCEPT ![c.request] = [status |-> "pending", quote |-> c.quote]]
    BY <2>2, <2>3 DEF Submit
  <2>9. requests \in [Requests -> RequestRows]
    BY <1>1 DEF ActivationInv, CommerceTypes, ActivationTypeOK, RequestRows
  <2> QED
    BY <2>1, <2>7, <2>8, <2>9
<1>2. QuotesAreCurrent <=> [][Current]_activationVars
  BY PTL DEF QuotesAreCurrent
<1> QED
  BY <1>1, <1>2, ActivationKept, PTL DEF ActivationSpec

-----------------------------------------------------------------------------
(* Money.  What counts of a payment, and the two sums that the code takes:  *)
(* of the confirmed payments, and of all of them without the void ones.     *)
Counts(p) == IF p.status = "void" THEN 0 ELSE p.amount
Worth == [p \in AgreementPayment |-> Counts(p)]
ConfirmedOf(P) == {p \in P : p.status = "confirmed"}
Counted(P) == MapThenSumSet(LAMBDA p : IF p.status = "void" THEN 0 ELSE p.amount, P)

LEMMA CountedIsTotal ==
  ASSUME NEW P \in SUBSET AgreementPayment, IsFiniteSet(P)
  PROVE  Counted(P) = Total(Worth, P)
<1> DEFINE Sums(g) == g = [s \in SUBSET P |->
               IF s = {} THEN 0
               ELSE (IF Picked(s).status = "void" THEN 0 ELSE Picked(s).amount) + g[s \ {Picked(s)}]]
<1>1. Counted(P) = (CHOOSE g : Sums(g))[P]
  BY DEF Counted, MapThenSumSet, MapThenFoldSet, Picked
<1>2. PICK h : Adds(h, Worth, P)
  BY AddsExists
<1>3. \A s \in SUBSET P : s # {} =>
        Worth[Picked(s)] = IF Picked(s).status = "void" THEN 0 ELSE Picked(s).amount
  BY PickedIsIn DEF Worth, Counts
<1>4. Sums(h)
  BY <1>2, <1>3 DEF Adds
<1>5. PICK g : Sums(g) /\ Counted(P) = g[P]
  BY <1>1, <1>4
<1>6. Adds(g, Worth, P)
  BY <1>3, <1>5 DEF Adds
<1> QED
  BY <1>5, <1>6, TotalIs

LEMMA SumIsTotal ==
  ASSUME NEW P \in SUBSET AgreementPayment, IsFiniteSet(P), \A p \in P : p.status = "confirmed"
  PROVE  PaymentSum(P) = Total(Worth, P)
<1> DEFINE Sums(g) == g = [s \in SUBSET P |->
               IF s = {} THEN 0 ELSE Picked(s).amount + g[s \ {Picked(s)}]]
<1>1. PaymentSum(P) = (CHOOSE g : Sums(g))[P]
  BY DEF PaymentSum, MapThenSumSet, MapThenFoldSet, Picked
<1>2. PICK h : Adds(h, Worth, P)
  BY AddsExists
<1>3. \A s \in SUBSET P : s # {} => Worth[Picked(s)] = Picked(s).amount
  BY PickedIsIn DEF Worth, Counts
<1>4. Sums(h)
  BY <1>2, <1>3 DEF Adds
<1>5. PICK g : Sums(g) /\ PaymentSum(P) = g[P]
  BY <1>1, <1>4
<1>6. Adds(g, Worth, P)
  BY <1>3, <1>5 DEF Adds
<1> QED
  BY <1>5, <1>6, TotalIs

(* Both are the same sum.                                                   *)
LEMMA PaymentTotals ==
  ASSUME NEW P \in SUBSET AgreementPayment, IsFiniteSet(P)
  PROVE  /\ Weighs(Worth, P) /\ Total(Worth, P) \in Int
         /\ Counted(P) = Total(Worth, P) /\ ConfirmedTotal(P) = Total(Worth, P)
<1>1. \A p \in AgreementPayment : /\ Worth[p] \in Nat /\ p.status \in {"confirmed", "void"}
                                  /\ p.status = "void" => Worth[p] = 0
                                  /\ p.status = "confirmed" => Worth[p] = p.amount
  BY ActivationAssumption DEF AgreementPayment, Worth, Counts
<1>2. Weighs(Worth, P)
  BY <1>1 DEF Weighs
<1>3. Total(Worth, P) \in Int
  BY <1>2, TotalTakes
<1>4. ConfirmedOf(P) \in SUBSET P /\ \A p \in P \ ConfirmedOf(P) : Worth[p] = 0
  BY <1>1 DEF ConfirmedOf
<1>5. Total(Worth, P) = Total(Worth, ConfirmedOf(P)) /\ IsFiniteSet(ConfirmedOf(P))
  BY <1>2, <1>4, TotalZeros DEF Weighs
<1>6. PaymentSum(ConfirmedOf(P)) = Total(Worth, ConfirmedOf(P))
  <2>1. ConfirmedOf(P) \in SUBSET AgreementPayment /\ \A p \in ConfirmedOf(P) : p.status = "confirmed"
    BY DEF ConfirmedOf
  <2> QED
    BY <1>5, <2>1, SumIsTotal
<1>7. ConfirmedTotal(P) = PaymentSum(ConfirmedOf(P))
  BY DEF ConfirmedTotal, ConfirmedOf
<1> QED
  BY <1>2, <1>3, <1>5, <1>6, <1>7, CountedIsTotal

(* What PaidExactly says of one agreement, and what a command knows that    *)
(* has found room for its payment.                                          *)
Paid(a) ==
  a # Unfinalized =>
    Counted(a.payments) <= a.total /\ (a.status # "awaiting_payment" <=> Counted(a.payments) = a.total)

HasRoom(c, held) ==
  LET a == agreements[c.request] IN
  c.op = "pay" /\ AgreementRow(c.request) \in held => ConfirmedTotal(a.payments) + c.amount <= a.total

MoneyKept ==
  /\ \A t \in Txns : HasRoom(commerceTxn[t].cmd, commerceTxn[t].held)
  /\ \A r \in Requests : IsFiniteSet(agreements[r].payments) /\ Paid(agreements[r])

(* A session goes on and no agreement is written.                           *)
LEMMA MoneyRests ==
  ASSUME ActivationInv, MoneyKept, agreements' = agreements,
         \A u \in Txns : \/ commerceTxn'[u] = commerceTxn[u]
                         \/ HasRoom(commerceTxn'[u].cmd, commerceTxn'[u].held)
  PROVE  MoneyKept'
<1>1. \A u \in Txns : HasRoom(commerceTxn'[u].cmd, commerceTxn'[u].held)
  BY DEF MoneyKept
<1> QED
  BY <1>1 DEF MoneyKept, HasRoom, Paid

(* A command has written the agreement it had locked, or the first one.     *)
LEMMA MoneyWritten ==
  ASSUME ActivationInv, MoneyKept, NEW t \in Txns, commerceTxn' = [commerceTxn EXCEPT ![t] = NotInTxn],
         NEW r \in Requests, NEW a, agreements' = [agreements EXCEPT ![r] = a],
         AgreementRow(r) \in commerceTxn[t].held \/ agreements[r] = Unfinalized,
         IsFiniteSet(a.payments), Paid(a)
  PROVE  MoneyKept'
<1>1. /\ agreements'[r] = a /\ \A q \in Requests \ {r} : agreements'[q] = agreements[q]
      /\ commerceTxn'[t] = NotInTxn /\ \A u \in Txns \ {t} : commerceTxn'[u] = commerceTxn[u]
  BY DEF ActivationInv, CommerceTypes
<1>2. HasRoom(NotInTxn.cmd, NotInTxn.held)'
  BY DEF HasRoom, NotInTxn
<1>3. ASSUME NEW u \in Txns \ {t} PROVE HasRoom(commerceTxn[u].cmd, commerceTxn[u].held)'
  <2>1. PICK c, held : c = commerceTxn[u].cmd /\ held = commerceTxn[u].held
    OBVIOUS
  <2>2. SUFFICES ASSUME c.op = "pay", AgreementRow(c.request) \in held
                 PROVE  agreements'[c.request] = agreements[c.request]
    BY <2>1 DEF MoneyKept, HasRoom
  <2>3. c.request \in Requests
    BY <2>1, <2>2, Sessions, CommandsByOperation DEF ActivationInv
  <2>4. agreements[c.request] # Unfinalized
    BY <2>1, <2>2 DEF ActivationInv, Knows, KnowsAgreement
  <2>5. held \cap commerceTxn[t].held = {}
    BY <2>1 DEF ActivationInv, Exclusive
  <2> QED
    BY <1>1, <2>2, <2>3, <2>4, <2>5
<1>4. \A q \in Requests : IsFiniteSet(agreements'[q].payments) /\ Paid(agreements'[q])
  BY <1>1 DEF MoneyKept
<1> QED
  BY <1>1, <1>2, <1>3, <1>4 DEF MoneyKept, HasRoom, Paid

(* A payment or a void settles the agreement by its new payments.           *)
LEMMA MoneySettles ==
  ASSUME ActivationInv, MoneyKept, NEW t \in Txns, NEW op \in {"pay", "void"}, Commits(t, op),
         NEW r, r = commerceTxn[t].cmd.request, NEW P \in SUBSET AgreementPayment, IsFiniteSet(P),
         Total(Worth, P) <= agreements[r].total, SetPayments(r, P)
  PROVE  MoneyKept'
<1>1. PICK c, a, q, held : c = commerceTxn[t].cmd /\ a = agreements[r] /\ q = requests[r] /\ held = commerceTxn[t].held
  OBVIOUS
<1>2. /\ r \in Requests /\ a \in Finalized /\ AgreementRow(r) \in held
      /\ commerceTxn' = [commerceTxn EXCEPT ![t] = NotInTxn]
  BY <1>1, AgreementsFound
<1>3. PICK status : status = SettledStatus(a.total, P)
  OBVIOUS
<1>4. PICK new : new = [a EXCEPT !.payments = P, !.status = status]
  OBVIOUS
<1>5. agreements' = [agreements EXCEPT ![r] = new]
  BY <1>1, <1>2, <1>3, <1>4 DEF SetPayments, ActivationInv, CommerceTypes
<1>6. new.payments = P /\ new.status = status /\ new.total = a.total
  BY <1>2, <1>4 DEF Finalized
<1>7. status # "awaiting_payment" <=> Total(Worth, P) = a.total
  BY <1>3, PaymentTotals DEF SettledStatus
<1>8. Paid(new)
  BY <1>1, <1>6, <1>7, PaymentTotals DEF Paid
<1> QED
  BY <1>1, <1>2, <1>5, <1>6, <1>8, MoneyWritten

LEMMA MoneyOfPayments ==
  ASSUME ActivationInv, MoneyKept, NEW t \in Txns, RecordAgreementPayment(t) \/ VoidAgreementPayment(t)
  PROVE  MoneyKept'
<1>1. PICK c, r, a, q, held : /\ c = commerceTxn[t].cmd /\ r = c.request /\ a = agreements[r] /\ q = requests[r]
                              /\ held = commerceTxn[t].held
  OBVIOUS
<1>2. PICK op \in {"pay", "void", "invite", "revoke", "complete"} :
        /\ op \in {"pay", "void"} /\ Commits(t, op)
        /\ op = "pay" => RecordAgreementPayment(t)
        /\ op = "void" => VoidAgreementPayment(t)
  BY DEF RecordAgreementPayment, VoidAgreementPayment
<1>3. /\ c.op = op /\ c \in ActivationCmd /\ r \in Requests /\ a \in Finalized /\ a # Unfinalized
      /\ KnowsAgreement(c, held) /\ AgreementRow(r) \in held
      /\ \A x, y \in a.payments : x.key = y.key => x = y
  BY <1>1, <1>2, AgreementsFound
<1>4. PICK Q \in SUBSET AgreementPayment : Q = a.payments
  BY <1>3 DEF Finalized
<1>5. IsFiniteSet(Q) /\ Paid(a) /\ a.total \in Nat
  BY <1>1, <1>3, <1>4, ActivationAssumption DEF MoneyKept, Finalized
<1>6. /\ Weighs(Worth, Q) /\ Total(Worth, Q) \in Int /\ Total(Worth, Q) <= a.total
      /\ ConfirmedTotal(Q) = Total(Worth, Q)
  BY <1>3, <1>4, <1>5, PaymentTotals DEF Paid
<1>7. CASE op = "pay"
  <2>1. c \in PayCmd /\ c.amount \in Nat
    <3>1. c \in PayCmd
      BY <1>3, <1>7, CommandsByOperation
    <3> QED
      BY <3>1, ActivationAssumption DEF PayCmd
  <2>2. PICK p : p = [key |-> c.key, amount |-> c.amount, status |-> "confirmed"]
    OBVIOUS
  <2>3. p \in AgreementPayment /\ Worth[p] = c.amount
    BY <2>1, <2>2 DEF PayCmd, AgreementPayment, Worth, Counts
  <2>4. p \notin Q
    BY <1>1, <1>3, <1>4, <1>7, <2>2 DEF KnowsAgreement
  <2>5. PICK P \in SUBSET AgreementPayment : P = Q \cup {p}
    BY <2>3
  <2>6. Weighs(Worth, P) /\ Total(Worth, P) = c.amount + Total(Worth, Q)
    BY <1>6, <2>1, <2>3, <2>4, <2>5, TotalAdds
  <2>7. ConfirmedTotal(Q) + c.amount <= a.total
    BY <1>1, <1>3, <1>4, <1>7 DEF MoneyKept, HasRoom
  <2>8. Total(Worth, P) <= a.total
    BY <1>6, <2>1, <2>6, <2>7
  <2>9. SetPayments(r, P)
    BY <1>1, <1>2, <1>4, <1>7, <2>2, <2>5 DEF RecordAgreementPayment
  <2> QED
    BY <1>1, <1>2, <2>6, <2>8, <2>9, MoneySettles DEF Weighs
<1>8. CASE op = "void"
  <2>1. c.payment \in AgreementPayment /\ c.payment \in Q
    BY <1>1, <1>3, <1>4, <1>8, CommandsByOperation DEF VoidCmd, KnowsAgreement
  <2>2. PICK x \in AgreementPayment : x = c.payment
    BY <2>1
  <2>3. PICK p : p = [x EXCEPT !.status = "void"]
    OBVIOUS
  <2>4. p \in AgreementPayment /\ Worth[p] = 0 /\ p.key = x.key
    BY <2>2, <2>3 DEF AgreementPayment, Worth, Counts
  <2>5. PICK R \in SUBSET Q : R = Q \ {x}
    OBVIOUS
  <2>6. p \notin R
    BY <1>3, <1>4, <2>1, <2>2, <2>4, <2>5
  <2>7. Total(Worth, Q) = Worth[x] + Total(Worth, R) /\ Weighs(Worth, R)
    <3>1. IsFiniteSet(R)
      BY <1>5, <2>5, FS_Subset
    <3>2. x \in Q /\ Q \ {x} = R
      BY <2>1, <2>2, <2>5
    <3>3. \A y \in Q : Total(Worth, Q) = Worth[y] + Total(Worth, Q \ {y})
      BY <1>6, TotalTakes
    <3> QED
      BY <1>6, <3>1, <3>2, <3>3 DEF Weighs
  <2>8. PICK P \in SUBSET AgreementPayment : P = R \cup {p}
    BY <2>4
  <2>9. Weighs(Worth, P) /\ Total(Worth, P) = 0 + Total(Worth, R) /\ Total(Worth, R) \in Int
    BY <2>4, <2>6, <2>7, <2>8, TotalAdds, TotalTakes
  <2>10. Worth[x] \in Nat
    BY <2>2, ActivationAssumption DEF AgreementPayment, Worth, Counts
  <2>11. Total(Worth, P) <= a.total
    BY <1>5, <1>6, <2>7, <2>9, <2>10
  <2>12. SetPayments(r, P)
    BY <1>1, <1>2, <1>4, <1>8, <2>2, <2>3, <2>5, <2>8 DEF VoidAgreementPayment
  <2> QED
    BY <1>1, <1>2, <2>9, <2>11, <2>12, MoneySettles DEF Weighs
<1> QED
  BY <1>2, <1>7, <1>8

(* An invitation is written, revoked and used only of what is paid, and     *)
(* leaves the payments as they are.                                         *)
LEMMA MoneyOfInvitations ==
  ASSUME ActivationInv, MoneyKept, NEW t \in Txns,
         CreateInvitation(t) \/ RevokeInvitation(t) \/ CompleteOnboarding(t)
  PROVE  MoneyKept'
<1>1. PICK c, r, a, q, held : /\ c = commerceTxn[t].cmd /\ r = c.request /\ a = agreements[r] /\ q = requests[r]
                              /\ held = commerceTxn[t].held
  OBVIOUS
<1>2. PICK op \in {"pay", "void", "invite", "revoke", "complete"} :
        op \in {"invite", "revoke", "complete"} /\ Commits(t, op)
  BY DEF CreateInvitation, RevokeInvitation, CompleteOnboarding
<1>3. /\ c.op = op /\ c \in ActivationCmd /\ CommerceLocks(t, c) \subseteq held
      /\ r \in Requests /\ a \in Finalized /\ a # Unfinalized
      /\ KnowsRequest(c, held) /\ KnowsAgreement(c, held) /\ AgreementRow(r) \in held
      /\ commerceTxn' = [commerceTxn EXCEPT ![t] = NotInTxn]
  <2>1. /\ c.op = op /\ c \in ActivationCmd /\ CommerceLocks(t, c) \subseteq held
        /\ commerceTxn' = [commerceTxn EXCEPT ![t] = NotInTxn]
    BY <1>1, <1>2, CommitHolds
  <2>2. /\ r \in Requests /\ a \in Finalized /\ a # Unfinalized /\ AgreementRow(r) \in held
        /\ KnowsRequest(c, held) /\ KnowsAgreement(c, held)
    BY <1>1, <1>2, AgreementsFound
  <2> QED
    BY <2>1, <2>2
<1>4. a.status \in {"paid", "onboarding_pending"}
  <2>1. op = "complete" => RequestRow(r) \in held
    BY <1>1, <1>3, LocksByOperation
  <2> QED
    BY <1>1, <1>2, <1>3, <2>1 DEF KnowsRequest, KnowsAgreement, Honours
<1>5. ASSUME NEW status \in {"paid", "onboarding_pending", "activated"}, NEW list, NEW new,
             new = [a EXCEPT !.status = status, !.invitations = list],
             agreements' = [agreements EXCEPT ![r] = new]
      PROVE  MoneyKept'
  <2>1. new.status = status /\ new.payments = a.payments /\ new.total = a.total
    BY <1>3, <1>5 DEF Finalized
  <2>2. IsFiniteSet(a.payments) /\ Paid(a)
    BY <1>1, <1>3 DEF MoneyKept
  <2>3. Paid(new)
    BY <1>3, <1>4, <1>5, <2>1, <2>2 DEF Paid
  <2> QED
    BY <1>1, <1>3, <1>5, <2>1, <2>2, <2>3, MoneyWritten
<1>6. CASE CreateInvitation(t)
  <2>1. PICK was, live : was = a.invitations /\ live = LiveInvitation(a)
    OBVIOUS
  <2>2. PICK list : list = Append([n \in DOMAIN was |-> IF n \in live THEN "revoked" ELSE was[n]], "live")
    OBVIOUS
  <2>3. PICK new : new = [a EXCEPT !.status = "onboarding_pending", !.invitations = list]
    OBVIOUS
  <2>4. agreements' = [agreements EXCEPT ![r] = new]
    BY <1>1, <1>3, <1>6, <2>1, <2>2, <2>3 DEF CreateInvitation, ActivationInv, CommerceTypes, Finalized
  <2>5. PICK status : status = "onboarding_pending"
    OBVIOUS
  <2>6. new = [a EXCEPT !.status = status, !.invitations = list]
    BY <2>3, <2>5
  <2> QED
    BY <1>5, <2>4, <2>5, <2>6
<1>7. CASE RevokeInvitation(t)
  <2>1. PICK list : list = [a.invitations EXCEPT ![c.nth] = "revoked"]
    OBVIOUS
  <2>2. PICK new : new = [a EXCEPT !.status = "paid", !.invitations = list]
    OBVIOUS
  <2>3. agreements' = [agreements EXCEPT ![r] = new]
    BY <1>1, <1>3, <1>7, <2>1, <2>2 DEF RevokeInvitation, ActivationInv, CommerceTypes, Finalized
  <2>4. PICK status : status = "paid"
    OBVIOUS
  <2>5. new = [a EXCEPT !.status = status, !.invitations = list]
    BY <2>2, <2>4
  <2> QED
    BY <1>5, <2>3, <2>4, <2>5
<1>8. CASE CompleteOnboarding(t)
  <2>1. PICK list : list = [a.invitations EXCEPT ![c.nth] = "consumed"]
    OBVIOUS
  <2>2. PICK new : new = [a EXCEPT !.status = "activated", !.invitations = list]
    OBVIOUS
  <2>3. agreements' = [agreements EXCEPT ![r] = new]
    BY <1>1, <1>3, <1>8, <2>1, <2>2 DEF CompleteOnboarding, ActivationInv, CommerceTypes, Finalized
  <2>4. PICK status : status = "activated"
    OBVIOUS
  <2>5. new = [a EXCEPT !.status = status, !.invitations = list]
    BY <2>2, <2>4
  <2> QED
    BY <1>5, <2>3, <2>4, <2>5
<1> QED
  BY <1>6, <1>7, <1>8

(* Nothing is paid when an agreement is finalized, and nothing has to be if *)
(* it is complimentary.                                                     *)
LEMMA MoneyOfRequests ==
  ASSUME ActivationInv, MoneyKept, NEW t \in Txns, Submit(t) \/ Review(t) \/ FinalizeAgreement(t)
  PROVE  MoneyKept'
<1> DEFINE c == commerceTxn[t].cmd
<1>1. PICK op \in {"submit", "review", "finalize"} : Commits(t, op) /\ (op = "finalize" <=> FinalizeAgreement(t))
  BY DEF Submit, Review, FinalizeAgreement, Commits
<1>2. /\ c \in ActivationCmd /\ c.op = op /\ CommerceLocks(t, c) \subseteq commerceTxn[t].held
      /\ commerceTxn' = [commerceTxn EXCEPT ![t] = NotInTxn] /\ c.request \in Requests /\ Knows(t)
  BY <1>1, CommitHolds
<1>3. CASE op # "finalize"
  <2>1. agreements' = agreements
    BY <1>1, <1>3 DEF Submit, Review
  <2>2. HasRoom(NotInTxn.cmd, NotInTxn.held)
    BY DEF HasRoom, NotInTxn
  <2>3. \A u \in Txns : commerceTxn'[u] = commerceTxn[u] \/ commerceTxn'[u] = NotInTxn
    BY <1>2 DEF ActivationInv, CommerceTypes
  <2>4. \A u \in Txns : commerceTxn'[u] = commerceTxn[u] \/ HasRoom(commerceTxn'[u].cmd, commerceTxn'[u].held)
    BY <2>2, <2>3
  <2> QED
    BY <2>1, <2>4, MoneyRests
<1>4. CASE op = "finalize"
  <2>1. PICK r \in Requests : r = c.request
    BY <1>2
  <2>2. c \in FinalizeCmd /\ c.total \in Nat
    BY <1>2, <1>4, CommandsByOperation, ActivationAssumption DEF FinalizeCmd
  <2>3. agreements[r] = Unfinalized
    <3>1. RequestRow(r) \in commerceTxn[t].held
      BY <1>2, <1>4, <2>1, LocksByOperation
    <3> QED
      BY <1>2, <1>4, <2>1, <3>1 DEF Knows, KnowsRequest
  <2>4. PICK new : new = [status |-> SettledStatus(c.total, {}), total |-> c.total, payments |-> {},
                          invitations |-> <<>>]
    OBVIOUS
  <2>5. agreements' = [agreements EXCEPT ![r] = new]
    BY <1>1, <1>4, <2>1, <2>4 DEF FinalizeAgreement
  <2>6. Counted({}) = 0 /\ ConfirmedTotal({}) = 0 /\ IsFiniteSet({})
    <3>1. {} \in SUBSET AgreementPayment /\ IsFiniteSet({})
      BY FS_EmptySet
    <3>2. Total(Worth, {}) = 0
      BY <3>1, PaymentTotals, TotalTakes
    <3> QED
      BY <3>1, <3>2, PaymentTotals
  <2>7. new.payments = {} /\ new.total = c.total /\ new.status = SettledStatus(c.total, {})
    BY <2>4
  <2>8. Paid(new)
    BY <2>2, <2>6, <2>7 DEF Paid, SettledStatus
  <2> QED
    BY <1>2, <2>3, <2>5, <2>6, <2>7, <2>8, MoneyWritten
<1> QED
  BY <1>3, <1>4

(* A lock on the agreement is got only when there is room for the payment.  *)
LEMMA MoneyOfSessions ==
  ASSUME ActivationInv, MoneyKept, NEW t \in Txns,
         CommerceLock(t) \/ CommerceAbort(t) \/ \E c : CommerceBegin(t, c)
  PROVE  MoneyKept'
<1>1. agreements' = agreements
  BY DEF CommerceLock, CommerceAbort, CommerceBegin, commercial
<1>2. PICK next : commerceTxn' = [commerceTxn EXCEPT ![t] = next] /\ HasRoom(next.cmd, next.held)
  <2>1. CASE CommerceAbort(t)
    <3>1. HasRoom(NotInTxn.cmd, NotInTxn.held)
      BY DEF HasRoom, NotInTxn
    <3> QED
      BY <2>1, <3>1 DEF CommerceAbort, Ended
  <2>2. ASSUME NEW c, CommerceBegin(t, c)
        PROVE  \E next : commerceTxn' = [commerceTxn EXCEPT ![t] = next] /\ HasRoom(next.cmd, next.held)
    <3>1. PICK next : next = [cmd |-> c, held |-> {}]
      OBVIOUS
    <3>2. next.held = {} /\ commerceTxn' = [commerceTxn EXCEPT ![t] = next]
      BY <2>2, <3>1 DEF CommerceBegin, Begun
    <3> QED
      BY <3>2 DEF HasRoom
  <2>3. CASE CommerceLock(t)
    <3>1. PICK l : CommerceAdmits(commerceTxn[t].cmd, l) /\ commerceTxn' = Locked(commerceTxn, t, l)
      BY <2>3 DEF CommerceLock
    <3>2. PICK old : old = commerceTxn[t]
      OBVIOUS
    <3>3. PICK next : next = [old EXCEPT !.held = @ \cup {l}]
      OBVIOUS
    <3>4. commerceTxn' = [commerceTxn EXCEPT ![t] = next]
      BY <3>1, <3>2, <3>3 DEF Locked
    <3>5. next.cmd = old.cmd /\ next.held = old.held \cup {l}
      BY <3>2, <3>3 DEF ActivationInv, CommerceTypes, Session, NotInTxn
    <3>6. old.cmd.op = "pay" /\ l = AgreementRow(old.cmd.request) =>
            ConfirmedTotal(agreements[old.cmd.request].payments) + old.cmd.amount
              <= agreements[old.cmd.request].total
      <4>1. l = AgreementRow(old.cmd.request) => l[1] = "agreement"
        BY LockKinds
      <4> QED
        BY <3>1, <3>2, <4>1 DEF CommerceAdmits
    <3>7. HasRoom(old.cmd, old.held)
      BY <3>2 DEF MoneyKept
    <3>8. HasRoom(next.cmd, next.held)
      BY <3>5, <3>6, <3>7 DEF HasRoom
    <3> QED
      BY <3>4, <3>8
  <2> QED
    BY <2>1, <2>2, <2>3
<1>3. \A u \in Txns : commerceTxn'[u] = commerceTxn[u] \/ HasRoom(commerceTxn'[u].cmd, commerceTxn'[u].held)
  BY <1>2 DEF ActivationInv, CommerceTypes
<1> QED
  BY <1>1, <1>3, MoneyRests

LEMMA MoneySteps == ActivationInv /\ MoneyKept /\ [ActivationNext]_activationVars => MoneyKept'
<1> SUFFICES ASSUME ActivationInv, MoneyKept, [ActivationNext]_activationVars PROVE MoneyKept'
  OBVIOUS
<1>1. CASE UpsertPricing \/ (\E r \in Requests : CooldownEnds(r)) \/ UNCHANGED activationVars
  <2>1. agreements' = agreements /\ commerceTxn' = commerceTxn
    BY <1>1 DEF UpsertPricing, CooldownEnds, activationVars, commercial
  <2> QED
    BY <2>1, MoneyRests
<1>2. ASSUME NEW t \in Txns, NEW r \in Requests,
             VisitorBegins(t, r) \/ ReviewBegins(t, r) \/ OperatorBegins(t, r) \/ HolderBegins(t, r)
      PROVE  \E c : CommerceBegin(t, c)
  BY <1>2, Zenon DEF VisitorBegins, ReviewBegins, OperatorBegins, HolderBegins
<1> QED
  BY <1>1, <1>2, MoneyOfSessions, MoneyOfRequests, MoneyOfPayments, MoneyOfInvitations DEF ActivationNext

(* An agreement is paid, waits for its owner or is active exactly when its  *)
(* confirmed payments make up what was agreed, for any number of payments,  *)
(* voids and retries that overlap.                                          *)
THEOREM PaidInFull == ActivationSpec => []PaidExactly
<1>1. ActivationInit => MoneyKept
  <2> SUFFICES ASSUME ActivationInit PROVE MoneyKept
    OBVIOUS
  <2>1. \A r \in Requests : agreements[r] = Unfinalized /\ agreements[r].payments = {}
    BY DEF ActivationInit, Unfinalized
  <2>2. HasRoom(NotInTxn.cmd, NotInTxn.held)
    BY DEF HasRoom, NotInTxn
  <2>3. \A t \in Txns : commerceTxn[t] = NotInTxn
    BY DEF ActivationInit, AllIdle
  <2> QED
    BY <2>1, <2>2, <2>3, FS_EmptySet DEF MoneyKept, Paid
<1>2. MoneyKept => PaidExactly
  BY DEF MoneyKept, Paid, Counted, PaidExactly
<1> QED
  BY <1>1, <1>2, MoneySteps, ActivationKept, PTL DEF ActivationSpec

-----------------------------------------------------------------------------
(* What Cutover promises for all verticals, documents and overlapping runs. *)
(* The argument: whatever an apply, a run in recovery or the runtime does,  *)
(* a row stays a row, under the fingerprint it has; so what a verification  *)
(* has found of a document remains true while it looks at the others.       *)

(* A document's version is there, or set aside.                             *)
Represented(r, c) ==
  \/ IsRow(target[r]) /\ (target[r].content = c \/ vertical \in {"sharedCore", "parents"})
  \/ vertical = "audit" /\ aside[r] = c

VerifiedIsThere ==
  \A j \in Jobs : job[j].pc \in {"verifying", "verified"} =>
    \A r \in Records : job[j].plan[r] # 0 =>
      Represented(r, job[j].plan[r]) \/ (job[j].pc = "verifying" /\ r \in job[j].todo)

AttestedIsThere == \A r \in Records : attested[r] # 0 => Represented(r, attested[r])

CutoverInv == CutoverTypeOK /\ VerifiedIsThere /\ AttestedIsThere

(* What a step leaves of the imported rows.                                 *)
RowsStay ==
  /\ vertical' = vertical
  /\ \A r \in Records :
       /\ IsRow(target[r]) => /\ IsRow(target[r])'
                              /\ target'[r].content = target[r].content \/ vertical = "sharedCore"
       /\ aside[r] # 0 => aside'[r] = aside[r]

LEMMA RowsAndNone ==
  ASSUME NEW c \in (0 .. MaxContents) \ {0}
  PROVE  /\ Fresh(c) \in Rows /\ Fresh(c).content = c /\ Fresh(c).changed = {}
         /\ Absent \in Rows /\ Taken \in Rows /\ Blocked \notin Rows
         /\ Taken \notin {Absent, Fresh(c)} /\ Blocked \notin {Absent, Fresh(c), Taken}
         /\ Absent.content = 0 /\ Taken.content = 0
  BY CutoverAssumption DEF Fresh, Rows, Absent, Taken, Blocked

(* What each vertical's import leaves of a row.                             *)
LEMMA ImportLeaves ==
  ASSUME CutoverTypeOK, NEW r \in Records, NEW c \in (0 .. MaxContents) \ {0}, Import(r, c) # Blocked
  PROVE  /\ Import(r, c) \in Rows
         /\ IsRow(target[r]) =>
              /\ IsRow(Import(r, c))
              /\ Import(r, c).content = target[r].content \/ vertical = "sharedCore"
         /\ vertical \notin {"queue", "sharedCore"} =>
              /\ target[r] = Taken => Import(r, c) = Taken
              /\ IsRow(target[r]) => Import(r, c) = target[r]
<1>1. target[r] \in Rows
  BY DEF CutoverTypeOK
<1>2. vertical \in AllVerticals
  BY CutoverAssumption DEF CutoverTypeOK
<1>3. /\ vertical = "dues" => Import(r, c) = DuesImport(r, c)
      /\ vertical = "attendance" => Import(r, c) = AttendanceImport(r, c)
      /\ vertical = "inventory" => Import(r, c) = InventoryImport(r, c)
      /\ vertical = "queue" => Import(r, c) = QueueImport(r, c)
      /\ vertical = "sharedCore" => Import(r, c) = SharedCoreImport(r, c)
      /\ vertical = "parents" => Import(r, c) = ParentImport(r, c)
      /\ vertical = "children" => Import(r, c) = ChildImport(r, c)
      /\ vertical = "audit" => Import(r, c) = AuditImport(r, c)
  BY DEF Import
<1>4. Insert(r, c) \in Rows /\ (target[r] # Absent => Insert(r, c) = target[r])
  BY <1>1, RowsAndNone DEF Insert
<1>5. IsRow(target[r]) => target[r] # Absent
  BY RowsAndNone DEF IsRow
<1>6. CASE vertical \in {"dues", "attendance", "children"}
  <2>1. Import(r, c) = Insert(r, c) /\ ~Differs(r, c)
    BY <1>3, <1>6 DEF DuesImport, AttendanceImport, ChildImport, Unless
  <2> QED
    BY <1>4, <1>5, <1>6, <2>1, RowsAndNone DEF Differs
<1>7. CASE vertical \in {"inventory", "parents", "audit"}
  <2>1. Import(r, c) = Insert(r, c)
    BY <1>3, <1>7 DEF InventoryImport, ParentImport, AuditImport, Unless
  <2> QED
    BY <1>4, <1>5, <1>7, <2>1, RowsAndNone
<1>8. CASE vertical = "queue"
  <2>1. Import(r, c) = Fresh(c) /\ (IsRow(target[r]) => target[r].content = c)
    BY <1>3, <1>8 DEF QueueImport, Unless
  <2> QED
    BY <1>8, <2>1, RowsAndNone DEF IsRow
<1>9. CASE vertical = "sharedCore"
  BY <1>3, <1>9, RowsAndNone DEF SharedCoreImport, IsRow
<1> QED
  BY <1>2, <1>6, <1>7, <1>8, <1>9 DEF AllVerticals

(* What a verification accepts is there, or set aside.                      *)
LEMMA MatchIsThere ==
  ASSUME CutoverTypeOK, NEW r \in Records, NEW c \in (0 .. MaxContents) \ {0}, NEW unsafe,
         Match(r, c, unsafe)
  PROVE  Represented(r, c)
<1>1. vertical \in AllVerticals
  BY CutoverAssumption DEF CutoverTypeOK
<1>2. /\ vertical = "dues" => DuesMatch(r, c, unsafe)
      /\ vertical = "attendance" => AttendanceMatch(r, c, unsafe)
      /\ vertical = "inventory" => InventoryMatch(r, c, unsafe)
      /\ vertical = "queue" => QueueMatch(r, c, unsafe)
      /\ vertical = "sharedCore" => SharedCoreMatch(r, c, unsafe)
      /\ vertical = "parents" => ParentMatch(r, c, unsafe)
      /\ vertical = "children" => ChildMatch(r, c, unsafe)
      /\ vertical = "audit" => AuditMatch(r, c, unsafe)
  BY DEF Match
<1>3. target[r] = Fresh(c) => Represented(r, c)
  BY RowsAndNone DEF Represented, IsRow
<1>4. CASE vertical \in {"dues", "attendance", "inventory", "queue", "sharedCore", "children"}
  BY <1>2, <1>3, <1>4 DEF DuesMatch, AttendanceMatch, InventoryMatch, QueueMatch, SharedCoreMatch, ChildMatch
<1>5. CASE vertical = "parents"
  BY <1>2, <1>5 DEF ParentMatch, Represented
<1>6. CASE vertical = "audit"
  BY <1>2, <1>3, <1>6 DEF AuditMatch, Represented
<1> QED
  BY <1>1, <1>4, <1>5, <1>6 DEF AllVerticals

LEMMA RepresentedStays ==
  ASSUME RowsStay, NEW r \in Records, NEW c, c # 0, Represented(r, c)
  PROVE  Represented(r, c)'
  BY DEF RowsStay, Represented

LEMMA JobsAreJobs ==
  ASSUME NEW s \in JobState
  PROVE  /\ s.pc # "idle" => s \in [pc : {"planning", "planned", "applying", "verifying", "verified"},
                                     activates : BOOLEAN, recovery : BOOLEAN,
                                     plan : [Records -> 0..MaxContents], unsafe : SUBSET Records,
                                     todo : SUBSET Records]
         /\ Sleeping \in JobState /\ Sleeping.pc = "idle"
  BY DEF JobState, Sleeping

LEMMA CutoverBegins == CutoverInit => CutoverInv
<1> SUFFICES ASSUME CutoverInit PROVE CutoverInv
  OBVIOUS
<1>1. CutoverTypeOK
  <2>1. 0 .. 1 \subseteq 0 .. MaxContents /\ 0 \in 0 .. MaxContents /\ 0 \in 0 .. MaxEvents
    BY CutoverAssumption
  <2>2. Absent \in Rows /\ Sleeping \in JobState
    BY <2>1 DEF Absent, Rows, JobState
  <2>3. source \in [Records -> 0 .. MaxContents]
    BY <2>1 DEF CutoverInit
  <2> QED
    BY <2>1, <2>2, <2>3 DEF CutoverInit, CutoverTypeOK
<1>2. VerifiedIsThere /\ AttestedIsThere
  BY DEF CutoverInit, VerifiedIsThere, AttestedIsThere, Sleeping
<1> QED
  BY <1>1, <1>2 DEF CutoverInv

(* A run that goes to "next" knows what it has verified, and the others     *)
(* what they had.                                                           *)
LEMMA JobsKeep ==
  ASSUME CutoverInv, RowsStay, NEW j \in Jobs, NEW next \in JobState, job' = [job EXCEPT ![j] = next],
         next.pc \in {"verifying", "verified"} =>
           \A r \in Records : next.plan[r] # 0 =>
             Represented(r, next.plan[r])' \/ (next.pc = "verifying" /\ r \in next.todo)
  PROVE  job' \in [Jobs -> JobState] /\ VerifiedIsThere'
<1>1. job' \in [Jobs -> JobState] /\ job'[j] = next /\ \A i \in Jobs \ {j} : job'[i] = job[i]
  BY DEF CutoverInv, CutoverTypeOK
<1>2. ASSUME NEW i \in Jobs \ {j}, job[i].pc \in {"verifying", "verified"}, NEW r \in Records,
             job[i].plan[r] # 0
      PROVE  Represented(r, job[i].plan[r])' \/ (job'[i].pc = "verifying" /\ r \in job'[i].todo)
  <2>1. PICK c : c = job[i].plan[r]
    OBVIOUS
  <2>2. Represented(r, c) \/ (job[i].pc = "verifying" /\ r \in job[i].todo)
    BY <1>2, <2>1 DEF CutoverInv, VerifiedIsThere
  <2>3. Represented(r, c) => Represented(r, c)'
    BY <1>2, <2>1, RepresentedStays
  <2> QED
    BY <1>1, <2>1, <2>2, <2>3 DEF Represented
<1> QED
  BY <1>1, <1>2 DEF VerifiedIsThere, Represented
LEMMA CutoverSteps ==
  CutoverInv /\ [CutoverNext]_cutoverVars => CutoverInv' /\ RowsStay
<1> SUFFICES ASSUME CutoverInv, [CutoverNext]_cutoverVars PROVE CutoverInv' /\ RowsStay
  OBVIOUS
<1> DEFINE Active == [pc : {"planning", "planned", "applying", "verifying", "verified"}, activates : BOOLEAN,
                      recovery : BOOLEAN, plan : [Records -> 0..MaxContents], unsafe : SUBSET Records,
                      todo : SUBSET Records]
<1>1. ASSUME NEW j \in Jobs, NEW next \in JobState, job' = [job EXCEPT ![j] = next], RowsStay,
             next.pc \in {"verifying", "verified"} =>
               \A r \in Records : next.plan[r] # 0 =>
                 Represented(r, next.plan[r])' \/ (next.pc = "verifying" /\ r \in next.todo),
             UNCHANGED <<vertical, source, reviewed, latch, attested, events>>,
             target' \in [Records -> Rows], aside' \in [Records -> 0 .. MaxContents]
      PROVE  CutoverInv'
  <2>1. job' \in [Jobs -> JobState] /\ VerifiedIsThere'
    BY <1>1, JobsKeep
  <2>2. AttestedIsThere'
    <3>1. SUFFICES ASSUME NEW r \in Records, attested'[r] # 0 PROVE Represented(r, attested[r])'
      BY <1>1 DEF AttestedIsThere, Represented
    <3>2. PICK c : c = attested[r]
      OBVIOUS
    <3>3. Represented(r, c)'
      BY <1>1, <3>1, <3>2, RepresentedStays DEF CutoverInv, AttestedIsThere
    <3> QED
      BY <1>1, <3>2, <3>3 DEF Represented
  <2>3. CutoverTypeOK'
    BY <1>1, <2>1 DEF CutoverInv, CutoverTypeOK
  <2> QED
    BY <2>1, <2>2, <2>3 DEF CutoverInv
<1>2. Sleeping \in JobState /\ Sleeping.pc = "idle"
  BY DEF JobState, Sleeping
<1>3. Rest => /\ RowsStay
              /\ UNCHANGED <<vertical, source, reviewed, latch, attested, events>>
              /\ target' \in [Records -> Rows] /\ aside' \in [Records -> 0 .. MaxContents]
  BY DEF Rest, RowsStay, IsRow, CutoverInv, CutoverTypeOK
<1>4. ASSUME NEW j \in Jobs, Rest, Quit(j) PROVE CutoverInv' /\ RowsStay
  BY <1>1, <1>2, <1>3, <1>4 DEF Quit
<1>5. ASSUME NEW j \in Jobs, Rest, NEW next \in JobState, job' = [job EXCEPT ![j] = next],
             next.pc \notin {"verifying", "verified"}
      PROVE  CutoverInv' /\ RowsStay
  BY <1>1, <1>3, <1>5
<1>6. ASSUME NEW j \in Jobs, job[j].pc # "idle" PROVE job[j] \in Active
  BY <1>6, JobsAreJobs DEF CutoverInv, CutoverTypeOK
<1>7. Active \subseteq JobState
  BY DEF JobState
<1> HIDE DEF Active
<1>8. ASSUME NEW j \in Jobs, Load(j) PROVE CutoverInv' /\ RowsStay
  <2>1. PICK activates \in BOOLEAN, recovery \in BOOLEAN :
          job' = [job EXCEPT ![j] = [pc |-> "planning", activates |-> activates,
                       recovery |-> recovery, plan |-> source, unsafe |-> {},
                       todo |-> {r \in Records : source[r] # 0}]]
    BY <1>8 DEF Load
  <2>2. PICK next : next = [pc |-> "planning", activates |-> activates,
                       recovery |-> recovery, plan |-> source, unsafe |-> {},
                       todo |-> {r \in Records : source[r] # 0}]
    OBVIOUS
  <2>3. next \in Active /\ next.pc = "planning"
    BY <2>2 DEF Active, CutoverInv, CutoverTypeOK
  <2> QED
    BY <1>5, <1>7, <1>8, <2>1, <2>2, <2>3 DEF Load
<1>9. ASSUME NEW j \in Jobs, Plan(j) PROVE CutoverInv' /\ RowsStay
  <2>1. job[j] \in Active /\ job[j].pc = "planning" /\ Rest
    BY <1>6, <1>9 DEF Plan
  <2>2. CASE job[j].todo = {}
    <3> DEFINE pc == IF job[j].activates THEN "verifying" ELSE "planned"
               todo == IF job[j].activates THEN {r \in Records : job[j].plan[r] # 0} ELSE {}
    <3>1. PICK next : next = [job[j] EXCEPT !.pc = pc, !.todo = todo]
      OBVIOUS
    <3>2. job' = [job EXCEPT ![j] = next]
      BY <1>9, <2>2, <3>1 DEF Plan, CutoverInv, CutoverTypeOK
    <3>3. next \in Active /\ next.pc = pc /\ next.todo = todo /\ next.plan = job[j].plan
      BY <2>1, <3>1 DEF Active
    <3>4. next.pc # "planned" => \A r \in Records : next.plan[r] # 0 => next.pc = "verifying" /\ r \in next.todo
      BY <3>3
    <3>5. next.pc \in {"planned", "verifying"}
      BY <3>3
    <3> HIDE DEF pc, todo
    <3> QED
      BY <1>1, <1>3, <1>7, <2>1, <3>2, <3>3, <3>4, <3>5
  <2>3. CASE job[j].todo # {}
    <3>1. CASE Quit(j)
      BY <1>4, <2>1, <3>1
    <3>2. CASE ~Quit(j)
      <4>1. PICK r \in job[j].todo :
              job' = [job EXCEPT ![j].todo = @ \ {r},
                                 ![j].unsafe = IF vertical = "audit" /\ r \notin reviewed THEN @ \cup {r} ELSE @]
        BY <1>9, <2>3, <3>2 DEF Plan
      <4> DEFINE unsafe == IF vertical = "audit" /\ r \notin reviewed THEN job[j].unsafe \cup {r}
                           ELSE job[j].unsafe
      <4>2. PICK next : next = [job[j] EXCEPT !.todo = @ \ {r}, !.unsafe = unsafe]
        OBVIOUS
      <4>3. job' = [job EXCEPT ![j] = next]
        BY <4>1, <4>2 DEF CutoverInv, CutoverTypeOK
      <4>4. next \in Active /\ next.pc = "planning"
        BY <2>1, <4>2 DEF Active
      <4> QED
        BY <1>5, <1>7, <2>1, <4>3, <4>4
    <3> QED
      BY <3>1, <3>2
  <2> QED
    BY <2>2, <2>3
<1>10. ASSUME NEW j \in Jobs, BeginApply(j) PROVE CutoverInv' /\ RowsStay
  <2>1. job[j] \in Active /\ Rest
    BY <1>6, <1>10 DEF BeginApply
  <2>2. CASE Quit(j)
    BY <1>4, <2>1, <2>2
  <2>3. CASE ~Quit(j)
    <3>1. PICK next : next = [job[j] EXCEPT !.pc = "applying", !.recovery = FALSE]
      OBVIOUS
    <3>2. job' = [job EXCEPT ![j] = next]
      BY <1>10, <2>3, <3>1 DEF BeginApply, CutoverInv, CutoverTypeOK
    <3>3. next \in Active /\ next.pc = "applying"
      BY <2>1, <3>1 DEF Active
    <3> QED
      BY <1>5, <1>7, <2>1, <3>2, <3>3
  <2> QED
    BY <2>2, <2>3
<1>11. ASSUME NEW j \in Jobs, Apply(j) PROVE CutoverInv' /\ RowsStay
  <2>1. PICK plan, unsafe, planned, safe :
          /\ plan = job[j].plan /\ unsafe = job[j].unsafe
          /\ planned = {r \in Records : plan[r] # 0} /\ safe = planned \ unsafe
    OBVIOUS
  <2>2. plan \in [Records -> 0 .. MaxContents]
    BY <1>6, <1>11, <2>1 DEF Apply, Active
  <2>3. \/ UNCHANGED <<target, aside>>
        \/ /\ \A r \in safe : Import(r, plan[r]) # Blocked
           /\ target' = [r \in Records |-> IF r \in safe THEN Import(r, plan[r]) ELSE target[r]]
           /\ aside' = [r \in Records |-> IF r \in planned \ safe /\ aside[r] = 0 THEN plan[r] ELSE aside[r]]
    BY <1>11, <2>1 DEF Apply
  <2>4. UNCHANGED <<vertical, source, reviewed, latch, attested, events>> /\ job' = [job EXCEPT ![j] = Sleeping]
    BY <1>11 DEF Apply, Quit
  <2>5. CASE UNCHANGED <<target, aside>>
    <3>1. RowsStay /\ target' \in [Records -> Rows] /\ aside' \in [Records -> 0 .. MaxContents]
      BY <2>4, <2>5, <1>3 DEF Rest
    <3> QED
      BY <1>1, <1>2, <2>4, <3>1
  <2>6. CASE ~UNCHANGED <<target, aside>>
    <3>1. \A r \in safe : /\ Import(r, plan[r]) \in Rows
                          /\ IsRow(target[r]) =>
                               /\ IsRow(Import(r, plan[r]))
                               /\ Import(r, plan[r]).content = target[r].content \/ vertical = "sharedCore"
      <4>1. \A r \in safe : r \in Records /\ plan[r] \in (0 .. MaxContents) \ {0} /\ Import(r, plan[r]) # Blocked
        BY <2>1, <2>2, <2>3, <2>6
      <4> QED
        BY <4>1, ImportLeaves DEF CutoverInv
    <3>2. target' \in [Records -> Rows] /\ aside' \in [Records -> 0 .. MaxContents]
      BY <2>2, <2>3, <2>6, <3>1 DEF CutoverInv, CutoverTypeOK
    <3>3. RowsStay
      BY <2>3, <2>4, <2>6, <3>1 DEF RowsStay, IsRow
    <3> QED
      BY <1>1, <1>2, <2>4, <3>2, <3>3
  <2> QED
    BY <2>5, <2>6
<1>12. ASSUME NEW j \in Jobs, Verify(j) PROVE CutoverInv' /\ RowsStay
  <2>1. job[j] \in Active /\ Rest /\ job[j].pc = "verifying"
    BY <1>6, <1>12 DEF Verify
  <2>2. CASE Quit(j)
    BY <1>4, <2>1, <2>2
  <2>3. ASSUME ~Quit(j), NEW r \in job[j].todo, Match(r, job[j].plan[r], job[j].unsafe),
               job' = [job EXCEPT ![j].todo = @ \ {r}]
        PROVE  CutoverInv' /\ RowsStay
    <3>1. PICK next : next = [job[j] EXCEPT !.todo = @ \ {r}]
      OBVIOUS
    <3>2. job' = [job EXCEPT ![j] = next]
      BY <2>3, <3>1 DEF CutoverInv, CutoverTypeOK
    <3>3. /\ next \in Active /\ next.pc = "verifying" /\ next.plan = job[j].plan
          /\ next.todo = job[j].todo \ {r} /\ r \in Records
      BY <2>1, <3>1 DEF Active
    <3>4. PICK plan, unsafe : plan = job[j].plan /\ unsafe = job[j].unsafe
      OBVIOUS
    <3>5. plan \in [Records -> 0 .. MaxContents]
      BY <2>1, <3>4 DEF Active
    <3>6. plan[r] # 0 => Represented(r, plan[r])
      BY <2>3, <3>3, <3>4, <3>5, MatchIsThere DEF CutoverInv
    <3>7. ASSUME NEW s \in Records, plan[s] # 0
          PROVE  Represented(s, plan[s])' \/ s \in next.todo
      <4>1. Represented(s, plan[s]) \/ s \in next.todo
        BY <2>1, <3>3, <3>4, <3>6, <3>7 DEF CutoverInv, VerifiedIsThere
      <4>2. Represented(s, plan[s]) => Represented(s, plan[s])'
        BY <1>3, <2>1, <3>7, RepresentedStays
      <4> QED
        BY <4>1, <4>2
    <3>8. \A s \in Records : next.plan[s] # 0 => Represented(s, next.plan[s])' \/ s \in next.todo
      BY <3>3, <3>4, <3>7
    <3> QED
      BY <1>1, <1>3, <1>7, <2>1, <3>2, <3>3, <3>8
  <2>4. ASSUME job[j].todo = {}, job' = [job EXCEPT ![j].pc = "verified"] PROVE CutoverInv' /\ RowsStay
    <3>1. PICK next : next = [job[j] EXCEPT !.pc = "verified"]
      OBVIOUS
    <3>2. job' = [job EXCEPT ![j] = next]
      BY <2>4, <3>1 DEF CutoverInv, CutoverTypeOK
    <3>3. next \in Active /\ next.pc = "verified" /\ next.plan = job[j].plan
      BY <2>1, <3>1 DEF Active
    <3>4. ASSUME NEW s \in Records, next.plan[s] # 0 PROVE Represented(s, next.plan[s])'
      <4>1. Represented(s, next.plan[s])
        BY <2>1, <2>4, <3>3, <3>4 DEF CutoverInv, VerifiedIsThere
      <4> QED
        BY <1>3, <2>1, <3>4, <4>1, RepresentedStays
    <3> QED
      BY <1>1, <1>3, <1>7, <2>1, <3>2, <3>3, <3>4
  <2> QED
    BY <1>12, <2>2, <2>3, <2>4 DEF Verify
<1>13. ASSUME NEW j \in Jobs, Activate(j) PROVE CutoverInv' /\ RowsStay
  <2>1. job[j] \in Active /\ job[j].pc = "verified"
    BY <1>6, <1>13 DEF Activate
  <2>2. /\ latch' = TRUE /\ attested' = job[j].plan /\ job' = [job EXCEPT ![j] = Sleeping]
        /\ UNCHANGED <<vertical, source, reviewed, target, aside, events>>
    BY <1>13 DEF Activate, Quit
  <2>3. RowsStay
    BY <2>2 DEF RowsStay, IsRow
  <2>4. job' \in [Jobs -> JobState] /\ VerifiedIsThere'
    BY <1>2, <2>2, <2>3, JobsKeep
  <2>5. \A r \in Records : attested'[r] # 0 => Represented(r, attested'[r])
    BY <2>1, <2>2 DEF CutoverInv, VerifiedIsThere
  <2>6. AttestedIsThere'
    BY <2>2, <2>5 DEF AttestedIsThere, Represented, IsRow
  <2>7. CutoverTypeOK'
    BY <2>1, <2>2, <2>4 DEF CutoverInv, CutoverTypeOK, Active
  <2> QED
    BY <2>3, <2>4, <2>6, <2>7 DEF CutoverInv
<1>14. ASSUME NEW j \in Jobs, JobDies(j) PROVE CutoverInv' /\ RowsStay
  BY <1>4, <1>14 DEF JobDies
<1>15. ASSUME RowsStay, CutoverTypeOK', UNCHANGED <<job, attested>> PROVE CutoverInv'
  <2>1. \A r \in Records, c \in (0 .. MaxContents) \ {0} : Represented(r, c) => Represented(r, c)'
    BY <1>15, RepresentedStays
  <2>2. AttestedIsThere'
    BY <1>15, <2>1 DEF CutoverInv, CutoverTypeOK, AttestedIsThere, Represented
  <2>3. VerifiedIsThere'
    <3>1. ASSUME NEW j \in Jobs, job[j].pc \in {"verifying", "verified"}, NEW r \in Records, job[j].plan[r] # 0
          PROVE  Represented(r, job[j].plan[r])' \/ (job'[j].pc = "verifying" /\ r \in job'[j].todo)
      <4>1. PICK c : c = job[j].plan[r]
        OBVIOUS
      <4>2. Represented(r, c) \/ (job[j].pc = "verifying" /\ r \in job[j].todo)
        BY <3>1, <4>1 DEF CutoverInv, VerifiedIsThere
      <4>3. Represented(r, c) => Represented(r, c)'
        BY <1>15, <3>1, <4>1, RepresentedStays
      <4> QED
        BY <1>15, <4>1, <4>2, <4>3 DEF Represented
    <3> QED
      BY <1>15, <3>1 DEF VerifiedIsThere, Represented
  <2> QED
    BY <1>15, <2>2, <2>3 DEF CutoverInv
<1>16. ASSUME NEW r \in Records, LegacyWrite(r) PROVE CutoverInv' /\ RowsStay
  <2>1. RowsStay
    BY <1>16 DEF LegacyWrite, RowsStay, IsRow
  <2>2. source' \in [Records -> 0 .. MaxContents]
    <3>1. source[r] < MaxContents => source[r] + 1 \in 0 .. MaxContents
      BY CutoverAssumption DEF CutoverInv, CutoverTypeOK
    <3>2. 0 \in 0 .. MaxContents
      BY CutoverAssumption
    <3> QED
      BY <1>16, <3>1, <3>2 DEF LegacyWrite, CutoverInv, CutoverTypeOK
  <2>3. events' \in 0 .. MaxEvents
    BY <1>16, CutoverAssumption DEF LegacyWrite, Happens, CutoverInv, CutoverTypeOK
  <2> QED
    BY <1>15, <1>16, <2>1, <2>2, <2>3 DEF LegacyWrite, CutoverInv, CutoverTypeOK
<1>17. ASSUME NEW r \in Records, ReviewMapping(r) PROVE CutoverInv' /\ RowsStay
  <2>1. RowsStay
    BY <1>17 DEF ReviewMapping, RowsStay, IsRow
  <2>2. events' \in 0 .. MaxEvents /\ reviewed' \subseteq Records
    BY <1>17, CutoverAssumption DEF ReviewMapping, Happens, CutoverInv, CutoverTypeOK
  <2> QED
    BY <1>15, <1>17, <2>1, <2>2 DEF ReviewMapping, CutoverInv, CutoverTypeOK
<1>18. ASSUME NEW r \in Records, NativeChange(r) PROVE CutoverInv' /\ RowsStay
  <2>1. events' \in 0 .. MaxEvents
    BY <1>18, CutoverAssumption DEF NativeChange, Happens, CutoverInv, CutoverTypeOK
  <2>2. PICK row \in Rows :
          /\ target' = [target EXCEPT ![r] = row]
          /\ row.content = target[r].content \/ target[r] = Absent
          /\ UNCHANGED <<vertical, source, reviewed, aside, latch, job, attested>>
    <3>1. target[r] \in Rows
      BY DEF CutoverInv, CutoverTypeOK
    <3>2. CASE target' = [target EXCEPT ![r] = Taken] /\ target[r] = Absent
      <4>1. Taken \in Rows /\ Taken.content = target[r].content
        BY <3>2, CutoverAssumption DEF Rows, Taken, Absent
      <4> QED
        BY <1>18, <3>2, <4>1 DEF NativeChange
    <3>3. ASSUME NEW fact \in {"facts", "stock"}, target' = [target EXCEPT ![r].changed = @ \cup {fact}]
          PROVE  \E row \in Rows : target' = [target EXCEPT ![r] = row] /\ row.content = target[r].content
      <4>1. PICK old, row : old = target[r] /\ row = [old EXCEPT !.changed = @ \cup {fact}]
        OBVIOUS
      <4>2. row \in Rows /\ row.content = target[r].content
        BY <3>1, <4>1 DEF Rows
      <4>3. target' = [target EXCEPT ![r] = row]
        BY <3>3, <4>1 DEF CutoverInv, CutoverTypeOK
      <4> QED
        BY <4>2, <4>3
    <3>4. CASE LinkChild(r)
      <4>1. {Taken} \cup {Fresh(c) : c \in 1 .. MaxContents} \subseteq Rows
        BY CutoverAssumption DEF Rows, Fresh, Taken
      <4> QED
        BY <1>18, <3>4, <4>1 DEF LinkChild, NativeChange
    <3> QED
      BY <1>18, <3>2, <3>3, <3>4 DEF NativeChange
  <2>3. RowsStay /\ target' \in [Records -> Rows]
    BY <2>2 DEF RowsStay, IsRow, Absent, CutoverInv, CutoverTypeOK
  <2> QED
    BY <1>15, <1>18, <2>1, <2>2, <2>3 DEF NativeChange, CutoverInv, CutoverTypeOK
<1>19. CASE UNCHANGED cutoverVars
  BY <1>15, <1>19 DEF cutoverVars, RowsStay, IsRow, CutoverInv, CutoverTypeOK
<1> QED
  BY <1>8, <1>9, <1>10, <1>11, <1>12, <1>13, <1>14, <1>16, <1>17, <1>18, <1>19 DEF CutoverNext

(* What a verification attested stays true after the latch is set.          *)
THEOREM AttestedStays == CutoverSpec => []AttestedIsImported
<1>1. CutoverInv => AttestedIsImported
  BY DEF CutoverInv, AttestedIsThere, AttestedIsImported, Represented
<1> QED
  BY <1>1, CutoverBegins, CutoverSteps, PTL DEF CutoverSpec

(* What the runtime wrote stays when an import is applied.                  *)
LEMMA ImportKeepsWrites ==
  ASSUME CutoverTypeOK, NEW j \in Jobs, Apply(j), vertical \notin {"queue", "sharedCore"}, NEW r \in Records
  PROVE  /\ target[r] = Taken => target'[r] = Taken
         /\ IsRow(target[r]) => target'[r] = target[r]
<1>1. PICK plan, safe :
        /\ plan = job[j].plan /\ safe = {s \in Records : plan[s] # 0} \ job[j].unsafe
  OBVIOUS
<1>2. plan \in [Records -> 0 .. MaxContents]
  BY <1>1, JobsAreJobs DEF Apply, CutoverTypeOK
<1>3. \/ UNCHANGED target
      \/ /\ \A s \in safe : Import(s, plan[s]) # Blocked
         /\ target' = [s \in Records |-> IF s \in safe THEN Import(s, plan[s]) ELSE target[s]]
  BY <1>1 DEF Apply
<1>4. CASE UNCHANGED target
  BY <1>4
<1>5. CASE ~UNCHANGED target /\ r \in safe
  <2>1. Import(r, plan[r]) # Blocked /\ plan[r] \in (0 .. MaxContents) \ {0} /\ target'[r] = Import(r, plan[r])
    BY <1>1, <1>2, <1>3, <1>5
  <2> QED
    BY <2>1, ImportLeaves
<1>6. CASE ~UNCHANGED target /\ r \notin safe
  BY <1>3, <1>6
<1> QED
  BY <1>4, <1>5, <1>6

(* Imports take nothing back that the runtime has written.                  *)
THEOREM WritesSurvive == CutoverSpec => NativeChangesSurvive
<1> DEFINE Keeps == vertical \notin {"queue", "sharedCore"} =>
         \A r \in Records :
            /\ target[r] = Taken => target'[r] = Taken
            /\ IsRow(target[r]) => /\ IsRow(target'[r])
                                   /\ target'[r].content = target[r].content
                                   /\ target[r].changed \subseteq target'[r].changed
<1>1. CutoverInv /\ [CutoverNext]_cutoverVars => [Keeps]_cutoverVars
  <2> SUFFICES ASSUME CutoverInv, CutoverNext, vertical \notin {"queue", "sharedCore"}, NEW r \in Records
               PROVE  /\ target[r] = Taken => target'[r] = Taken
                      /\ IsRow(target[r]) => /\ IsRow(target'[r])
                                             /\ target'[r].content = target[r].content
                                             /\ target[r].changed \subseteq target'[r].changed
    OBVIOUS
  <2>1. CASE \E j \in Jobs : Apply(j)
    BY <2>1, ImportKeepsWrites DEF CutoverInv
  <2>2. CASE \E s \in Records : NativeChange(s)
    <3>1. PICK s \in Records : NativeChange(s)
      BY <2>2
    <3>2. ASSUME NEW row, target[s] = Absent, target' = [target EXCEPT ![s] = row]
          PROVE  /\ target[r] = Taken => target'[r] = Taken
                 /\ IsRow(target[r]) => target'[r] = target[r]
      <4>1. Absent # Taken /\ ~IsRow(Absent)
        BY DEF IsRow, Taken, Absent
      <4>2. target'[r] = IF r = s THEN row ELSE target[r]
        BY <3>2 DEF CutoverInv, CutoverTypeOK
      <4> QED
        BY <3>2, <4>1, <4>2
    <3>3. ASSUME NEW fact, IsRow(target[s]), target' = [target EXCEPT ![s].changed = @ \cup {fact}]
          PROVE  /\ target[r] = Taken => target'[r] = Taken
                 /\ IsRow(target[r]) => /\ IsRow(target'[r])
                                        /\ target'[r].content = target[r].content
                                        /\ target[r].changed \subseteq target'[r].changed
      <4>1. ~IsRow(Taken)
        BY DEF IsRow, Taken
      <4>2. PICK old, row : old = target[s] /\ row = [old EXCEPT !.changed = @ \cup {fact}]
        OBVIOUS
      <4>3. target'[r] = IF r = s THEN row ELSE target[r]
        BY <3>3, <4>2 DEF CutoverInv, CutoverTypeOK
      <4>4. old \in Rows /\ row.content = old.content /\ old.changed \subseteq row.changed
        BY <4>2 DEF CutoverInv, CutoverTypeOK, Rows
      <4> QED
        BY <3>3, <4>1, <4>2, <4>3, <4>4 DEF IsRow
    <3> QED
      BY <3>1, <3>2, <3>3 DEF NativeChange, LinkChild
  <2>3. CASE UNCHANGED target
    BY <2>3
  <2> QED
    BY <2>1, <2>2, <2>3
       DEF CutoverNext, Load, Plan, BeginApply, Verify, Activate, JobDies, Rest, LegacyWrite, ReviewMapping
<1> QED
  BY <1>1, CutoverBegins, CutoverSteps, PTL DEF CutoverSpec, NativeChangesSurvive

------------------------------------------------------------------------------
(* Renewals, first activations and cutovers share no rows, so what each     *)
(* promises it also promises beside the others.                             *)
LEMMA CommerceSteps ==
  ASSUME [CommerceNext]_<<vars, activationVars, cutoverVars>>
  PROVE  [Next]_vars /\ [ActivationNext]_activationVars /\ [CutoverNext]_cutoverVars
<1>1. CASE UNCHANGED <<vars, activationVars, cutoverVars>>
  BY <1>1
<1>2. CASE CommerceNext
  BY <1>2 DEF CommerceNext, ActivationRests, CutoverRests, RenewalRests
<1> QED
  BY <1>1, <1>2

LEMMA CommerceBehaves == CommerceSpec => Spec /\ ActivationSpec /\ CutoverSpec
<1>1. CommerceInit => Init /\ ActivationInit /\ CutoverInit
  BY DEF CommerceInit
<1> QED
  BY <1>1, CommerceSteps, PTL DEF CommerceSpec, Spec, ActivationSpec, CutoverSpec

(* What each component keeps at every moment: a period has one open         *)
(* renewal, an agreement is activated when exactly its total is confirmed,  *)
(* nobody's phone has two requests in one cooldown, no two owners are one   *)
(* person, and every row is one its table allows.                           *)
THEOREM CommerceKept == CommerceSpec => []CommerceInv
<1>1. CutoverSpec => []CutoverTypeOK
  <2>1. CutoverInv => CutoverTypeOK
    BY DEF CutoverInv
  <2> QED
    BY <2>1, CutoverBegins, CutoverSteps, PTL DEF CutoverSpec
<1>2. (TypeOK /\ OneActionablePerPeriod /\ ActivationTypeOK /\ PaidExactly
       /\ (OwnersAreDistinct /\ OneRequestPerCooldown) /\ CutoverTypeOK) => CommerceInv
  BY DEF CommerceInv
<1> QED
  BY <1>1, <1>2, CommerceBehaves, TypeCorrect, OneActionable, CommerceTyped, PaidInFull, OnePhone, PTL
=============================================================================
