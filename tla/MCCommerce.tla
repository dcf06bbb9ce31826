------------------------------ MODULE MCCommerce ------------------------------
(* Small instances of what is sold to an organization, renewals and first  *)
(* activations, and of the cutover that imports its data.  They share no   *)
(* rows, so one runs at a time and the others rest in their first state.   *)
EXTENDS MCRenewal, Activation, Cutover

(* Both requests come from one phone.                                       *)
MCPhoneOf == [r \in Requests |-> "phone"]

(* Requests and documents are named like renewals, jobs like sessions, so   *)
(* that few permutations are left to apply.                                 *)
CommerceSymmetry == Permutations(Renewals) \cup Permutations(Txns)

(* Which subscription there is matters to the renewals only.                *)
RenewalRests == sub = Row("trialing", 0, 1, p1) /\ Init /\ UNCHANGED vars
ActivationRests == ActivationInit /\ UNCHANGED activationVars
(* What is to be imported matters to the cutover only.                      *)
NothingImported ==
  /\ vertical = (CHOOSE v \in Verticals : TRUE) /\ source = [r \in Records |-> 1] /\ reviewed = Records
  /\ CutoverInit
CutoverRests == NothingImported /\ UNCHANGED cutoverVars

(* What is imported exists at first; it is deleted, if at all, meanwhile.   *)
CommerceInit == Init /\ ActivationInit /\ CutoverInit /\ \A r \in Records : source[r] # 0

CommerceNext ==
  \/ ActivationRests /\ CutoverRests /\ Next
  \/ RenewalRests /\ CutoverRests /\ ActivationNext
  \/ RenewalRests /\ ActivationRests /\ CutoverNext

CommerceSpec == CommerceInit /\ [][CommerceNext]_<<vars, activationVars, cutoverVars>>

(* The cutover alone, without symmetry, for what the code does not keep.    *)
ImportSpec ==
  /\ CommerceInit
  /\ [][RenewalRests /\ ActivationRests /\ CutoverNext]_<<vars, activationVars, cutoverVars>>

(* What each component keeps at every moment: its rows are what its tables  *)
(* allow, a period has one open renewal, an agreement is activated when     *)
(* exactly its total is confirmed, nobody's phone has two requests in one   *)
(* cooldown, and no two owners are one person.                              *)
CommerceInv ==
  /\ TypeOK /\ OneActionablePerPeriod
  /\ ActivationTypeOK /\ PaidExactly /\ OwnersAreDistinct /\ OneRequestPerCooldown
  /\ CutoverTypeOK
=============================================================================
