------------------------------- MODULE Staffing -------------------------------
(***************************************************************************)
(* What the components of one organization see of its administration: the  *)
(* branches each person works in and what that person may do there.  Every *)
(* component reads this from the membership, its role and its branches, at *)
(* the moment it runs; the administration changes it at any time.          *)
(***************************************************************************)
EXTENDS Tenant, Integers, FiniteSets

CONSTANT Capabilities   \* permissions the component distinguishes

VARIABLE staff

(* Who works nowhere is inactive, and may do nothing.                       *)
Standing == {s \in [at : SUBSET Branches, may : SUBSET Capabilities] : s.at = {} => s.may = {}}

OwnerStanding == [at |-> Branches, may |-> Capabilities]
NoStanding == [at |-> {}, may |-> {}]

StaffTypeOK == staff \in [People -> Standing] /\ staff[Owner] = OwnerStanding

StaffInit == staff = [p \in People |-> IF p = Owner THEN OwnerStanding ELSE NoStanding]

(* The branch that commands of one branch select.                            *)
TheBranch == CHOOSE b \in Branches : TRUE

WorksAt(sf, p, b) == b \in sf[p].at
May(sf, p, permission) == permission \in sf[p].may

(* Whatever command of the administration changes somebody's standing.      *)
Administer ==
  \E p \in People \ {Owner}, s \in Standing : s # staff[p] /\ staff' = [staff EXCEPT ![p] = s]
=============================================================================
