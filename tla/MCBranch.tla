------------------------------- MODULE MCBranch -------------------------------
(* Small instances of what the staff of a branch do, the visits of its     *)
(* days and its leads, and of the browser tab they do it in.  They share   *)
(* no state, so one runs at a time and the others rest in their first.     *)
EXTENDS Visits, Crm, Browser

MCRecommended == {CHOOSE s \in Stages : TRUE}
MCCapabilities == {"crm"}

(* Calls are named like sessions.                                           *)
BranchSymmetry == Permutations(Txns) \cup Permutations(Workspaces)

VisitsRest == VisitsInit /\ UNCHANGED visitVars
CrmRests == CrmInit /\ UNCHANGED crmVars
BrowserRests == BrowserInit /\ UNCHANGED browserVars

BranchNext ==
  \/ CrmRests /\ BrowserRests /\ VisitsNext
  \/ VisitsRest /\ BrowserRests /\ CrmNext
  \/ VisitsRest /\ CrmRests /\ BrowserNext

BranchInit == VisitsInit /\ CrmInit /\ BrowserInit
BranchSpec == BranchInit /\ [][BranchNext]_<<visitVars, crmVars, browserVars>>

(* The leads alone, without symmetry, for what the code does not keep.      *)
LeadsSpec == BranchInit /\ [][VisitsRest /\ BrowserRests /\ CrmNext]_<<visitVars, crmVars, browserVars>>

(* What each component keeps at every moment: its rows are what its tables  *)
(* allow, a day's tokens are numbered without gaps, and whoever may allot   *)
(* one has looked for the token of its key.                                 *)
BranchInv ==
  /\ VisitsTypeOK /\ NumbersWithoutGaps /\ ArrivalRetriesAgree
  /\ CrmTypeOK
  /\ BrowserTypeOK
=============================================================================
