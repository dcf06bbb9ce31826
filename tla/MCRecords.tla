------------------------------ MODULE MCRecords -------------------------------
(* Small instances of the registers of an organization, of the fields it   *)
(* adds to its records, of its administration and of what it may use.      *)
(* They share no rows, so one component runs at a time and the others rest *)
(* in their first state.                                                   *)
EXTENDS Dues, Attendance, Organization, Fields, Access, TLC

(* One imported charge of 1 in every branch.                                *)
MCLegacyDues ==
  {Posting(<<"legacy", b>>, [kind |-> "charge", amount |-> 1, branch |-> b, customer |-> c]) :
     b \in Branches, c \in Customers}

MCGrants == {{"staff"}, {"staff", "crm"}}

(* The base plan sells the queue; a later release adds tasks to it and as   *)
(* an add-on.                                                               *)
FirstRelease ==
  [modules |-> {"queue"}, addOns |-> <<>>,
   plans |-> "core" :> [sold |-> TRUE, modules |-> {"queue"}, limit |-> 2]]
SecondRelease ==
  [modules |-> {"queue", "tasks"},
   plans |-> "core" :> [sold |-> TRUE, modules |-> {"queue", "tasks"}, limit |-> 2],
   addOns |-> "extra" :> [sold |-> TRUE, modules |-> {"tasks"}, add |-> 0, override |-> 1]]
MCCatalogues == {FirstRelease, SecondRelease}

Edit(status, starts, ends, plan, addOns) ==
  [status |-> status, starts |-> starts, ends |-> ends, plan |-> plan, addOns |-> addOns]
MCContractEdits ==
  {Edit("active", 0, 1, "core", <<>>),
   Edit("active", NoEnd, 2, "core", "extra" :> [starts |-> 1, ends |-> NoEnd]),
   Edit("suspended", NoEnd, NoEnd, NoPlan, <<>>),
   Edit("trialing", 1, NoEnd, NoPlan, "extra" :> [starts |-> 0, ends |-> 2])}
MCExceptionEdits ==
  {[effect |-> "revoke", active |-> TRUE, window |-> [starts |-> 1, ends |-> NoEnd]],
   [effect |-> "grant", active |-> TRUE, window |-> [starts |-> 0, ends |-> NoEnd]]}

(* People are named like keys, so that few permutations are left to apply.  *)
RecordsSymmetry == UNION {Permutations(S) : S \in {Txns, Keys, Branches, Days}}

DuesRest == DuesInit /\ UNCHANGED duesVars
AttendanceRests == AttendanceInit /\ UNCHANGED attendanceVars
OrganizationRests == OrganizationInit /\ UNCHANGED orgVars
FieldsRest == FieldsInit /\ UNCHANGED fieldVars

AccessRests == catalogue = FirstRelease /\ AccessInit /\ UNCHANGED accessVars

RecordsNext ==
  \/ AttendanceRests /\ OrganizationRests /\ FieldsRest /\ AccessRests /\ DuesNext
  \/ DuesRest /\ OrganizationRests /\ FieldsRest /\ AccessRests /\ AttendanceNext
  \/ DuesRest /\ AttendanceRests /\ FieldsRest /\ AccessRests /\ OrganizationNext
  \/ DuesRest /\ AttendanceRests /\ OrganizationRests /\ AccessRests /\ FieldsNext
  \/ DuesRest /\ AttendanceRests /\ OrganizationRests /\ FieldsRest /\ AccessNext

RecordsInit == DuesInit /\ AttendanceInit /\ OrganizationInit /\ FieldsInit /\ AccessInit

RecordsSpec == RecordsInit /\ [][RecordsNext]_<<duesVars, attendanceVars, orgVars, fieldVars, accessVars>>

(* What each component keeps at every moment: its rows are what its tables  *)
(* allow, a key posts and marks once, the history of corrections leads to   *)
(* what a record says, nobody has an archived role, a required field is     *)
(* shown, and an add-on takes nothing away.                                 *)
RecordsInv ==
  /\ DuesTypeOK /\ DueRetriesAgree
  /\ AttendanceTypeOK /\ HistoryIsComplete /\ KeyMarksOnce
  /\ OrganizationTypeOK /\ ArchivedRolesUnused
  /\ FieldsTypeOK /\ RequiredAreShown
  /\ AccessTypeOK /\ AddOnsOnlyAdd
=============================================================================
