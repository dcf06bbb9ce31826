------------------------------- MODULE MCBusiness -------------------------------
(* Small instances of what a branch has and offers: the stock ledger, and   *)
(* services with their appointments and customers; of the forms commands    *)
(* are given in, and of deployments.  They share no rows here, so one runs  *)
(* at a time and the others rest in their first state.                      *)
EXTENDS MCStock, Schedule, Migrator, Forms

(* The legacy documents are about the first customer.                       *)
MCClientOf == [d \in Documents |-> Min(Clients)]

(* A release, one that adds a migration, and one that adds a file before it *)
(* and has changed it: there the new file runs and the changed one refuses. *)
MCReleases == {{<<1, "a">>}, {<<1, "a">>, <<3, "a">>}, {<<1, "a">>, <<2, "a">>, <<3, "b">>}}

StockRests == Init /\ UNCHANGED vars
ScheduleRests == ScheduleInit /\ UNCHANGED scheduleVars
MigratorRests == MigratorInit /\ UNCHANGED migratorVars
FormsRest == FormsInit /\ UNCHANGED formsVars

BusinessInit == Init /\ ScheduleInit /\ MigratorInit /\ FormsInit

(* Requests and deployments are named like transactions, bookings and what  *)
(* is filled in like units, so that few permutations are left to apply.     *)
BusinessNext ==
  \/ ScheduleRests /\ MigratorRests /\ FormsRest /\ Next
  \/ StockRests /\ MigratorRests /\ FormsRest /\ ScheduleNext
  \/ StockRests /\ ScheduleRests /\ FormsRest /\ MigratorNext
  \/ StockRests /\ ScheduleRests /\ MigratorRests /\ FormsNext

BusinessSpec == BusinessInit /\ [][BusinessNext]_<<vars, scheduleVars, migratorVars, formsVars>>

(* What each component keeps at every moment: its rows are what its tables  *)
(* allow, a balance is the sum of its movements, merged customers lead to   *)
(* one that is not, and a migration that was executed is recorded.          *)
BusinessInv ==
  TypeOK /\ BalanceIsLedger /\ ScheduleTypeOK /\ MergesEnd /\ ExecutedIsRecorded
=============================================================================
