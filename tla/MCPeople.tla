------------------------------- MODULE MCPeople -------------------------------
(* Small instances of what concerns the people of an organization: their   *)
(* accounts, their leave and shifts, their tasks.  An account shares no    *)
(* rows with the others; leave and tasks share what the administration     *)
(* says of a person, of which each reads its own part.                     *)
EXTENDS MCAccount, Hr, Tasks

HrCapabilities == {"hr_plus.manage", "hr_plus.approve"}
TaskCapabilities == {"tasks.manage", "tasks.manage_own"}
MCCapabilities == HrCapabilities \cup TaskCapabilities

AccountRests == email = [verified |-> NoEmail, pending |-> NoEmail] /\ Init /\ UNCHANGED vars

NothingPlanned ==
  /\ day = 1 /\ offered = {} /\ leaves = [l \in Leaves |-> NoLeave] /\ shifts = [s \in Shifts |-> NoShift]
  /\ UNCHANGED <<day, offered, leaves, shifts>>

NothingToDo ==
  /\ tasks = [t \in TaskIds |-> <<>>] /\ remembered = [k \in Keys |-> Unused] /\ reply = NoReply
  /\ UNCHANGED <<tasks, remembered, reply>>

Granted(capabilities) == \A p \in People \ {Owner} : staff'[p].may \subseteq capabilities
(* Who plans shifts also reviews leave.                                     *)
GrantedTogether(capabilities) == \A p \in People \ {Owner} : staff'[p].may \in {{}, capabilities}

PeopleNext ==
  \/ NothingPlanned /\ NothingToDo /\ StaffInit /\ UNCHANGED staff /\ Next
  \/ AccountRests /\ NothingToDo /\ HrNext /\ GrantedTogether(HrCapabilities)
  \/ AccountRests /\ NothingPlanned /\ TasksNext /\ Granted(TaskCapabilities)

PeopleInit == Init /\ HrInit /\ TasksInit

PeopleSpec == PeopleInit /\ [][PeopleNext]_<<vars, hrVars, taskVars>>

(* What each component keeps at every moment: its rows are what its tables  *)
(* allow, among them disjoint leave and shifts, and the remembered commands *)
(* of a task explain its history.                                           *)
PeopleInv == TypeOK /\ HrTypeOK /\ TasksTypeOK /\ CommandsExplainHistory
=============================================================================
