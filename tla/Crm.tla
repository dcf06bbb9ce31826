--------------------------------- MODULE Crm ---------------------------------
(***************************************************************************)
(* Leads and their follow-ups in one branch, and the organization's        *)
(* pipeline.  A command runs REPEATABLE READ, and its first statement      *)
(* waits for the organization's row: what it reads once it has the row is  *)
(* what was committed before it began to wait.  Only a row it locks or     *)
(* updates is compared with the present: if that row changed since, the    *)
(* transaction is aborted.  So a command is two steps: what it checks is   *)
(* decided when its snapshot is taken; later it has the organization, and  *)
(* does what it does if the rows it locks are still those of the snapshot. *)
(***************************************************************************)
EXTENDS Commands, Staffing

CONSTANTS
  Leads, Followups, Stages,
  Recommended,   \* the stages of the recommended pipeline
  MaxStages,     \* the code's limit on stages, fifty
  MaxVersion     \* bound on the versions of a row

(* Rows of different tables have different ids.                             *)
ASSUME CrmAssumption ==
  /\ {MaxVersion, MaxStages} \subseteq Nat \ {0} /\ Recommended \subseteq Stages /\ "crm" \in Capabilities
  /\ Leads \cap Followups = {} /\ (Leads \cup Followups) \cap Stages = {}

VARIABLES stages, leads, followups, crmTx
crmVars == <<staff, stages, leads, followups, crmTx>>

Assignees == {{}} \cup {{p} : p \in People}
Versions == 1..MaxVersion

(* Version 0 is a row that was never inserted.                              *)
NoStage == [version |-> 0, active |-> FALSE]
NoLead == [version |-> 0, status |-> "none", stage |-> {}, assignee |-> {}]
NoFollowup == [version |-> 0, status |-> "none", lead |-> {}, assignee |-> {}]

StageRow == [version : 0..MaxVersion, active : BOOLEAN]
LeadRow == [version : 0..MaxVersion, status : {"none", "active", "lost", "archived", "converted"},
            stage : {{}} \cup {{s} : s \in Stages}, assignee : Assignees]
FollowupRow == [version : 0..MaxVersion, status : {"none", "pending", "completed", "cancelled"},
                lead : {{}} \cup {{l} : l \in Leads}, assignee : Assignees]

(***************************************************************************)
(* Commands                                                                *)
(***************************************************************************)
LeadCmd ==
  [op : {"create"}, lead : Leads, stage : Stages, assignee : Assignees]
    \cup [op : {"update"}, lead : Leads, version : Versions, stage : Stages, assignee : Assignees]
    \cup [op : {"state"}, lead : Leads, version : Versions, status : {"active", "lost", "archived"}]
    \cup [op : {"note", "convert"}, lead : Leads, version : Versions]
FollowupCmd ==
  [op : {"follow"}, lead : Leads, followup : Followups, assignee : Assignees]
    \cup [op : {"refollow"}, followup : Followups, version : Versions, assignee : Assignees]
    \cup [op : {"finish"}, followup : Followups, version : Versions, status : {"completed", "cancelled"}]
StageCmd ==
  [op : {"recommend"}] \cup [op : {"stage"}, stage : Stages, version : 0..MaxVersion, active : BOOLEAN]

CrmIdle == [cmd |-> [op |-> "idle"], rows |-> {}]

CrmInit ==
  /\ StaffInit
  /\ stages = [s \in Stages |-> NoStage] /\ leads = [l \in Leads |-> NoLead]
  /\ followups = [f \in Followups |-> NoFollowup]
  /\ crmTx = [t \in Txns |-> CrmIdle]

(* What a command looks up: an assignee works in the branch, a stage is in *)
(* use; a stage or an assignee that is kept is not looked up again.        *)
Eligible(who) == \A p \in who : WorksAt(staff, p, TheBranch)

StateChanges == {<<"active", "lost">>, <<"active", "archived">>, <<"lost", "archived">>,
                 <<"lost", "active">>, <<"archived", "active">>}

AcceptsLead(c) ==
  LET old == leads[c.lead] IN
  \/ c.op = "create" /\ stages[c.stage].active /\ Eligible(c.assignee)
  \/ /\ c.op = "update" /\ old.version = c.version /\ old.status = "active"
     /\ old.stage # {c.stage} => stages[c.stage].active
     /\ old.assignee # c.assignee => Eligible(c.assignee)
  \/ c.op = "state" /\ old.version = c.version /\ <<old.status, c.status>> \in StateChanges
  \/ c.op = "note" /\ old.version = c.version /\ old.status \in {"active", "lost"}
  \/ c.op = "convert" /\ old.version = c.version /\ old.status = "active"

OnActiveLead(f) == \A l \in followups[f].lead : leads[l].status = "active"

AcceptsFollowup(c) ==
  \/ c.op = "follow" /\ leads[c.lead].status = "active" /\ Eligible(c.assignee)
  \/ /\ c.op # "follow"
     /\ followups[c.followup].version = c.version /\ followups[c.followup].status = "pending"
     /\ c.op = "refollow" =>
          /\ OnActiveLead(c.followup)
          /\ followups[c.followup].assignee # c.assignee => Eligible(c.assignee)

(* The limit is counted in the snapshot: creations that overlap may pass it. *)
RoomForStage == Cardinality({s \in Stages : stages[s] # NoStage}) < MaxStages

AcceptsStage(c) ==
  \/ /\ c.op = "stage" /\ stages[c.stage].version = c.version
     /\ c.version = 0 => RoomForStage
  \/ c.op = "recommend" /\ \A s \in Stages : stages[s] = NoStage

(* The rows a command locks or updates, with the versions it sees.          *)
RowsOfLead(ls) == {<<l, leads[l].version>> : l \in ls}

LeadRows(c) == IF c.op = "create" THEN {} ELSE RowsOfLead({c.lead})

(* Mutant: opening a follow-up does not lock its lead.                      *)
FollowupRowsUnlocked(c) ==
  IF c.op = "follow" THEN {} ELSE {<<c.followup, c.version>>}
FollowupRows(c) ==
  IF c.op = "follow" THEN RowsOfLead({c.lead})
  ELSE RowsOfLead(followups[c.followup].lead) \cup {<<c.followup, c.version>>}

StageRows(c) == IF c.op = "stage" THEN {<<c.stage, c.version>>} ELSE {}

VersionOf(x) ==
  IF x \in Leads THEN leads[x].version
  ELSE IF x \in Followups THEN followups[x].version ELSE stages[x].version

StillAsSeen(t) == \A row \in crmTx[t].rows : VersionOf(row[1]) = row[2]

(***************************************************************************)
(* Steps                                                                   *)
(***************************************************************************)
CrmBegin(t, c, rows) ==
  /\ crmTx' = [crmTx EXCEPT ![t] = [cmd |-> c, rows |-> rows]]
  /\ UNCHANGED <<staff, stages, leads, followups>>

(* Somebody who may asks for something.  A conversion also asks for a right *)
(* to customers, which the owner has, and for an active customer, unless it *)
(* makes a new one: the owner may always convert, and no more is decided.   *)
CrmAsked(t) == crmTx[t] = CrmIdle /\ \E who \in People : May(staff, who, "crm")

CrmEnd(t) == crmTx' = [crmTx EXCEPT ![t] = CrmIdle]

CrmAbort(t) ==
  /\ crmTx[t] # CrmIdle /\ CrmEnd(t)
  /\ UNCHANGED <<staff, stages, leads, followups>>

Runs(t, op) == crmTx[t].cmd.op = op /\ StillAsSeen(t) /\ CrmEnd(t)

SetLead(l, row) ==
  /\ row.version <= MaxVersion /\ leads' = [leads EXCEPT ![l] = row]
  /\ UNCHANGED <<staff, stages, followups>>
SetFollowup(f, row) ==
  /\ row.version <= MaxVersion /\ followups' = [followups EXCEPT ![f] = row]
  /\ UNCHANGED <<staff, stages, leads>>

CreateLead(t) ==
  LET c == crmTx[t].cmd IN
  /\ Runs(t, "create") /\ leads[c.lead] = NoLead
  /\ SetLead(c.lead, [version |-> 1, status |-> "active", stage |-> {c.stage}, assignee |-> c.assignee])

UpdateLead(t) ==
  LET c == crmTx[t].cmd IN
  /\ Runs(t, "update")
  /\ SetLead(c.lead, [leads[c.lead] EXCEPT !.version = @ + 1, !.stage = {c.stage}, !.assignee = c.assignee])

ChangeState(t) ==
  LET c == crmTx[t].cmd IN
  Runs(t, "state") /\ SetLead(c.lead, [leads[c.lead] EXCEPT !.version = @ + 1, !.status = c.status])

AddNote(t) ==
  LET c == crmTx[t].cmd IN
  Runs(t, "note") /\ SetLead(c.lead, [leads[c.lead] EXCEPT !.version = @ + 1])

Convert(t) ==
  LET c == crmTx[t].cmd IN
  Runs(t, "convert") /\ SetLead(c.lead, [leads[c.lead] EXCEPT !.version = @ + 1, !.status = "converted"])

CreateFollowup(t) ==
  LET c == crmTx[t].cmd IN
  /\ Runs(t, "follow") /\ followups[c.followup] = NoFollowup
  /\ SetFollowup(c.followup, [version |-> 1, status |-> "pending", lead |-> {c.lead}, assignee |-> c.assignee])

UpdateFollowup(t) ==
  LET c == crmTx[t].cmd IN
  /\ Runs(t, "refollow")
  /\ SetFollowup(c.followup, [followups[c.followup] EXCEPT !.version = @ + 1, !.assignee = c.assignee])

(* Completing or cancelling asks nothing of the lead but its newest row.    *)
FinishFollowup(t) ==
  LET c == crmTx[t].cmd IN
  /\ Runs(t, "finish")
  /\ SetFollowup(c.followup, [followups[c.followup] EXCEPT !.version = @ + 1, !.status = c.status])

(* A new stage has a name no stage has: of two that add it, one is refused. *)
SaveStage(t) ==
  LET c == crmTx[t].cmd IN
  /\ Runs(t, "stage") /\ c.version < MaxVersion
  /\ stages' = [stages EXCEPT ![c.stage] = [version |-> c.version + 1, active |-> c.active]]
  /\ UNCHANGED <<staff, leads, followups>>

Recommend(t) ==
  /\ Runs(t, "recommend") /\ \A s \in Recommended : stages[s] = NoStage
  /\ stages' = [s \in Stages |-> IF s \in Recommended THEN [version |-> 1, active |-> TRUE] ELSE stages[s]]
  /\ UNCHANGED <<staff, leads, followups>>

CrmRun(t) ==
  \/ CreateLead(t) \/ UpdateLead(t) \/ ChangeState(t) \/ AddNote(t) \/ Convert(t)
  \/ CreateFollowup(t) \/ UpdateFollowup(t) \/ FinishFollowup(t)
  \/ SaveStage(t) \/ Recommend(t)

CrmNext ==
  \/ Administer /\ UNCHANGED <<stages, leads, followups, crmTx>>
  \/ \E t \in Txns :
       /\ CrmAsked(t)
       /\ \/ \E c \in LeadCmd : AcceptsLead(c) /\ CrmBegin(t, c, LeadRows(c))
          \/ \E c \in FollowupCmd : AcceptsFollowup(c) /\ CrmBegin(t, c, FollowupRows(c))
          \/ \E c \in StageCmd : AcceptsStage(c) /\ CrmBegin(t, c, StageRows(c))
  \/ \E t \in Txns : CrmRun(t) \/ CrmAbort(t)

CrmSpec == CrmInit /\ [][CrmNext]_crmVars

(***************************************************************************)
(* Properties                                                              *)
(***************************************************************************)
(* Rows have their columns, and only a lead that is there has follow-ups.  *)
CrmTypeOK ==
  /\ StaffTypeOK
  /\ stages \in [Stages -> StageRow] /\ leads \in [Leads -> LeadRow]
  /\ followups \in [Followups -> FollowupRow]
  /\ \A f \in Followups : \A l \in followups[f].lead : leads[l].version > 0

(* A follow-up is opened, or reassigned, only while its lead is active: a   *)
(* lead that was closed while the command waited stops it, although the    *)
(* snapshot still shows the lead active.                                    *)
FollowupsOnActiveLeads ==
  [][\A f \in Followups :
       followups'[f] # followups[f] /\ followups'[f].status = "pending"
         => \A l \in followups'[f].lead : leads[l].status = "active"]_crmVars

(* "New or reassigned inactive references are rejected": whoever a lead or *)
(* a follow-up is newly assigned to works in the branch at that moment.    *)
NewAssigneesWork ==
  [][/\ \A l \in Leads : \A p \in leads'[l].assignee \ leads[l].assignee : WorksAt(staff, p, TheBranch)
     /\ \A f \in Followups : \A p \in followups'[f].assignee \ followups[f].assignee :
          WorksAt(staff, p, TheBranch)]_crmVars
=============================================================================
