--------------------------- MODULE RecordsProofs ---------------------------
(***************************************************************************)
(* Proofs about the registers of an organization, its administration, the  *)
(* fields it adds to its records, and the modules it may use.              *)
(***************************************************************************)
EXTENDS MCRecords, SumProofs

-----------------------------------------------------------------------------
(* What Attendance promises, for all members, days, branches, sessions and *)
(* keys.  A correction is safe by its version alone: a record that is at   *)
(* the version a client names still says what the client had read, because *)
(* every write of a record raises its version.                             *)

(* A session is idle or runs a mark command.                                *)
Session == [cmd : MarkCmd \cup {[op |-> "idle"]}, held : SUBSET Subjects]

(* What a client read of a record that has not been written since.          *)
ReadIsCurrent ==
  \A t \in Txns :
    LET c == markTxn[t].cmd
    IN  c.op = "mark" /\ c.version # 0 =>
          /\ records[c.subject] # NoMark /\ c.version <= records[c.subject].version
          /\ c.version = records[c.subject].version => c.seen = {records[c.subject].facts}

AttendanceInv ==
  /\ AttendanceTypeOK /\ markTxn \in [Txns -> Session]
  /\ ReadIsCurrent /\ KeyMarksOnce /\ HistoryIsComplete

LEMMA Marked ==
  ASSUME AttendanceTypeOK, NEW s \in Subjects
  PROVE  /\ records[s] = NoMark \/ records[s] \in MarkRow
         /\ records[s] # NoMark => records[s] \in MarkRow /\ records[s].version # 0
         /\ records[s].version \in 0 .. MaxRecordVersion
  BY AttendanceAssumption DEF AttendanceTypeOK, MarkRow, NoMark

LEMMA IdleIsSession == NotInTxn \in Session /\ NotInTxn.cmd.op = "idle"
  BY DEF NotInTxn, Session

LEMMA AttendanceBegins == AttendanceInit => AttendanceInv
<1> SUFFICES ASSUME AttendanceInit PROVE AttendanceInv
  OBVIOUS
<1>1. markTxn \in [Txns -> Session] /\ \A t \in Txns : markTxn[t] = NotInTxn
  BY IdleIsSession DEF AttendanceInit, AllIdle
<1>2. AttendanceTypeOK
  BY <1>1 DEF AttendanceInit, AttendanceTypeOK
<1>3. ReadIsCurrent
  BY <1>1, IdleIsSession DEF ReadIsCurrent
<1>4. KeyMarksOnce
  BY DEF AttendanceInit, KeyMarksOnce
<1>5. HistoryIsComplete
  <2> SUFFICES ASSUME NEW s \in Subjects, NEW v \in 2 .. MaxRecordVersion PROVE v > records[s].version
    BY DEF AttendanceInit, HistoryIsComplete
  <2> QED
    BY AttendanceAssumption DEF AttendanceInit, NoMark
<1> QED
  BY <1>1, <1>2, <1>3, <1>4, <1>5 DEF AttendanceInv

(* Steps that write no record.                                              *)
LEMMA SessionStep ==
  ASSUME AttendanceInv, NEW t \in Txns, NEW x \in Session,
         markTxn' = [markTxn EXCEPT ![t] = x], UNCHANGED <<records, changes>>,
         x.cmd.op = "mark" =>
           /\ x.cmd \in MarkCmd
           /\ x.cmd.version # 0 =>
                /\ records[x.cmd.subject] # NoMark
                /\ x.cmd.version <= records[x.cmd.subject].version
                /\ x.cmd.version = records[x.cmd.subject].version
                     => x.cmd.seen = {records[x.cmd.subject].facts},
         x = NotInTxn \/ x.cmd \in MarkCmd
  PROVE  AttendanceInv'
<1> USE DEF AttendanceInv
<1>1. markTxn' \in [Txns -> Session] /\ markTxn'[t] = x /\ \A u \in Txns \ {t} : markTxn'[u] = markTxn[u]
  OBVIOUS
<1>2. AttendanceTypeOK'
  BY <1>1 DEF AttendanceTypeOK
<1>3. ReadIsCurrent'
  BY <1>1 DEF ReadIsCurrent
<1>4. KeyMarksOnce' /\ HistoryIsComplete'
  BY DEF KeyMarksOnce, HistoryIsComplete
<1> QED
  BY <1>1, <1>2, <1>3, <1>4

LEMMA BeginKeeps == ASSUME AttendanceInv, NEW t \in Txns, MarkBegin(t) PROVE AttendanceInv'
<1> USE DEF AttendanceInv
<1>1. PICK s \in Subjects, b \in Branches, f \in Facts, k \in Optional(Keys), correct \in BOOLEAN :
        /\ correct => k = {} /\ \E shown \in Branches : s \in Roster(shown)
        /\ markTxn' = Begun(markTxn, t,
             [op |-> "mark", subject |-> s, branch |-> b, facts |-> f, key |-> k,
              version |-> IF correct THEN records[s].version ELSE 0,
              seen |-> IF correct THEN {records[s].facts} ELSE {}])
  BY DEF MarkBegin
<1> DEFINE c == [op |-> "mark", subject |-> s, branch |-> b, facts |-> f, key |-> k,
                 version |-> IF correct THEN records[s].version ELSE 0,
                 seen |-> IF correct THEN {records[s].facts} ELSE {}]
<1>2. correct => records[s] # NoMark /\ records[s] \in MarkRow
  BY <1>1, Marked DEF Roster
<1>3. records[s].version \in 0 .. MaxRecordVersion /\ 0 \in 0 .. MaxRecordVersion
  BY Marked, AttendanceAssumption
<1>4. (IF correct THEN {records[s].facts} ELSE {}) \in Optional(Facts)
  BY <1>2 DEF Optional, MarkRow
<1>5. c \in MarkCmd
  BY <1>3, <1>4 DEF MarkCmd
<1>6. [cmd |-> c, held |-> {}] \in Session
  BY <1>5 DEF Session
<1>7. markTxn' = [markTxn EXCEPT ![t] = [cmd |-> c, held |-> {}]] /\ UNCHANGED <<records, changes>>
  BY <1>1 DEF Begun, MarkBegin
<1>8. c.version # 0 =>
        /\ records[c.subject] # NoMark /\ c.version <= records[c.subject].version
        /\ c.version = records[c.subject].version => c.seen = {records[c.subject].facts}
  BY <1>2, <1>3
<1> HIDE DEF c
<1> QED
  BY <1>5, <1>6, <1>7, <1>8, SessionStep

LEMMA LockKeeps == ASSUME AttendanceInv, NEW t \in Txns, MarkLock(t) PROVE AttendanceInv'
<1> USE DEF AttendanceInv
<1> DEFINE c == markTxn[t].cmd
           x == [cmd |-> c, held |-> markTxn[t].held \cup {c.subject}]
<1>1. markTxn[t] \in Session /\ c.op = "mark" /\ UNCHANGED <<records, changes>>
  BY DEF MarkLock
<1>2. c \in MarkCmd
  BY <1>1 DEF Session
<1>3. x \in Session /\ x.cmd = c
  BY <1>1, <1>2 DEF Session, MarkCmd
<1>4. markTxn' = [markTxn EXCEPT ![t] = x]
  <2>1. markTxn[t] = [cmd |-> c, held |-> markTxn[t].held]
    BY <1>1 DEF Session
  <2>2. [markTxn[t] EXCEPT !.held = @ \cup {c.subject}] = x
    BY <2>1
  <2> QED
    BY <2>2 DEF MarkLock, Locked
<1>5. c.version # 0 =>
        /\ records[c.subject] # NoMark /\ c.version <= records[c.subject].version
        /\ c.version = records[c.subject].version => c.seen = {records[c.subject].facts}
  BY <1>1 DEF ReadIsCurrent
<1> HIDE DEF x, c
<1> QED
  BY <1>1, <1>2, <1>3, <1>4, <1>5, SessionStep

LEMMA AbortKeeps == ASSUME AttendanceInv, NEW t \in Txns, MarkAbort(t) PROVE AttendanceInv'
<1>1. markTxn' = [markTxn EXCEPT ![t] = NotInTxn] /\ UNCHANGED <<records, changes>>
  BY DEF MarkAbort, Ended
<1> QED
  BY <1>1, IdleIsSession, SessionStep

-----------------------------------------------------------------------------
(* The two steps that write a record.                                       *)

LEMMA InsertKeeps == ASSUME AttendanceInv, NEW t \in Txns, MarkInsert(t) PROVE AttendanceInv'
<1> USE DEF AttendanceInv
<1> DEFINE c == markTxn[t].cmd
           row == [branch |-> c.branch, facts |-> c.facts, version |-> 1, key |-> c.key]
<1>1. /\ c.op = "mark" /\ records[c.subject] = NoMark /\ UnusedMarkKey(c)
      /\ records' = [records EXCEPT ![c.subject] = row] /\ markTxn' = [markTxn EXCEPT ![t] = NotInTxn]
      /\ changes' = changes /\ c.subject \in markTxn[t].held
  BY DEF MarkInsert, MarkReady, Ended
<1>2. c \in MarkCmd
  BY <1>1 DEF Session
<1>3. c.subject \in Subjects /\ c.key \in Optional(Keys) /\ c.branch \in Branches /\ c.facts \in Facts
  BY <1>2 DEF MarkCmd
<1>4. row \in MarkRow
  BY <1>3, AttendanceAssumption DEF MarkRow
<1>5. records'[c.subject] = row /\ \A s \in Subjects \ {c.subject} : records'[s] = records[s]
  BY <1>1, <1>3 DEF AttendanceTypeOK
<1>6. markTxn' \in [Txns -> Session] /\ markTxn'[t] = NotInTxn
        /\ \A u \in Txns \ {t} : markTxn'[u] = markTxn[u]
  BY <1>1, IdleIsSession
<1> HIDE DEF c, row
<1>7. AttendanceTypeOK'
  BY <1>1, <1>4, <1>6 DEF AttendanceTypeOK
<1>8. ReadIsCurrent'
  <2> SUFFICES ASSUME NEW u \in Txns, markTxn'[u].cmd.op = "mark", markTxn'[u].cmd.version # 0
               PROVE  LET d == markTxn'[u].cmd
                      IN  /\ records'[d.subject] # NoMark /\ d.version <= records'[d.subject].version
                          /\ d.version = records'[d.subject].version => d.seen = {records'[d.subject].facts}
    BY DEF ReadIsCurrent
  <2>1. u # t /\ markTxn'[u] = markTxn[u] /\ markTxn[u] \in Session
    BY <1>6, IdleIsSession
  <2>2. markTxn[u].cmd \in MarkCmd
    BY <2>1 DEF Session
  <2>3. markTxn[u].cmd.subject \in Subjects /\ records[markTxn[u].cmd.subject] # NoMark
    BY <2>1, <2>2 DEF ReadIsCurrent, MarkCmd
  <2>4. records'[markTxn[u].cmd.subject] = records[markTxn[u].cmd.subject]
    BY <1>1, <1>5, <2>3
  <2> QED
    BY <2>1, <2>3, <2>4 DEF ReadIsCurrent
<1>9. KeyMarksOnce'
  <2>1. row # NoMark /\ row.key = c.key
    BY <1>4 DEF row, MarkRow, NoMark
  <2> QED
    BY <1>1, <1>5, <2>1 DEF KeyMarksOnce, UnusedMarkKey
<1>10. HistoryIsComplete'
  <2> SUFFICES ASSUME NEW s \in Subjects PROVE records'[s] = records[s] \/
                 \A v \in 2 .. MaxRecordVersion : v > records[s].version /\ v > records'[s].version
    BY <1>1 DEF HistoryIsComplete
  <2>1. CASE s = c.subject
    BY <1>1, <1>5, <2>1, AttendanceAssumption DEF row, NoMark
  <2> QED
    BY <1>5, <2>1
<1> QED
  BY <1>6, <1>7, <1>8, <1>9, <1>10

(* The record of one subject goes from r to its next version, with the      *)
(* change that says so.                                                     *)
LEMMA CorrectKeeps == ASSUME AttendanceInv, NEW t \in Txns, MarkCorrect(t) PROVE AttendanceInv'
<1> USE DEF AttendanceInv
<1> DEFINE c == markTxn[t].cmd
           r == records[c.subject]
           row == [branch |-> r.branch, facts |-> c.facts, version |-> r.version + 1, key |-> r.key]
           change == [subject |-> c.subject, version |-> r.version + 1, prior |-> r.facts, new |-> c.facts]
<1>1. c.op = "mark" /\ r # NoMark /\ c.version = r.version /\ r.version < MaxRecordVersion
  BY DEF MarkCorrect, MarkReady, MayCorrect
<1>2. c \in MarkCmd
  BY <1>1 DEF Session
<1>3. c.subject \in Subjects /\ c.facts \in Facts
  BY <1>2 DEF MarkCmd
<1>4. /\ r.branch \in Branches /\ r.facts \in Facts /\ r.key \in Optional(Keys)
      /\ r.version \in 1 .. MaxRecordVersion /\ r.version + 1 \in 2 .. MaxRecordVersion
      /\ r = [branch |-> r.branch, facts |-> r.facts, version |-> r.version, key |-> r.key]
  BY <1>1, <1>3, Marked, AttendanceAssumption DEF MarkRow
<1>5. row \in MarkRow /\ row # NoMark /\ change \in ChangeRow
  BY <1>1, <1>3, <1>4, AttendanceAssumption DEF MarkRow, ChangeRow, NoMark
<1>6. records' = [records EXCEPT ![c.subject] = row]
  BY <1>3, <1>4 DEF MarkCorrect, AttendanceTypeOK
<1>7. changes' = changes \cup {change} /\ markTxn' = [markTxn EXCEPT ![t] = NotInTxn]
  BY DEF MarkCorrect, Change, Ended
<1>8. records'[c.subject] = row /\ \A s \in Subjects \ {c.subject} : records'[s] = records[s]
  BY <1>3, <1>6 DEF AttendanceTypeOK
<1>9. markTxn' \in [Txns -> Session] /\ markTxn'[t] = NotInTxn
        /\ \A u \in Txns \ {t} : markTxn'[u] = markTxn[u]
  BY <1>7, IdleIsSession
<1>10. row.version = r.version + 1 /\ row.facts = c.facts /\ row.key = r.key
  OBVIOUS
<1>11. /\ change.subject = c.subject /\ change.version = r.version + 1
       /\ change.prior = r.facts /\ change.new = c.facts
  OBVIOUS
<1> HIDE DEF c, row, change
<1>12. AttendanceTypeOK'
  BY <1>3, <1>5, <1>6, <1>7, <1>9 DEF AttendanceTypeOK
<1>13. ReadIsCurrent'
  <2> SUFFICES ASSUME NEW u \in Txns, markTxn'[u].cmd.op = "mark", markTxn'[u].cmd.version # 0
               PROVE  LET d == markTxn'[u].cmd
                      IN  /\ records'[d.subject] # NoMark /\ d.version <= records'[d.subject].version
                          /\ d.version = records'[d.subject].version => d.seen = {records'[d.subject].facts}
    BY DEF ReadIsCurrent
  <2>1. u # t /\ markTxn'[u] = markTxn[u] /\ markTxn[u] \in Session
    BY <1>9, IdleIsSession
  <2>2. markTxn[u].cmd \in MarkCmd
    BY <2>1 DEF Session
  <2>3. markTxn[u].cmd.subject \in Subjects /\ markTxn[u].cmd.version \in Int
    BY <2>2, AttendanceAssumption DEF MarkCmd
  <2>4. CASE markTxn[u].cmd.subject = c.subject
    <3>1. markTxn[u].cmd.version <= r.version
      BY <2>1, <2>4 DEF ReadIsCurrent
    <3>2. markTxn[u].cmd.version < row.version
      BY <1>4, <1>10, <2>3, <3>1
    <3> QED
      BY <1>4, <1>5, <1>8, <1>10, <2>1, <2>3, <2>4, <3>2
  <2>5. CASE markTxn[u].cmd.subject # c.subject
    BY <1>8, <2>1, <2>3, <2>5 DEF ReadIsCurrent
  <2> QED
    BY <2>4, <2>5
<1>14. KeyMarksOnce'
  BY <1>1, <1>3, <1>8, <1>10 DEF KeyMarksOnce
<1>15. HistoryIsComplete'
  <2> DEFINE of(s, v) == {x \in changes : x.subject = s /\ x.version = v}
             ofN(s, v) == {x \in changes' : x.subject = s /\ x.version = v}
  <2> SUFFICES ASSUME NEW s \in Subjects, NEW v \in 2 .. MaxRecordVersion
               PROVE  IF v > records'[s].version THEN ofN(s, v) = {}
                      ELSE \E x \in ofN(s, v) :
                             /\ ofN(s, v) = {x}
                             /\ v = records'[s].version => x.new = records'[s].facts
                             /\ v < records'[s].version => \E d \in ofN(s, v + 1) : d.prior = x.new
    BY DEF HistoryIsComplete
  <2>1. IF v > records[s].version THEN of(s, v) = {}
        ELSE \E x \in of(s, v) :
               /\ of(s, v) = {x}
               /\ v = records[s].version => x.new = records[s].facts
               /\ v < records[s].version => \E d \in of(s, v + 1) : d.prior = x.new
    BY DEF HistoryIsComplete
  <2>2. v \in Int /\ records[s].version \in Int /\ r.version \in Int
    BY <1>4, Marked, AttendanceAssumption
  <2>3. CASE s # c.subject
    <3>1. \A w : ofN(s, w) = of(s, w)
      BY <1>7, <1>11, <2>3
    <3> QED
      BY <1>8, <2>1, <2>3, <3>1
  <2>4. CASE s = c.subject /\ v > r.version + 1
    <3>1. ofN(s, v) = of(s, v) /\ of(s, v) = {}
      BY <1>7, <1>11, <2>1, <2>2, <2>4
    <3> QED
      BY <1>8, <1>10, <2>2, <2>4, <3>1
  <2>5. CASE s = c.subject /\ v = r.version + 1
    <3>1. of(s, v) = {}
      BY <2>1, <2>2, <2>5
    <3>2. ofN(s, v) = {change}
      BY <1>7, <1>11, <2>5, <3>1
    <3> QED
      BY <1>8, <1>10, <1>11, <2>2, <2>5, <3>2
  <2>6. CASE s = c.subject /\ v = r.version
    <3>1. ofN(s, v) = of(s, v)
      BY <1>7, <1>11, <2>2, <2>6
    <3>2. change \in ofN(s, v + 1)
      BY <1>7, <1>11, <2>6
    <3>3. PICK x \in of(s, v) : of(s, v) = {x} /\ x.new = r.facts
      BY <2>1, <2>2, <2>6
    <3> QED
      BY <1>8, <1>10, <1>11, <2>2, <2>6, <3>1, <3>2, <3>3
  <2>7. CASE s = c.subject /\ v < r.version
    <3>1. ofN(s, v) = of(s, v) /\ ofN(s, v + 1) = of(s, v + 1)
      BY <1>7, <1>11, <2>2, <2>7
    <3> QED
      BY <1>8, <1>10, <2>1, <2>2, <2>7, <3>1
  <2> QED
    BY <2>2, <2>3, <2>4, <2>5, <2>6, <2>7
<1> QED
  BY <1>9, <1>12, <1>13, <1>14, <1>15

LEMMA AttendanceStep == AttendanceInv /\ [AttendanceNext]_attendanceVars => AttendanceInv'
<1> SUFFICES ASSUME AttendanceInv, [AttendanceNext]_attendanceVars PROVE AttendanceInv'
  OBVIOUS
<1>1. CASE UNCHANGED attendanceVars
  BY <1>1 DEF attendanceVars, AttendanceInv, AttendanceTypeOK, ReadIsCurrent, KeyMarksOnce, HistoryIsComplete
<1> QED
  BY <1>1, BeginKeeps, LockKeeps, AbortKeeps, InsertKeeps, CorrectKeeps DEF AttendanceNext

LEMMA AttendanceAlways == AttendanceSpec => []AttendanceInv
<1> QED
  BY AttendanceBegins, AttendanceStep, PTL DEF AttendanceSpec

-----------------------------------------------------------------------------
(* A key marks one member on one day.                                       *)
THEOREM KeyOnce == AttendanceSpec => []KeyMarksOnce
<1>1. AttendanceInv => KeyMarksOnce
  BY DEF AttendanceInv
<1> QED
  BY <1>1, AttendanceAlways, PTL

(* The history of corrections has a change for every version, and leads     *)
(* from each to the next.                                                   *)
THEOREM CompleteHistory == AttendanceSpec => []HistoryIsComplete
<1>1. AttendanceInv => HistoryIsComplete
  BY DEF AttendanceInv
<1> QED
  BY <1>1, AttendanceAlways, PTL

(* A step that changes a marked record is a correction of what its author   *)
(* had read.                                                                *)
LEMMA WritersHaveRead ==
  ASSUME AttendanceInv, [AttendanceNext]_attendanceVars, NEW s \in Subjects,
         records[s] # NoMark, records'[s] # records[s]
  PROVE  \E t \in Txns : /\ markTxn[t].cmd.op = "mark" /\ markTxn'[t] = NotInTxn
                          /\ markTxn[t].cmd.subject = s /\ markTxn[t].cmd.seen = {records[s].facts}
<1> USE DEF AttendanceInv
<1>1. PICK t \in Txns : MarkInsert(t) \/ MarkCorrect(t)
  BY DEF AttendanceNext, attendanceVars, MarkBegin, MarkLock, MarkAbort
<1>2. markTxn[t].cmd.op = "mark" /\ markTxn'[t] = NotInTxn /\ markTxn[t].cmd \in MarkCmd
  BY <1>1 DEF MarkInsert, MarkCorrect, MarkReady, Ended, Session
<1>3. markTxn[t].cmd.subject = s
  BY <1>1, <1>2 DEF MarkInsert, MarkCorrect, AttendanceTypeOK
<1>4. MarkCorrect(t) /\ markTxn[t].cmd.version = records[s].version
  BY <1>1, <1>3 DEF MarkInsert, MarkCorrect, MayCorrect
<1>5. records[s].version # 0
  BY Marked
<1> QED
  BY <1>2, <1>3, <1>4, <1>5 DEF ReadIsCurrent

(* Every correction replaces what its author had read.                      *)
THEOREM Corrects == AttendanceSpec => CorrectsWhatWasRead
<1>1. AttendanceInv /\ [AttendanceNext]_attendanceVars =>
        [\A s \in Subjects : records[s] # NoMark /\ records'[s] # records[s] =>
           \E t \in Txns : /\ markTxn[t].cmd.op = "mark" /\ markTxn'[t] = NotInTxn
                            /\ markTxn[t].cmd.subject = s
                            /\ markTxn[t].cmd.seen = {records[s].facts}]_attendanceVars
  BY WritersHaveRead
<1> QED
  BY <1>1, AttendanceAlways, PTL DEF AttendanceSpec, CorrectsWhatWasRead

-----------------------------------------------------------------------------
(* What the administration of an organization promises, for all branches,  *)
(* roles and people.  Commands run one after the other behind the row of   *)
(* the organization, so the invariants are inductive with the type         *)
(* invariant alone: each follows from what the command re-reads.           *)

OrganizationInv == OrganizationTypeOK /\ NobodyStranded /\ ArchivedRolesUnused

(* An assignment an invitation can name is never the owner's.               *)
LEMMA InvitedOwnNothing == \A as \in Assignments : as.role # "owner"
<1> SUFFICES ASSUME NEW as \in Assignments PROVE as.role \in {"admin", "manager"}
  OBVIOUS
<1>1. CASE \E r \in {"admin", "manager"} : as = [role |-> r, custom |-> {}]
  BY <1>1
<1>2. CASE \E r \in Roles : as = [role |-> "manager", custom |-> {r}]
  BY <1>2
<1> QED
  BY <1>1, <1>2 DEF Assignments

LEMMA OrganizationBegins == OrganizationInit => OrganizationInv
<1> SUFFICES ASSUME OrganizationInit PROVE OrganizationInv
  OBVIOUS
<1>1. NoMember \in MemberRow /\ NoMember.as.role # "owner" /\ NoMember.as.custom = {}
  BY DEF NoMember, MemberRow, Assignments
<1>2. NoInvitation \in InvitationRow /\ NoInvitation.live = FALSE
  BY <1>1, TenantAssumption DEF NoInvitation, NoMember, InvitationRow, MemberRow, Assignments
<1>3. OrganizationTypeOK
  BY <1>1, <1>2 DEF OrganizationInit, OrganizationTypeOK, Onboarded, BranchRow, RoleRow
<1>4. NobodyStranded /\ ArchivedRolesUnused
  BY DEF OrganizationInit, NobodyStranded, ArchivedRolesUnused, NoMember
<1> QED
  BY <1>3, <1>4 DEF OrganizationInv

-----------------------------------------------------------------------------
(* Each command keeps the three invariants.                                 *)

LEMMA OnboardKeeps ==
  ASSUME OrganizationInv, NEW b \in Branches, Onboard(b) PROVE OrganizationInv'
<1> USE DEF OrganizationInv
<1>1. /\ branches' = [branches EXCEPT ![b] = "active"] /\ UNCHANGED <<roles, invitations>>
      /\ members' = [members EXCEPT ![Owner] = [status |-> "active", as |-> OwnerAssignment, at |-> {b}]]
  BY DEF Onboard
<1>2. ActiveBranches = {} /\ \A p \in People : members[p].status # "active"
  BY DEF Onboard, Onboarded, ActiveBranches, NobodyStranded
<1>3. ActiveBranches' = {b}
  BY <1>1, <1>2 DEF ActiveBranches, OrganizationTypeOK
<1>4. OrganizationTypeOK'
  <2>1. branches' \in [Branches -> BranchRow] /\ members' \in [People -> MemberRow]
    BY <1>1 DEF OrganizationTypeOK, BranchRow, MemberRow
  <2>2. members'[Owner].status = "active" /\ members'[Owner].as = OwnerAssignment
    BY <1>1, TenantAssumption DEF OrganizationTypeOK
  <2>3. \A p \in People : members'[p].as.role = "owner" => p = Owner
    BY <1>1, TenantAssumption DEF OrganizationTypeOK
  <2> QED
    BY <1>1, <2>1, <2>2, <2>3 DEF OrganizationTypeOK
<1>5. NobodyStranded'
  BY <1>1, <1>2, <1>3, TenantAssumption DEF NobodyStranded, OrganizationTypeOK
<1>6. ArchivedRolesUnused'
  BY <1>1, TenantAssumption
     DEF ArchivedRolesUnused, RoleInUse, OrganizationTypeOK, OwnerAssignment
<1> QED
  BY <1>4, <1>5, <1>6

LEMMA SaveBranchKeeps ==
  ASSUME OrganizationInv, NEW c \in BranchCmd, SaveBranch(c) PROVE OrganizationInv'
<1> USE DEF OrganizationInv
<1>1. /\ c.branch \in Branches /\ c.status \in {"active", "inactive"} /\ c.actor \in People
      /\ branches' = [branches EXCEPT ![c.branch] = c.status] /\ UNCHANGED <<roles, members, invitations>>
  BY DEF SaveBranch, BranchCmd
<1>2. members[c.actor].status = "active" /\ Onboarded
  BY <1>1 DEF SaveBranch, Holds, Authority, NobodyStranded, ActiveBranches, Onboarded
<1>3. OrganizationTypeOK'
  BY <1>1, <1>2 DEF OrganizationTypeOK, BranchRow
<1>4. NobodyStranded'
  <2> SUFFICES ASSUME NEW p \in People, members[p].status = "active"
               PROVE  members[p].at \cap ActiveBranches' # {}
    BY <1>1 DEF NobodyStranded
  <2>1. CASE branches[c.branch] = "active" /\ c.status = "inactive"
    <3>1. ~Strands(c.branch) /\ members[p].at \cap ActiveBranches # {}
      BY <2>1 DEF SaveBranch, MayDeactivate, NobodyStranded
    <3>2. PICK x \in members[p].at \cap ActiveBranches : x # c.branch
      BY <3>1 DEF Strands
    <3>3. x \in ActiveBranches'
      BY <1>1, <3>2 DEF ActiveBranches, OrganizationTypeOK
    <3> QED
      BY <3>2, <3>3
  <2>2. CASE ~(branches[c.branch] = "active" /\ c.status = "inactive")
    <3>1. ActiveBranches \subseteq ActiveBranches'
      BY <1>1, <2>2 DEF ActiveBranches, OrganizationTypeOK
    <3> QED
      BY <3>1 DEF NobodyStranded
  <2> QED
    BY <2>1, <2>2
<1>5. ArchivedRolesUnused'
  BY <1>1 DEF ArchivedRolesUnused, RoleInUse
<1> QED
  BY <1>3, <1>4, <1>5

LEMMA SaveRoleKeeps ==
  ASSUME OrganizationInv, NEW c \in RoleCmd, SaveRole(c)
  PROVE  OrganizationInv'
<1> USE DEF OrganizationInv
<1>1. /\ c.role \in Roles /\ c.status \in {"active", "archived"} /\ c.grant \in Grants
      /\ roles' = [roles EXCEPT ![c.role] = [status |-> c.status, grant |-> c.grant]]
      /\ UNCHANGED <<branches, members, invitations>>
  BY DEF SaveRole, RoleCmd
<1>2. OrganizationTypeOK'
  BY <1>1, OrganizationAssumption DEF OrganizationTypeOK, RoleRow, Onboarded
<1>3. NobodyStranded'
  BY <1>1 DEF NobodyStranded, ActiveBranches
<1>4. c.status = "archived" => ~RoleInUse(c.role)
  BY DEF SaveRole, MayArchive
<1>5. ArchivedRolesUnused'
  BY <1>1, <1>4 DEF ArchivedRolesUnused, RoleInUse, OrganizationTypeOK
<1> QED
  BY <1>2, <1>3, <1>5

LEMMA SaveMemberKeeps ==
  ASSUME OrganizationInv, NEW c \in MemberCmd, SaveMember(c) PROVE OrganizationInv'
<1> USE DEF OrganizationInv
<1> DEFINE row == [status |-> c.status, as |-> c.as, at |-> c.at]
<1>1. /\ c.member \in People /\ row \in MemberRow /\ c.status # "none"
      /\ members' = [members EXCEPT ![c.member] = row] /\ UNCHANGED <<branches, roles, invitations>>
      /\ MayAssign(c, members[c.member]) /\ Usable(c.at) /\ members[c.member].status # "none"
  BY DEF SaveMember, MemberCmd, MemberRow
<1>2. OrganizationTypeOK'
  <2>1. members' \in [People -> MemberRow]
    BY <1>1 DEF OrganizationTypeOK
  <2>2. c.as.role = "owner" => c.member = Owner
    BY <1>1 DEF MayAssign, OrganizationTypeOK
  <2>3. c.member = Owner /\ Onboarded => c.as = OwnerAssignment /\ c.status = "active"
    BY <1>1 DEF MayAssign, OrganizationTypeOK, OwnerAssignment
  <2> QED
    BY <1>1, <2>1, <2>2, <2>3, TenantAssumption DEF OrganizationTypeOK, Onboarded
<1>3. NobodyStranded'
  <2>1. c.at \cap ActiveBranches # {}
    BY <1>1 DEF Usable
  <2> QED
    BY <1>1, <2>1 DEF NobodyStranded, ActiveBranches, OrganizationTypeOK
<1>4. ArchivedRolesUnused'
  <2>1. \A r \in c.as.custom : roles[r].status = "active"
    BY <1>1 DEF MayAssign, Assignable
  <2> QED
    BY <1>1, <2>1 DEF ArchivedRolesUnused, RoleInUse, OrganizationTypeOK
<1> QED
  BY <1>2, <1>3, <1>4

LEMMA InvitationsKeep ==
  ASSUME OrganizationInv,
         NEW p \in People,
         NEW i \in InvitationRow,
         invitations' = [invitations EXCEPT ![p] = i], UNCHANGED <<branches, roles, members>>,
         i.live => Assignable(roles, i.as)
  PROVE  OrganizationInv'
<1> USE DEF OrganizationInv
<1>1. OrganizationTypeOK'
  BY DEF OrganizationTypeOK, Onboarded
<1>2. NobodyStranded'
  BY DEF NobodyStranded, ActiveBranches
<1>3. ArchivedRolesUnused'
  BY DEF ArchivedRolesUnused, RoleInUse, OrganizationTypeOK, Assignable
<1> QED
  BY <1>1, <1>2, <1>3

LEMMA AcceptKeeps ==
  ASSUME OrganizationInv, NEW p \in People, AcceptInvitation(p) PROVE OrganizationInv'
<1> USE DEF OrganizationInv
<1> DEFINE i == invitations[p]
           row == [status |-> "active", as |-> i.as, at |-> i.at]
<1>1. /\ i \in InvitationRow /\ Assignable(roles, i.as) /\ Usable(i.at) /\ members[p].status = "none"
      /\ members' = [members EXCEPT ![p] = row] /\ invitations' = [invitations EXCEPT ![p] = NoInvitation]
      /\ UNCHANGED <<branches, roles>>
  BY DEF AcceptInvitation, StillGranted, OrganizationTypeOK
<1>2. row \in MemberRow /\ row.as.role # "owner"
  BY <1>1, InvitedOwnNothing DEF MemberRow, InvitationRow
<1>3. Onboarded /\ p # Owner
  BY <1>1 DEF Usable, ActiveBranches, Onboarded, OrganizationTypeOK
<1>4. NoInvitation \in InvitationRow /\ NoInvitation.live = FALSE
  BY TenantAssumption DEF NoInvitation, NoMember, InvitationRow, Assignments
<1>5. OrganizationTypeOK'
  BY <1>1, <1>2, <1>3, <1>4, TenantAssumption DEF OrganizationTypeOK, Onboarded
<1>6. NobodyStranded'
  BY <1>1 DEF NobodyStranded, ActiveBranches, OrganizationTypeOK, Usable
<1>7. ArchivedRolesUnused'
  BY <1>1, <1>4 DEF ArchivedRolesUnused, RoleInUse, OrganizationTypeOK, Assignable
<1> QED
  BY <1>5, <1>6, <1>7

LEMMA OrganizationStep == OrganizationInv /\ [OrganizationNext]_orgVars => OrganizationInv'
<1> SUFFICES ASSUME OrganizationInv, [OrganizationNext]_orgVars PROVE OrganizationInv'
  OBVIOUS
<1>1. ASSUME NEW b \in Branches, Onboard(b) PROVE OrganizationInv'
  BY <1>1, OnboardKeeps
<1>2. ASSUME NEW c \in BranchCmd, SaveBranch(c) PROVE OrganizationInv'
  BY <1>2, SaveBranchKeeps
<1>3. ASSUME NEW c \in RoleCmd, SaveRole(c) PROVE OrganizationInv'
  BY <1>3, SaveRoleKeeps
<1>4. ASSUME NEW c \in MemberCmd, SaveMember(c) PROVE OrganizationInv'
  BY <1>4, SaveMemberKeeps
<1>5. ASSUME NEW c \in InviteCmd, CreateInvitation(c) PROVE OrganizationInv'
  <2> DEFINE i == [live |-> TRUE, issuer |-> c.actor, as |-> c.as, at |-> c.at]
  <2>1. /\ c.phone \in People /\ i \in InvitationRow /\ Assignable(roles, i.as)
        /\ invitations' = [invitations EXCEPT ![c.phone] = i] /\ UNCHANGED <<branches, roles, members>>
    BY <1>5 DEF CreateInvitation, InviteCmd, InvitationRow
  <2> QED
    BY <2>1, InvitationsKeep
<1>6. NoInvitation \in InvitationRow /\ NoInvitation.live = FALSE
  BY TenantAssumption DEF NoInvitation, NoMember, InvitationRow, Assignments
<1>7. ASSUME NEW c \in WithdrawCmd, RevokeInvitation(c) PROVE OrganizationInv'
  BY <1>6, <1>7, InvitationsKeep DEF RevokeInvitation, WithdrawCmd
<1>8. ASSUME NEW p \in People, InvitationLapses(p) PROVE OrganizationInv'
  BY <1>6, <1>8, InvitationsKeep DEF InvitationLapses
<1>9. ASSUME NEW p \in People, AcceptInvitation(p) PROVE OrganizationInv'
  BY <1>9, AcceptKeeps
<1>10. CASE UNCHANGED orgVars
  BY <1>10 DEF orgVars, OrganizationInv, OrganizationTypeOK, NobodyStranded, ArchivedRolesUnused,
               Onboarded, ActiveBranches, RoleInUse
<1> QED
  BY <1>1, <1>2, <1>3, <1>4, <1>5, <1>7, <1>8, <1>9, <1>10 DEF OrganizationNext

LEMMA OrganizationAlways == OrganizationSpec => []OrganizationInv
<1> QED
  BY OrganizationBegins, OrganizationStep, PTL DEF OrganizationSpec

-----------------------------------------------------------------------------
(* An active member has an active branch to work in, whatever branches are  *)
(* closed while members are moved and invitations accepted.                 *)
THEOREM NobodyIsStranded == OrganizationSpec => []NobodyStranded
<1>1. OrganizationInv => NobodyStranded
  BY DEF OrganizationInv
<1> QED
  BY <1>1, OrganizationAlways, PTL

(* Nothing refers to an archived role, so bringing one back gives nobody    *)
(* authority.                                                               *)
THEOREM ArchivedUnused == OrganizationSpec => []ArchivedRolesUnused
<1>1. OrganizationInv => ArchivedRolesUnused
  BY DEF OrganizationInv
<1> QED
  BY <1>1, OrganizationAlways, PTL

(* What a person gains by a change of a role, of a membership or by an      *)
(* invitation is held by the one who gives it.                              *)
LEMMA GainsAreGiven ==
  ASSUME OrganizationInv, NEW p \in People
  PROVE  /\ \A c \in RoleCmd : SaveRole(c) => MayGrant(c.actor, Gained(p))
         /\ \A c \in MemberCmd : SaveMember(c) => MayGrant(c.actor, Gained(p))
         /\ AcceptInvitation(p) => MayGrant(invitations[p].issuer, Gained(p))
<1> USE DEF OrganizationInv
<1>1. ASSUME NEW c \in RoleCmd, SaveRole(c) PROVE MayGrant(c.actor, Gained(p))
  <2>1. /\ c.role \in Roles /\ members' = members /\ MayGrant(c.actor, c.grant)
        /\ roles' = [roles EXCEPT ![c.role] = [status |-> c.status, grant |-> c.grant]]
    BY <1>1 DEF SaveRole, RoleCmd
  <2>2. ASSUME NEW x \in Gained(p) PROVE x \in c.grant
    <3>1. /\ members[p].status = "active" /\ members[p].as.custom # {}
          /\ x \in GrantOf(roles', members[p].as) /\ x \notin GrantOf(roles, members[p].as)
      BY <2>1, <2>2 DEF Gained, Authority, GrantOf
    <3>2. PICK r \in members[p].as.custom : roles'[r].status = "active" /\ x \in roles'[r].grant
      BY <3>1 DEF GrantOf
    <3>3. CASE r = c.role
      BY <2>1, <3>2, <3>3 DEF OrganizationTypeOK
    <3>4. CASE r # c.role
      <4>1. roles[r] = roles'[r]
        BY <2>1, <3>4 DEF OrganizationTypeOK
      <4> QED
        BY <3>1, <3>2, <4>1 DEF GrantOf
    <3> QED
      BY <3>3, <3>4
  <2> QED
    BY <2>1, <2>2 DEF MayGrant
<1>2. ASSUME NEW c \in MemberCmd, SaveMember(c) PROVE MayGrant(c.actor, Gained(p))
  <2>1. /\ c.member \in People /\ roles' = roles /\ MayGrant(c.actor, GrantOf(roles, c.as))
        /\ members' = [members EXCEPT ![c.member] = [status |-> c.status, as |-> c.as, at |-> c.at]]
    BY <1>2 DEF SaveMember, MemberCmd, MayAssign
  <2>2. Gained(p) \subseteq GrantOf(roles, c.as)
    BY <2>1 DEF Gained, Authority, OrganizationTypeOK
  <2> QED
    BY <2>1, <2>2 DEF MayGrant
<1>3. ASSUME AcceptInvitation(p) PROVE MayGrant(invitations[p].issuer, Gained(p))
  <2>1. /\ roles' = roles /\ MayGrant(invitations[p].issuer, GrantOf(roles, invitations[p].as))
        /\ members' = [members EXCEPT ![p] =
             [status |-> "active", as |-> invitations[p].as, at |-> invitations[p].at]]
    BY <1>3 DEF AcceptInvitation, StillGranted
  <2>2. Gained(p) \subseteq GrantOf(roles, invitations[p].as)
    BY <2>1 DEF Gained, Authority, OrganizationTypeOK
  <2> QED
    BY <2>1, <2>2 DEF MayGrant
<1> QED
  BY <1>1, <1>2, <1>3

(* Nobody gains a permission that the one who gave it did not hold.         *)
THEOREM GrantsHeld == OrganizationSpec => GrantsAreHeld
<1>1. OrganizationInv /\ [OrganizationNext]_orgVars =>
        [\A p \in People : Gained(p) # {} =>
           /\ \A c \in RoleCmd : SaveRole(c) => MayGrant(c.actor, Gained(p))
           /\ \A c \in MemberCmd : SaveMember(c) => MayGrant(c.actor, Gained(p))
           /\ AcceptInvitation(p) => MayGrant(invitations[p].issuer, Gained(p))]_orgVars
  BY GainsAreGiven
<1> QED
  BY <1>1, OrganizationAlways, PTL DEF OrganizationSpec, GrantsAreHeld

-----------------------------------------------------------------------------
(* What the custom fields promise, for any number of fields, options and   *)
(* records: definitions, layout and values are written by commands of      *)
(* their own, and must agree whatever their order.                         *)

FieldTypes ==
  /\ definitions \in [FieldIds -> Definition \cup {NoField}]
  /\ placed \in [FieldIds -> {"nowhere", "hidden", "shown"}]
  /\ values \in [RecordIds -> RecordRow \cup {NoRecord}]

(* The default of a field is one of its options that may be chosen now.     *)
DefaultsAreOffered ==
  \A f \in FieldIds : definitions[f] # NoField => definitions[f].default \subseteq Offered(f, definitions[f])

(* The layout places fields that exist.                                     *)
PlacedExist == \A f \in FieldIds : placed[f] # "nowhere" => definitions[f] # NoField

ValuesReadable ==
  \A r \in RecordIds, f \in FieldIds :
    values[r] # NoRecord /\ values[r].of[f] # {} =>
      definitions[f] # NoField /\ values[r].of[f] \subseteq EverOffered(f, definitions[f])

FieldsInv == FieldTypes /\ DefaultsAreOffered /\ PlacedExist /\ ValuesReadable /\ RequiredAreShown

LEMMA FieldsBegin == FieldsInit => FieldsInv
<1> SUFFICES ASSUME FieldsInit PROVE FieldsInv
  OBVIOUS
<1>1. FieldTypes
  BY DEF FieldsInit, FieldTypes
<1>2. DefaultsAreOffered /\ PlacedExist /\ ValuesReadable
  BY DEF FieldsInit, DefaultsAreOffered, PlacedExist, ValuesReadable
<1>3. RequiredAreShown
  BY DEF FieldsInit, RequiredAreShown, ActiveFields
<1> QED
  BY <1>1, <1>2, <1>3 DEF FieldsInv

(* What may be chosen has been an option, and stays one.                    *)
LEMMA OfferedBefore ==
  ASSUME NEW f \in FieldIds, NEW d \in Definition
  PROVE  /\ Offered(f, d) \subseteq EverOffered(f, d)
         /\ \A old \in Definition \cup {NoField} :
              old # NoField /\ KeepsOptions(old, d) => EverOffered(f, old) \subseteq EverOffered(f, d)
  BY DEF Offered, EverOffered, KeepsOptions

LEMMA SaveDefinitionKeeps ==
  ASSUME FieldsInv, NEW f \in FieldIds, NEW d \in DefinitionsOf(f), SaveDefinition(f, d)
  PROVE  FieldsInv'
<1> USE DEF FieldsInv
<1>1. d \in Definition /\ d # NoField
  BY DEF DefinitionsOf, Definition, NoField
<1>2. definitions' = [definitions EXCEPT ![f] = d] /\ placed' = placed /\ values' = values
  BY DEF SaveDefinition
<1>3. FieldTypes'
  BY <1>1, <1>2 DEF FieldTypes
<1>4. \A g \in FieldIds : definitions'[g] = IF g = f THEN d ELSE definitions[g]
  BY <1>2 DEF FieldTypes
<1>5. DefaultsAreOffered'
  BY <1>4 DEF DefaultsAreOffered, SaveDefinition
<1>6. PlacedExist'
  BY <1>1, <1>2, <1>4 DEF PlacedExist
<1>7. ValuesReadable'
  <2> SUFFICES ASSUME NEW r \in RecordIds, NEW g \in FieldIds, values[r] # NoRecord, values[r].of[g] # {}
               PROVE  definitions'[g] # NoField /\ values[r].of[g] \subseteq EverOffered(g, definitions'[g])
    BY <1>2 DEF ValuesReadable
  <2>1. definitions[g] # NoField /\ values[r].of[g] \subseteq EverOffered(g, definitions[g])
    BY DEF ValuesReadable
  <2>2. CASE g = f
    BY <1>1, <1>4, <2>1, <2>2, OfferedBefore DEF SaveDefinition, FieldTypes
  <2> QED
    BY <1>4, <2>1, <2>2
<1>8. RequiredAreShown'
  <2> SUFFICES ASSUME NEW g \in FieldIds, definitions'[g].status = "active", definitions'[g].required,
                      placed[g] # "nowhere"
               PROVE  placed[g] = "shown"
    BY <1>2 DEF RequiredAreShown, ActiveFields
  <2>1. CASE g = f
    <3>1. definitions[f] # NoField
      BY <2>1 DEF PlacedExist
    <3>2. placed[f] # "hidden"
      BY <1>4, <2>1, <3>1 DEF SaveDefinition, Requirable
    <3> QED
      BY <2>1, <3>2 DEF FieldTypes
  <2>2. CASE g # f
    BY <1>4, <2>2 DEF RequiredAreShown, ActiveFields
  <2> QED
    BY <2>1, <2>2
<1> QED
  BY <1>3, <1>5, <1>6, <1>7, <1>8

LEMMA SaveLayoutKeeps ==
  ASSUME FieldsInv, NEW places \in [FieldIds -> {"nowhere", "hidden", "shown"}], SaveLayout(places)
  PROVE  FieldsInv'
<1> USE DEF FieldsInv
<1>1. placed' = places /\ UNCHANGED <<definitions, values>>
  BY DEF SaveLayout
<1>2. FieldTypes' /\ DefaultsAreOffered' /\ ValuesReadable'
  BY <1>1 DEF FieldTypes, DefaultsAreOffered, ValuesReadable
<1>3. PlacedExist'
  BY <1>1 DEF PlacedExist, SaveLayout
<1>4. RequiredAreShown'
  BY <1>1 DEF RequiredAreShown, ActiveFields, SaveLayout
<1> QED
  BY <1>2, <1>3, <1>4

(* What a write leaves in each field.                                       *)
LEMMA Written ==
  ASSUME FieldsInv, NEW r \in RecordIds, NEW patch \in Patches, SaveValues(r, patch)
  PROVE  /\ values' \in [RecordIds -> RecordRow \cup {NoRecord}]
         /\ values'[r] \in RecordRow
         /\ \A s \in RecordIds \ {r} : values'[s] = values[s]
         /\ \A f \in ActiveFields : values'[r].of[f] = Proposed(r, patch, f)
         /\ \A f \in FieldIds \ ActiveFields :
              values'[r].of[f] = IF values[r] = NoRecord THEN {} ELSE values[r].of[f]
<1> USE DEF FieldsInv
<1> DEFINE of == [f \in FieldIds |-> IF f \in ActiveFields THEN Proposed(r, patch, f)
                                    ELSE IF values[r] = NoRecord THEN {} ELSE values[r].of[f]]
<1>1. values' = [values EXCEPT ![r] = [state |-> "made", of |-> of]]
  BY DEF SaveValues
<1>2. PICK S \in SUBSET FieldIds : patch \in [S -> Optional(Options)]
  BY DEF Patches
<1>3. ASSUME NEW f \in FieldIds PROVE of[f] \in Optional(Options)
  <2>1. {} \in Optional(Options)
    BY DEF Optional
  <2>2. values[r] # NoRecord => values[r].of[f] \in Optional(Options)
    BY DEF FieldTypes, RecordRow
  <2>3. f \in ActiveFields => definitions[f].default \in Optional(Options)
    BY DEF FieldTypes, ActiveFields, Definition, NoField
  <2> QED
    BY <1>2, <2>1, <2>2, <2>3 DEF Proposed
<1>4. [state |-> "made", of |-> of] \in RecordRow
  BY <1>3 DEF RecordRow
<1> HIDE DEF of
<1>5. values' \in [RecordIds -> RecordRow \cup {NoRecord}] /\ values'[r].of = of /\ values'[r] \in RecordRow
  BY <1>1, <1>4 DEF FieldTypes
<1>6. \A s \in RecordIds \ {r} : values'[s] = values[s]
  BY <1>1 DEF FieldTypes
<1> QED
  BY <1>5, <1>6 DEF of, ActiveFields

(* What is new in a field is offered now.                                   *)
LEMMA NewIsOffered ==
  ASSUME FieldsInv, NEW r \in RecordIds, NEW patch \in Patches, SaveValues(r, patch), NEW f \in FieldIds,
         values'[r].of[f] # Has(values[r], f)
  PROVE  f \in ActiveFields /\ values'[r].of[f] \subseteq Offered(f, definitions[f])
<1> USE DEF FieldsInv
<1>1. f \in ActiveFields /\ values'[r].of[f] = Proposed(r, patch, f)
  BY Written DEF Has
<1>2. CASE f \in DOMAIN patch
  BY <1>1, <1>2 DEF Proposed, SaveValues, Accepts
<1>3. CASE f \notin DOMAIN patch /\ values[r] = NoRecord
  BY <1>1, <1>3 DEF Proposed, DefaultsAreOffered, ActiveFields, NoField
<1>4. CASE f \notin DOMAIN patch /\ values[r] # NoRecord
  BY <1>1, <1>4 DEF Proposed, Has
<1> QED
  BY <1>1, <1>2, <1>3, <1>4

LEMMA SaveValuesKeeps ==
  ASSUME FieldsInv, NEW r \in RecordIds, NEW patch \in Patches, SaveValues(r, patch)
  PROVE  FieldsInv'
<1> USE DEF FieldsInv
<1>1. UNCHANGED <<definitions, placed>>
  BY DEF SaveValues
<1>2. FieldTypes' /\ DefaultsAreOffered' /\ PlacedExist'
  BY <1>1, Written DEF FieldTypes, DefaultsAreOffered, PlacedExist
<1>3. RequiredAreShown'
  BY <1>1 DEF RequiredAreShown, ActiveFields
<1>4. ValuesReadable'
  <2> SUFFICES ASSUME NEW s \in RecordIds, NEW f \in FieldIds, values'[s] # NoRecord, values'[s].of[f] # {}
               PROVE  definitions[f] # NoField /\ values'[s].of[f] \subseteq EverOffered(f, definitions[f])
    BY <1>1 DEF ValuesReadable
  <2>1. CASE s # r \/ values'[s].of[f] = Has(values[s], f)
    BY <2>1, Written DEF Has, ValuesReadable
  <2>2. CASE s = r /\ values'[s].of[f] # Has(values[s], f)
    <3>1. f \in ActiveFields /\ values'[s].of[f] \subseteq Offered(f, definitions[f])
      BY <2>2, NewIsOffered
    <3>2. definitions[f] \in Definition /\ definitions[f] # NoField
      BY <3>1 DEF ActiveFields, FieldTypes, NoField
    <3> QED
      BY <3>1, <3>2, OfferedBefore
  <2> QED
    BY <2>1, <2>2
<1> QED
  BY <1>2, <1>3, <1>4

LEMMA FieldsStep == FieldsInv /\ [FieldsNext]_fieldVars => FieldsInv'
<1> SUFFICES ASSUME FieldsInv, [FieldsNext]_fieldVars PROVE FieldsInv'
  OBVIOUS
<1>1. ASSUME NEW f \in FieldIds, NEW d \in DefinitionsOf(f), SaveDefinition(f, d) PROVE FieldsInv'
  BY <1>1, SaveDefinitionKeeps
<1>2. ASSUME NEW places \in [FieldIds -> {"nowhere", "hidden", "shown"}], SaveLayout(places) PROVE FieldsInv'
  BY <1>2, SaveLayoutKeeps
<1>3. CASE ResetLayout
  <2>1. [f \in FieldIds |-> IF f \in ActiveFields THEN "shown" ELSE "nowhere"]
          \in [FieldIds -> {"nowhere", "hidden", "shown"}]
    OBVIOUS
  <2> QED
    BY <1>3, <2>1, SaveLayoutKeeps DEF ResetLayout
<1>4. ASSUME NEW r \in RecordIds, NEW patch \in Patches, SaveValues(r, patch) PROVE FieldsInv'
  BY <1>4, SaveValuesKeeps
<1>5. CASE UNCHANGED fieldVars
  BY <1>5 DEF fieldVars, FieldsInv, FieldTypes, DefaultsAreOffered, PlacedExist, ValuesReadable,
              RequiredAreShown, ActiveFields
<1> QED
  BY <1>1, <1>2, <1>3, <1>4, <1>5 DEF FieldsNext

LEMMA FieldsAlways == FieldsSpec => []FieldsInv
<1> QED
  BY FieldsBegin, FieldsStep, PTL DEF FieldsSpec

-----------------------------------------------------------------------------
(* Rows have their columns, and what is stored stays readable: it is an    *)
(* option that its field still has, in use or not.                         *)
THEOREM Readable == FieldsSpec => []FieldsTypeOK
<1>1. FieldsInv => FieldsTypeOK
  BY DEF FieldsInv, FieldTypes, ValuesReadable, FieldsTypeOK
<1> QED
  BY <1>1, FieldsAlways, PTL

(* A field that is required and placed is shown, in whatever order it was  *)
(* required, archived, hidden and brought back.                            *)
THEOREM Answerable == FieldsSpec => []RequiredAreShown
<1>1. FieldsInv => RequiredAreShown
  BY DEF FieldsInv
<1> QED
  BY <1>1, FieldsAlways, PTL

(* A write meets what is required and offered then, also where it takes a  *)
(* default, and nothing changes what an archived field has.                *)
LEMMA WritesFollow ==
  ASSUME FieldsInv, [FieldsNext]_fieldVars, NEW r \in RecordIds, values'[r] # values[r]
  PROVE  /\ \A f \in ActiveFields : definitions[f].required => Has(values'[r], f) # {}
         /\ \A f \in FieldIds : Has(values'[r], f) # Has(values[r], f) =>
              f \in ActiveFields /\ Has(values'[r], f) \subseteq Offered(f, definitions[f])
<1>1. PICK s \in RecordIds, patch \in Patches : SaveValues(s, patch)
  BY DEF FieldsNext, fieldVars, SaveDefinition, SaveLayout, ResetLayout
<1>2. s = r
  BY <1>1, Written
<1>3. values'[r] \in RecordRow /\ values'[r] # NoRecord
  BY <1>1, <1>2, Written DEF RecordRow, NoRecord
<1>4. \A f \in FieldIds : Has(values'[r], f) = values'[r].of[f]
  BY <1>3 DEF Has
<1>5. \A f \in ActiveFields : definitions[f].required => values'[r].of[f] # {}
  <2>1. \A f \in ActiveFields : values'[r].of[f] = Proposed(r, patch, f)
    BY <1>1, <1>2, Written
  <2> QED
    BY <1>1, <1>2, <2>1 DEF SaveValues
<1>6. \A f \in FieldIds : values'[r].of[f] # Has(values[r], f) =>
        f \in ActiveFields /\ values'[r].of[f] \subseteq Offered(f, definitions[f])
  BY <1>1, <1>2, NewIsOffered
<1> QED
  BY <1>4, <1>5, <1>6 DEF ActiveFields

(* What a command writes is an active field's, and one of the options that  *)
(* it offers at that moment.                                                *)
THEOREM ValuesObeyDefinitions == FieldsSpec => ValuesFollowDefinitions
<1>1. FieldsInv /\ [FieldsNext]_fieldVars =>
        [\A r \in RecordIds : values'[r] # values[r] =>
           /\ \A f \in ActiveFields : definitions[f].required => Has(values'[r], f) # {}
           /\ \A f \in FieldIds : Has(values'[r], f) # Has(values[r], f) =>
                f \in ActiveFields /\ Has(values'[r], f) \subseteq Offered(f, definitions[f])]_fieldVars
  BY WritesFollow
<1> QED
  BY <1>1, FieldsAlways, PTL DEF FieldsSpec, ValuesFollowDefinitions

-----------------------------------------------------------------------------
(* What Access promises, for all catalogues, contracts, exceptions and      *)
(* moments, and any number of sessions.  Each writer of a row that an       *)
(* entitlement can come from waits for a task command that has locked its   *)
(* rows, so all four statements of the command see the same commit.         *)

(* The locks of a task command, as it gets them.                            *)
LocksSoFar == {{}, {"organization"}, {"organization", "module"}, {"organization", "module", "contract"}, Rows}

IsTask(s) ==
  /\ s = [op |-> "task", held |-> s.held, had |-> s.had, at |-> s.at, seen |-> s.seen]
  /\ s.held \in LocksSoFar /\ s.had \in 0 .. 4 /\ s.at \in Moments \cup {NoEnd}
  /\ s.seen = [modules |-> s.seen.modules, subscription |-> s.seen.subscription,
               addOns |-> s.seen.addOns, exceptions |-> s.seen.exceptions]

IsEdit(s) ==
  /\ s = [op |-> "edit", held |-> s.held, edit |-> s.edit, starts |-> s.starts]
  /\ s.held \in {{}, {"contract"}} /\ s.edit \in ContractEdits /\ s.starts \in Moments
  /\ PeriodAdmits(s.starts, s.edit)

AccessRows ==
  /\ moment \in Moments /\ catalogue.modules \subseteq Modules
  /\ contract # NoContract =>
       /\ contract.status \in Statuses /\ contract.plan \in Plans \cup {NoPlan} /\ contract.starts \in Moments
       /\ contract.ends # NoEnd => contract.starts < contract.ends
  /\ exceptions \in [Modules -> ExceptionEdits \cup {NoException}]
  /\ session = [t \in Sessions |-> session[t]]
  /\ \A t \in Sessions : session[t] = Resting \/ IsEdit(session[t]) \/ IsTask(session[t])

(* Nobody edits the contract while a task command has it locked.            *)
EditorsWait ==
  \A t, u \in Sessions : "contract" \in session[t].held /\ session[u].op = "edit" /\ t # u
    => "contract" \notin session[u].held

(* What has been read is what is there, and a command that was admitted is  *)
(* admitted by it.                                                          *)
HasReadWhatIs(s) ==
  /\ s.had # 0 => s.held = Rows
  /\ \A i \in 1 .. 4 : i <= s.had => s.seen[Statements[i]] = Snapshot[Statements[i]]
  /\ s.at # NoEnd => s.had = 4 /\ TaskModule \in Enabled(s.seen, s.at)

ReadsAreCurrent == \A t \in Sessions : session[t].op = "task" => HasReadWhatIs(session[t])

AccessInv == AccessRows /\ EditorsWait /\ ReadsAreCurrent

-----------------------------------------------------------------------------
LEMMA LocksInOrder ==
  ASSUME NEW held \in LocksSoFar
  PROVE  /\ Cardinality(held) \in 0 .. 4 /\ (Cardinality(held) = 4 <=> held = Rows)
         /\ Cardinality(held) < 4 => held \cup {TaskOrder[Cardinality(held) + 1]} \in LocksSoFar
<1>1. PICK none : none = {} /\ Cardinality(none) = 0 /\ IsFiniteSet(none)
  BY FS_EmptySet
<1>2. PICK one : one = {"organization"}
  OBVIOUS
<1>3. PICK two : two = {"organization", "module"}
  OBVIOUS
<1>4. PICK three : three = {"organization", "module", "contract"}
  OBVIOUS
<1>5. one = none \cup {"organization"} /\ two = one \cup {"module"} /\ three = two \cup {"contract"}
      /\ Rows = three \cup {"exceptions"}
      /\ "organization" \notin none /\ "module" \notin one /\ "contract" \notin two /\ "exceptions" \notin three
  BY <1>1, <1>2, <1>3, <1>4 DEF Rows
<1>6. Cardinality(one) = 1 /\ IsFiniteSet(one)
  <2>1. /\ IsFiniteSet(none \cup {"organization"})
        /\ Cardinality(none \cup {"organization"}) = Cardinality(none) + 1
    BY <1>1, <1>5, FS_AddElement
  <2> QED
    BY <1>1, <1>5, <2>1
<1>7. Cardinality(two) = 2 /\ IsFiniteSet(two)
  <2>1. /\ IsFiniteSet(one \cup {"module"})
        /\ Cardinality(one \cup {"module"}) = Cardinality(one) + 1
    BY <1>6, <1>5, FS_AddElement
  <2> QED
    BY <1>6, <1>5, <2>1
<1>8. Cardinality(three) = 3 /\ IsFiniteSet(three)
  <2>1. /\ IsFiniteSet(two \cup {"contract"})
        /\ Cardinality(two \cup {"contract"}) = Cardinality(two) + 1
    BY <1>7, <1>5, FS_AddElement
  <2> QED
    BY <1>7, <1>5, <2>1
<1>9. Cardinality(Rows) = 4
  <2>1. Cardinality(three \cup {"exceptions"}) = Cardinality(three) + 1
    BY <1>5, <1>8, FS_AddElement
  <2> QED
    BY <1>5, <1>8, <2>1
<1>10. TaskOrder[1] = "organization" /\ TaskOrder[2] = "module" /\ TaskOrder[3] = "contract" /\ TaskOrder[4] = "exceptions"
  BY DEF TaskOrder
<1>11. LocksSoFar = {none, one, two, three, Rows}
  BY <1>1, <1>2, <1>3, <1>4 DEF LocksSoFar
<1>12. CASE held = none
  BY <1>1, <1>5, <1>9, <1>10, <1>11, <1>12
<1>13. CASE held = one
  <2>1. Cardinality(held) = 1 /\ TaskOrder[Cardinality(held) + 1] = "module" /\ held # Rows
    BY <1>6, <1>9, <1>10, <1>13
  <2>2. held \cup {TaskOrder[Cardinality(held) + 1]} = two
    BY <1>5, <1>13, <2>1
  <2> QED
    BY <1>11, <2>1, <2>2
<1>14. CASE held = two
  <2>1. Cardinality(held) = 2 /\ TaskOrder[Cardinality(held) + 1] = "contract" /\ held # Rows
    BY <1>7, <1>9, <1>10, <1>14
  <2>2. held \cup {TaskOrder[Cardinality(held) + 1]} = three
    BY <1>5, <1>14, <2>1
  <2> QED
    BY <1>11, <2>1, <2>2
<1>15. CASE held = three
  <2>1. Cardinality(held) = 3 /\ TaskOrder[Cardinality(held) + 1] = "exceptions" /\ held # Rows
    BY <1>8, <1>9, <1>10, <1>15
  <2>2. held \cup {TaskOrder[Cardinality(held) + 1]} = Rows
    BY <1>5, <1>15, <2>1
  <2> QED
    BY <1>11, <2>1, <2>2
<1>16. CASE held = Rows
  BY <1>9, <1>11, <1>16
<1> QED
  BY <1>11, <1>12, <1>13, <1>14, <1>15, <1>16

LEMMA FourStatements ==
  /\ Len(Statements) = 4 /\ Len(TaskOrder) = 4 /\ Statements[1] = "modules" /\ Statements[2] = "subscription"
  /\ Statements[3] = "addOns" /\ Statements[4] = "exceptions"
  BY DEF Statements, TaskOrder

LEMMA KindsOfSessions ==
  ASSUME AccessInv, NEW t \in Sessions
  PROVE  /\ session[t].op = "task" => IsTask(session[t])
         /\ session[t].op = "edit" => IsEdit(session[t])
         /\ session[t].op \notin {"task", "edit"} => session[t] = Resting
<1>1. PICK s : s = session[t]
  OBVIOUS
<1>2. s = Resting \/ IsEdit(s) \/ IsTask(s)
  BY <1>1 DEF AccessInv, AccessRows
<1>3. s = Resting => s.op = "none"
  BY DEF Resting
<1>4. IsEdit(s) => s.op = "edit"
  <2> HAVE IsEdit(s)
  <2>1. PICK held, edit, starts : s = [op |-> "edit", held |-> held, edit |-> edit, starts |-> starts]
    BY DEF IsEdit
  <2> QED
    BY <2>1
<1>5. IsTask(s) => s.op = "task"
  <2> HAVE IsTask(s)
  <2>1. PICK held, had, at, seen : s = [op |-> "task", held |-> held, had |-> had, at |-> at, seen |-> seen]
    BY DEF IsTask
  <2> QED
    BY <2>1
<1> QED
  BY <1>1, <1>2, <1>3, <1>4, <1>5

(* A command that has read all is one that has read what is there.          *)
LEMMA AllRead ==
  ASSUME AccessInv, NEW t \in Sessions, session[t].op = "task", session[t].had = 4
  PROVE  session[t].seen = Snapshot
<1>1. PICK seen : seen = session[t].seen
  OBVIOUS
<1>2. IsTask(session[t])
  BY KindsOfSessions
<1>3. seen = [modules |-> seen.modules, subscription |-> seen.subscription,
              addOns |-> seen.addOns, exceptions |-> seen.exceptions]
  BY <1>1, <1>2 DEF IsTask
<1>4. \A i \in 1 .. 4 : seen[Statements[i]] = Snapshot[Statements[i]]
  BY <1>1 DEF AccessInv, ReadsAreCurrent, HasReadWhatIs
<1>5. /\ seen.modules = Snapshot.modules /\ seen.subscription = Snapshot.subscription
      /\ seen.addOns = Snapshot.addOns /\ seen.exceptions = Snapshot.exceptions
  BY <1>4, FourStatements
<1>6. Snapshot = [modules |-> Snapshot.modules, subscription |-> Snapshot.subscription,
                  addOns |-> Snapshot.addOns, exceptions |-> Snapshot.exceptions]
  BY DEF Snapshot
<1> QED
  BY <1>1, <1>3, <1>5, <1>6

LEMMA AccessBegins == AccessInit => AccessInv
<1> SUFFICES ASSUME AccessInit PROVE AccessInv
  OBVIOUS
<1>1. AccessRows
  BY AccessAssumption DEF AccessInit, AccessRows, Moments
<1> QED
  BY <1>1 DEF AccessInit, AccessInv, EditorsWait, ReadsAreCurrent, Resting

(* While a command has all its rows, nobody writes them.                    *)
LEMMA RowsAreStill ==
  ASSUME AccessInv, [AccessNext]_accessVars, NEW t \in Sessions, session[t].op = "task", session[t].held = Rows
  PROVE  UNCHANGED commercialRows
<1>1. ASSUME NEW u \in Sessions, EditCommit(u) PROVE FALSE
  <2>1. session[u].op = "edit" /\ session[u].held # {} /\ t # u
    BY <1>1 DEF EditCommit
  <2>2. session[u].held = {"contract"}
    BY <2>1, KindsOfSessions DEF IsEdit
  <2> QED
    BY <2>1, <2>2 DEF AccessInv, EditorsWait, Rows
<1>2. ASSUME NEW c, Reconcile(c) PROVE FALSE
  BY <1>2 DEF Reconcile, Unheld, Rows
<1>3. ASSUME NEW m, NEW row, EditException(m, row) PROVE FALSE
  BY <1>3 DEF EditException, Unheld, Rows
<1> QED
  BY <1>1, <1>2, <1>3 DEF AccessNext, accessVars, commercialRows, TimePasses, EditBegin, EditLock, TaskBegin,
     TaskLock, TaskRead, TaskAdmitted, SessionEnds

(* Steps of one session, and of the clock and the rows.                     *)
LEMMA SessionGoesOn ==
  ASSUME AccessInv, [AccessNext]_accessVars, AccessRows',
         NEW t \in Sessions, NEW next, session' = [session EXCEPT ![t] = next],
         \/ next.op # "edit"
         \/ "contract" \notin next.held
         \/ \A u \in Sessions : "contract" \notin session[u].held,
         \/ "contract" \notin next.held
         \/ "contract" \in session[t].held
         \/ \A u \in Sessions \ {t} : session[u].op = "edit" => "contract" \notin session[u].held,
         next.op = "task" => HasReadWhatIs(next) /\ UNCHANGED commercialRows
  PROVE  AccessInv'
<1>1. session'[t] = next /\ \A u \in Sessions \ {t} : session'[u] = session[u]
  BY DEF AccessInv, AccessRows
<1>2. EditorsWait'
  BY <1>1 DEF AccessInv, EditorsWait
<1>3. ASSUME NEW u \in Sessions, session'[u].op = "task" PROVE HasReadWhatIs(session[u])'
  <2>1. PICK s : s = session'[u]
    OBVIOUS
  <2>2. HasReadWhatIs(s) /\ (s.had = 0 \/ Snapshot' = Snapshot)
    <3>1. CASE u = t
      BY <1>1, <1>3, <2>1, <3>1 DEF commercialRows, Snapshot
    <3>2. CASE u # t
      <4>1. s = session[u]
        BY <1>1, <2>1, <3>2
      <4>2. HasReadWhatIs(s)
        BY <1>3, <2>1, <4>1 DEF AccessInv, ReadsAreCurrent
      <4>3. s.had # 0 => UNCHANGED commercialRows
        BY <1>3, <2>1, <4>1, <4>2, RowsAreStill DEF HasReadWhatIs
      <4> QED
        BY <4>2, <4>3 DEF commercialRows, Snapshot
    <3> QED
      BY <3>1, <3>2
  <2>4. \A i \in 1 .. 4 : i <= s.had => s.seen[Statements[i]] = Snapshot'[Statements[i]]
    BY <2>2 DEF HasReadWhatIs
  <2> QED
    BY <2>1, <2>2, <2>4 DEF HasReadWhatIs
<1> QED
  BY <1>2, <1>3 DEF AccessInv, ReadsAreCurrent

LEMMA OthersGoOn == ASSUME AccessInv, [AccessNext]_accessVars, AccessRows', session' = session PROVE AccessInv'
<1>1. ASSUME NEW u \in Sessions, session[u].op = "task" PROVE HasReadWhatIs(session[u])'
  <2>1. PICK s : s = session[u] /\ s = session'[u]
    OBVIOUS
  <2>2. HasReadWhatIs(s)
    BY <1>1, <2>1 DEF AccessInv, ReadsAreCurrent
  <2>3. s.had # 0 => Snapshot' = Snapshot
    <3>1. s.had # 0 => UNCHANGED commercialRows
      BY <1>1, <2>1, <2>2, RowsAreStill DEF HasReadWhatIs
    <3> QED
      BY <3>1 DEF commercialRows, Snapshot
  <2>4. s.had \in 0 .. 4
    BY <1>1, <2>1, KindsOfSessions DEF IsTask
  <2>5. \A i \in 1 .. 4 : i <= s.had => s.seen[Statements[i]] = Snapshot'[Statements[i]]
    BY <2>2, <2>3, <2>4 DEF HasReadWhatIs
  <2> QED
    BY <2>1, <2>2, <2>5 DEF HasReadWhatIs
<1> QED
  BY <1>1 DEF AccessInv, EditorsWait, ReadsAreCurrent

LEMMA SessionRows ==
  ASSUME AccessInv, NEW t \in Sessions, NEW next, next = Resting \/ IsEdit(next) \/ IsTask(next),
         session' = [session EXCEPT ![t] = next], UNCHANGED <<moment, commercialRows>>
  PROVE  AccessRows'
  BY DEF AccessInv, AccessRows, commercialRows

-----------------------------------------------------------------------------
LEMMA EditSteps ==
  ASSUME AccessInv, [AccessNext]_accessVars, NEW t \in Sessions, EditBegin(t) \/ EditLock(t) \/ EditCommit(t)
  PROVE  AccessInv'
<1>1. CASE EditBegin(t)
  <2>1. PICK e \in ContractEdits :
          PeriodAdmits(StartOf(e), e) /\ Becomes(t, [op |-> "edit", held |-> {}, edit |-> e, starts |-> StartOf(e)])
    BY <1>1 DEF EditBegin
  <2>2. PICK starts : starts = StartOf(e)
    OBVIOUS
  <2>3. starts \in Moments
    <3>1. e.starts \in Moments \cup {NoEnd}
      BY AccessAssumption DEF ContractEdit
    <3> QED
      BY <2>2, <3>1 DEF StartOf, AccessInv, AccessRows
  <2>4. PICK next : next = [op |-> "edit", held |-> {}, edit |-> e, starts |-> starts]
    OBVIOUS
  <2>5. IsEdit(next) /\ next.op = "edit" /\ next.held = {}
    BY <2>1, <2>2, <2>3, <2>4 DEF IsEdit
  <2>6. session' = [session EXCEPT ![t] = next] /\ UNCHANGED <<moment, commercialRows>>
    BY <1>1, <2>1, <2>2, <2>4 DEF EditBegin, Becomes
  <2>7. AccessRows'
    BY <2>5, <2>6, SessionRows
  <2> QED
    BY <2>5, <2>6, <2>7, SessionGoesOn
<1>2. CASE EditLock(t)
  <2>1. PICK s : s = session[t] /\ IsEdit(s) /\ s.op = "edit"
    BY <1>2, KindsOfSessions DEF EditLock
  <2>2. PICK next : next = [s EXCEPT !.held = {"contract"}]
    OBVIOUS
  <2>3. next = [op |-> "edit", held |-> {"contract"}, edit |-> s.edit, starts |-> s.starts]
    BY <2>1, <2>2 DEF IsEdit
  <2>4. IsEdit(next) /\ next.op = "edit" /\ next.held = {"contract"}
    BY <2>1, <2>3 DEF IsEdit
  <2>5. session' = [session EXCEPT ![t] = next] /\ UNCHANGED <<moment, commercialRows>>
    BY <1>2, <2>1, <2>2 DEF EditLock, AccessInv, AccessRows
  <2>6. \A u \in Sessions : "contract" \notin session[u].held
    BY <1>2 DEF EditLock, Unheld
  <2>7. AccessRows'
    BY <2>4, <2>5, SessionRows
  <2> QED
    BY <2>4, <2>5, <2>6, <2>7, SessionGoesOn
<1>3. CASE EditCommit(t)
  <2>1. PICK s : s = session[t] /\ IsEdit(s) /\ s.op = "edit"
    BY <1>3, KindsOfSessions DEF EditCommit
  <2>2. PICK e \in ContractEdits : e = s.edit /\ PeriodAdmits(s.starts, e) /\ s.starts \in Moments
    BY <2>1 DEF IsEdit
  <2>3. contract' = [status |-> e.status, starts |-> s.starts, ends |-> e.ends, plan |-> e.plan, addOns |-> e.addOns]
    BY <1>3, <2>1, <2>2 DEF EditCommit
  <2>4. e.status \in Statuses /\ e.plan \in Plans \cup {NoPlan}
    BY AccessAssumption DEF ContractEdit
  <2>5. PICK next : next = Resting
    OBVIOUS
  <2>6. next.op = "none" /\ next.held = {}
    BY <2>5 DEF Resting
  <2>7. session' = [session EXCEPT ![t] = next] /\ UNCHANGED <<moment, catalogue, exceptions>>
    BY <1>3, <2>5 DEF EditCommit, Becomes
  <2>8. AccessRows'
    BY <2>2, <2>3, <2>4, <2>5, <2>7 DEF AccessInv, AccessRows, PeriodAdmits
  <2> QED
    BY <2>6, <2>7, <2>8, SessionGoesOn
<1> QED
  BY <1>1, <1>2, <1>3

LEMMA TaskSteps ==
  ASSUME AccessInv, [AccessNext]_accessVars, NEW t \in Sessions,
         TaskBegin(t) \/ TaskLock(t) \/ TaskRead(t) \/ TaskAdmitted(t) \/ SessionEnds(t)
  PROVE  AccessInv'
<1>1. CASE TaskBegin(t)
  <2>1. PICK next : next = [op |-> "task", held |-> {}, had |-> 0, at |-> NoEnd, seen |-> NothingRead]
    OBVIOUS
  <2>2. NothingRead = [modules |-> NoContract, subscription |-> NoContract, addOns |-> NoContract, exceptions |-> NoContract]
    <3>1. {Statements[i] : i \in DOMAIN Statements} = {"modules", "subscription", "addOns", "exceptions"}
      BY DEF Statements
    <3> QED
      BY <3>1 DEF NothingRead
  <2>3. IsTask(next) /\ next.op = "task" /\ next.held = {} /\ next.had = 0 /\ next.at = NoEnd
    BY <2>1, <2>2 DEF IsTask, LocksSoFar
  <2>4. session' = [session EXCEPT ![t] = next] /\ UNCHANGED <<moment, commercialRows>>
    BY <1>1, <2>1 DEF TaskBegin, Becomes
  <2>5. AccessRows'
    BY <2>3, <2>4, SessionRows
  <2>6. HasReadWhatIs(next)
    BY <2>3 DEF HasReadWhatIs
  <2> QED
    BY <2>3, <2>4, <2>5, <2>6, SessionGoesOn
<1>2. ASSUME session[t].op = "task" PROVE IsTask(session[t])
  BY <1>2, KindsOfSessions
<1>3. CASE TaskLock(t)
  <2>1. PICK s : s = session[t] /\ IsTask(s) /\ s.op = "task"
    BY <1>2, <1>3 DEF TaskLock
  <2>2. PICK row \in TaskWants(t) : /\ Excludes(t, row) = {}
                                    /\ session' = [session EXCEPT ![t].held = @ \cup {row}]
    BY <1>3 DEF TaskLock
  <2>3. Cardinality(s.held) < 4 /\ row = TaskOrder[Cardinality(s.held) + 1]
    BY <2>1, <2>2, FourStatements DEF TaskWants
  <2>4. PICK held \in LocksSoFar : held = s.held \cup {row}
    BY <2>1, <2>3, LocksInOrder DEF IsTask
  <2>5. PICK next : next = [s EXCEPT !.held = held]
    OBVIOUS
  <2>6. next = [op |-> "task", held |-> held, had |-> s.had, at |-> s.at, seen |-> s.seen]
    BY <2>1, <2>5 DEF IsTask
  <2>7. IsTask(next) /\ next.op = "task" /\ next.held = held /\ next.had = s.had /\ next.at = s.at
    BY <2>1, <2>6 DEF IsTask
  <2>8. session' = [session EXCEPT ![t] = next]
    BY <2>1, <2>2, <2>4, <2>5 DEF AccessInv, AccessRows
  <2>9. UNCHANGED <<moment, commercialRows>>
    BY <1>3 DEF TaskLock
  <2>10. s.had = 0 /\ s.at = NoEnd
    <3>1. s.held # Rows
      <4>1. PICK locks \in LocksSoFar : locks = s.held
        BY <2>1 DEF IsTask
      <4>2. Cardinality(locks) < 4 /\ (Cardinality(locks) = 4 <=> locks = Rows)
        BY <2>3, <4>1, LocksInOrder
      <4> QED
        BY <4>1, <4>2
    <3> QED
      BY <2>1, <3>1 DEF AccessInv, ReadsAreCurrent, HasReadWhatIs
  <2>11. \/ "contract" \notin held
         \/ "contract" \in session[t].held
         \/ \A u \in Sessions \ {t} : session[u].op = "edit" => "contract" \notin session[u].held
    BY <2>1, <2>2, <2>4 DEF Excludes
  <2>12. AccessRows'
    BY <2>7, <2>8, <2>9, SessionRows
  <2>13. next.op # "edit" /\ next.had = 0 /\ next.at = NoEnd
    BY <2>7, <2>10
  <2>14. HasReadWhatIs(next)
    BY <2>13 DEF HasReadWhatIs
  <2>15. \/ "contract" \notin next.held
         \/ "contract" \in session[t].held
         \/ \A u \in Sessions \ {t} : session[u].op = "edit" => "contract" \notin session[u].held
    BY <2>7, <2>11
  <2> QED
    BY <2>8, <2>9, <2>12, <2>13, <2>14, <2>15, SessionGoesOn
<1>4. CASE TaskRead(t)
  <2>1. PICK s, n, part, now : /\ s = session[t] /\ n = s.had + 1 /\ part = Statements[n] /\ now = Snapshot[part]
                               /\ IsTask(s) /\ s.op = "task"
    BY <1>2, <1>4 DEF TaskRead
  <2>2. s.held = Rows
    <3>1. PICK held \in LocksSoFar : held = s.held /\ TaskWants(t) = {}
      BY <1>4, <2>1 DEF TaskRead, IsTask
    <3>2. ~ (Cardinality(held) < 4)
      BY <2>1, <3>1, FourStatements DEF TaskWants
    <3>3. Cardinality(held) \in 0 .. 4 /\ (Cardinality(held) = 4 <=> held = Rows)
      BY <3>1, LocksInOrder
    <3> QED
      BY <3>1, <3>2, <3>3
  <2>3. s.had \in 0 .. 3 /\ n \in 1 .. 4 /\ part \in {"modules", "subscription", "addOns", "exceptions"}
    BY <1>4, <2>1, FourStatements DEF TaskRead, IsTask
  <2>4. PICK seen : seen = [s.seen EXCEPT ![part] = now]
    OBVIOUS
  <2>5. /\ seen = [modules |-> seen.modules, subscription |-> seen.subscription,
                   addOns |-> seen.addOns, exceptions |-> seen.exceptions]
        /\ seen[part] = now
        /\ \A x \in {"modules", "subscription", "addOns", "exceptions"} \ {part} : seen[x] = s.seen[x]
    BY <2>1, <2>3, <2>4 DEF IsTask
  <2>6. PICK next : next = [s EXCEPT !.had = n, !.seen = seen]
    OBVIOUS
  <2>7. next = [op |-> "task", held |-> s.held, had |-> n, at |-> s.at, seen |-> seen]
    <3>1. PICK held, had, at, old :
            s = [op |-> "task", held |-> held, had |-> had, at |-> at, seen |-> old]
      BY <2>1 DEF IsTask
    <3>2. s.held = held /\ s.at = at
      BY <3>1
    <3>3. next = [op |-> "task", held |-> held, had |-> n, at |-> at, seen |-> seen]
      BY <2>6, <3>1
    <3> QED
      BY <3>2, <3>3
  <2>8. session' = [session EXCEPT ![t] = next] /\ UNCHANGED <<moment, commercialRows>>
    BY <1>4, <2>1, <2>4, <2>6 DEF TaskRead, AccessInv, AccessRows, IsTask
  <2>9. /\ IsTask(next) /\ next.op = "task" /\ next.held = Rows /\ next.had = n /\ next.at = s.at /\ next.seen = seen
    BY <2>1, <2>2, <2>3, <2>5, <2>7 DEF IsTask
  <2>10. s.at = NoEnd
    BY <2>1, <2>3 DEF AccessInv, ReadsAreCurrent, HasReadWhatIs
  <2>12. ASSUME NEW i \in 1 .. 4, i <= n PROVE seen[Statements[i]] = Snapshot[Statements[i]]
    <3>1. CASE i = n
      BY <2>1, <2>5, <3>1
    <3>2. CASE i # n
      <4>1. i <= s.had /\ Statements[i] \in {"modules", "subscription", "addOns", "exceptions"} \ {part}
        BY <2>1, <2>3, <2>12, <3>2, FourStatements
      <4>2. s.seen[Statements[i]] = Snapshot[Statements[i]]
        BY <2>1, <4>1 DEF AccessInv, ReadsAreCurrent, HasReadWhatIs
      <4> QED
        BY <2>5, <4>1, <4>2
    <3> QED
      BY <3>1, <3>2
  <2>13. AccessRows'
    BY <2>8, <2>9, SessionRows
  <2>14. "contract" \in session[t].held
    BY <2>1, <2>2 DEF Rows
  <2>15. HasReadWhatIs(next)
    BY <2>9, <2>10, <2>12 DEF HasReadWhatIs
  <2>16. next.op # "edit"
    BY <2>9
  <2> QED
    BY <2>8, <2>13, <2>14, <2>15, <2>16, SessionGoesOn
<1>5. CASE TaskAdmitted(t)
  <2>1. PICK s : s = session[t] /\ IsTask(s) /\ s.op = "task" /\ s.had = 4 /\ TaskModule \in Enabled(s.seen, moment)
    BY <1>2, <1>5, FourStatements DEF TaskAdmitted
  <2>2. PICK now \in Moments : now = moment
    BY DEF AccessInv, AccessRows
  <2>3. PICK next : next = [op |-> "task", held |-> s.held, had |-> s.had, at |-> now, seen |-> s.seen]
    OBVIOUS
  <2>4. next = [s EXCEPT !.at = now]
    BY <2>1, <2>3 DEF IsTask
  <2>5. session' = [session EXCEPT ![t] = next] /\ UNCHANGED <<moment, commercialRows>>
    BY <1>5, <2>1, <2>2, <2>4 DEF TaskAdmitted
  <2>6. /\ IsTask(next) /\ next.op = "task" /\ next.held = s.held /\ next.had = 4 /\ next.at = now /\ next.seen = s.seen
    BY <2>1, <2>2, <2>3 DEF IsTask
  <2>8. s.held = Rows /\ \A i \in 1 .. 4 : s.seen[Statements[i]] = Snapshot[Statements[i]]
    BY <2>1 DEF AccessInv, ReadsAreCurrent, HasReadWhatIs
  <2>9. TaskModule \in Enabled(next.seen, next.at)
    BY <2>1, <2>2, <2>6
  <2>10. AccessRows'
    BY <2>5, <2>6, SessionRows
  <2>11. "contract" \in session[t].held
    BY <2>1, <2>8 DEF Rows
  <2>12. HasReadWhatIs(next)
    BY <2>6, <2>8, <2>9 DEF HasReadWhatIs
  <2>13. next.op # "edit"
    BY <2>6
  <2> QED
    BY <2>5, <2>10, <2>11, <2>12, <2>13, SessionGoesOn
<1>6. CASE SessionEnds(t)
  <2>1. PICK next : next = Resting
    OBVIOUS
  <2>2. next.op = "none" /\ next.held = {}
    BY <2>1 DEF Resting
  <2>3. session' = [session EXCEPT ![t] = next] /\ UNCHANGED <<moment, commercialRows>>
    BY <1>6, <2>1 DEF SessionEnds, Becomes
  <2>4. AccessRows'
    BY <2>1, <2>3, SessionRows
  <2> QED
    BY <2>2, <2>3, <2>4, SessionGoesOn
<1> QED
  BY <1>1, <1>3, <1>4, <1>5, <1>6

LEMMA AccessStep == AccessInv /\ [AccessNext]_accessVars => AccessInv'
<1> SUFFICES ASSUME AccessInv, [AccessNext]_accessVars PROVE AccessInv'
  OBVIOUS
<1>1. CASE UNCHANGED accessVars
  <2>1. AccessRows'
    BY <1>1 DEF accessVars, commercialRows, AccessInv, AccessRows
  <2> QED
    BY <1>1, <2>1, OthersGoOn DEF accessVars
<1>2. CASE TimePasses
  <2>1. moment' \in Moments
    BY <1>2, AccessAssumption DEF TimePasses, AccessInv, AccessRows, Moments
  <2>2. AccessRows'
    BY <1>2, <2>1 DEF TimePasses, commercialRows, AccessInv, AccessRows
  <2> QED
    BY <1>2, <2>2, OthersGoOn DEF TimePasses
<1>3. ASSUME NEW c \in Catalogues, Reconcile(c) PROVE AccessInv'
  <2>1. catalogue'.modules \subseteq Modules
    BY <1>3, AccessAssumption DEF Reconcile, AccessInv, AccessRows
  <2>2. AccessRows'
    BY <1>3, <2>1 DEF Reconcile, AccessInv, AccessRows
  <2> QED
    BY <1>3, <2>2, OthersGoOn DEF Reconcile
<1>4. ASSUME NEW m \in Modules, NEW row \in ExceptionEdits, EditException(m, row) PROVE AccessInv'
  <2>1. AccessRows'
    BY <1>4 DEF EditException, AccessInv, AccessRows
  <2> QED
    BY <1>4, <2>1, OthersGoOn DEF EditException
<1> QED
  BY <1>1, <1>2, <1>3, <1>4, EditSteps, TaskSteps DEF AccessNext

LEMMA AccessAlways == AccessSpec => []AccessInv
  BY AccessBegins, AccessStep, PTL DEF AccessSpec

(* A subscription ends after it starts, although the start was read before  *)
(* its row was locked.                                                      *)
THEOREM ContractsLast == AccessSpec => []AccessTypeOK
<1>1. ASSUME AccessInv PROVE AccessTypeOK
  <2>1. ASSUME NEW t \in Sessions PROVE session[t].held \subseteq Rows /\ (session[t].op = "edit" => session[t].starts \in Moments)
    <3>1. PICK s : s = session[t]
      OBVIOUS
    <3>2. IsEdit(s) \/ IsTask(s) \/ s = Resting
      BY <1>1, <3>1 DEF AccessInv, AccessRows
    <3>3. s.held \subseteq Rows
      BY <3>2 DEF IsEdit, IsTask, Resting, LocksSoFar, Rows
    <3> QED
      BY <1>1, <3>1, <3>3, KindsOfSessions DEF IsEdit
  <2> QED
    BY <1>1, <2>1 DEF AccessInv, AccessRows, AccessTypeOK
<1> QED
  BY <1>1, AccessAlways, PTL

(* From its check to its commit, what a task command rests on is granted.   *)
THEOREM EntitledWriters == AccessSpec => []WritersAreEntitled
<1>1. ASSUME AccessInv PROVE WritersAreEntitled
  <2> SUFFICES ASSUME NEW t \in Sessions, session[t].op = "task", session[t].at # NoEnd
               PROVE  TaskModule \in Enabled(Snapshot, session[t].at)
    BY DEF WritersAreEntitled
  <2>1. session[t].had = 4 /\ TaskModule \in Enabled(session[t].seen, session[t].at)
    BY <1>1 DEF AccessInv, ReadsAreCurrent, HasReadWhatIs
  <2>2. session[t].seen = Snapshot
    BY <1>1, <2>1, AllRead
  <2> QED
    BY <2>1, <2>2
<1> QED
  BY <1>1, AccessAlways, PTL

-----------------------------------------------------------------------------
(* What Customer Dues promises, for all customers, branches, sessions and  *)
(* keys.  The register of entries only grows; what a session has checked    *)
(* under the lock of a key or a customer stays true while it holds it,      *)
(* because whoever writes an entry holds both.                              *)

DueLockables == {DueKey(k) : k \in Keys} \cup {DueRow(e) : e \in DueEntry}
                  \cup {DueCustomer(c) : c \in Customers}
DueCmd == PostCmd \cup ReverseDueCmd
DueSession == {NotInTxn} \cup [cmd : DueCmd, held : SUBSET DueLockables]

(* The sums, by names of their own.                                         *)
OwedOver(M) == MapThenSumSet(Effect, M)
EntriesOf(c) == {e \in dues : e.customer = c}
EffectOf == [e \in DueEntry |-> Effect(e)]

EntriesInv ==
  /\ dues \in SUBSET DueEntry /\ IsFiniteSet(dues)
  /\ \A e, f \in dues : e.id = f.id => e = f
  /\ \A r \in dues : r.reverses \subseteq dues

(* What a command that has a lock has found, and what it then relies on.    *)
StillFree(c, held) == DueKey(c.key) \in held => UnusedDueKey(c.key)
StillStands(c, held) ==
  c.op = "reverse" =>
    /\ c.target \in dues
    /\ DueRow(c.target) \in held => c.target.reverses = {}
    /\ DueCustomer(c.target.customer) \in held => ~Reversed(c.target)
StillOwed(c, held) ==
  c.op = "post" /\ c.kind = "payment" /\ DueCustomer(c.customer) \in held =>
    c.amount <= OwedOver(EntriesOf(c.customer))

Relies(s) == s.cmd.op # "idle" =>
               StillFree(s.cmd, s.held) /\ StillStands(s.cmd, s.held) /\ StillOwed(s.cmd, s.held)

DuesInv ==
  /\ EntriesInv
  /\ dueTxn \in [Txns -> DueSession]
  /\ \A t, u \in Txns : t # u => dueTxn[t].held \cap dueTxn[u].held = {}
  /\ \A t \in Txns : Relies(dueTxn[t])

LEMMA PostingFacts ==
  ASSUME NEW e \in Postings
  PROVE  /\ e.reverses = {} /\ e.amount \in Nat /\ e.customer \in Customers /\ e \in DueEntry
         /\ Effect(e) \in Int /\ Effect(e) = Sign(e.kind) * e.amount
         /\ e.kind = "payment" => Effect(e) = -e.amount
<1>1. e.reverses = {} /\ e.amount \in Nat /\ e.customer \in Customers
  <2>1. CASE e \in LegacyDues
    <3>1. e = Posting(e.id, e)
      BY <2>1, DuesAssumption
    <3> QED
      BY <2>1, <3>1, DuesAssumption DEF Posting
  <2>2. ASSUME NEW c \in PostCmd, e = Posting(c.key, c)
        PROVE  e.reverses = {} /\ e.amount \in Nat /\ e.customer \in Customers
    BY <2>2, DuesAssumption DEF Posting, PostCmd
  <2> QED
    BY <2>1, <2>2 DEF Postings
<1>2. Sign(e.kind) \in {1, -1} /\ (e.kind = "payment" => Sign(e.kind) = -1)
  BY DEF Sign
<1>3. Effect(e) = Sign(e.kind) * e.amount
  BY <1>1 DEF Effect
<1> QED
  BY <1>1, <1>2, <1>3 DEF DueEntry

LEMMA ReversalFacts ==
  ASSUME NEW k, NEW f \in Postings
  PROVE  LET e == Reversal(k, f)
         IN  /\ e.reverses = {f} /\ e.id = k /\ e.customer = f.customer
             /\ Effect(e) = -Effect(f) /\ Effect(e) \in Int
<1>1. PICK e : e = Reversal(k, f)
  OBVIOUS
<1>2. /\ e.reverses = {f} /\ e.id = k /\ e.customer = f.customer /\ e.amount = f.amount
      /\ e.reverses # {}
  BY <1>1 DEF Reversal
<1>3. (CHOOSE g \in {f} : TRUE) = f
  OBVIOUS
<1>4. Effect(e) = -Sign(f.kind) * f.amount
  BY <1>2, <1>3 DEF Effect
<1>5. Sign(f.kind) \in {1, -1}
  BY DEF Sign
<1>6. Effect(e) = -Effect(f) /\ Effect(e) \in Int
  BY <1>4, <1>5, PostingFacts
<1> QED
  BY <1>1, <1>2, <1>6

LEMMA EffectIsInt == \A e \in DueEntry : Effect(e) \in Int
  BY PostingFacts, ReversalFacts DEF DueEntry

LEMMA OwedIsTotal ==
  ASSUME NEW M \in SUBSET DueEntry, IsFiniteSet(M)
  PROVE  Weighs(EffectOf, M) /\ OwedOver(M) = Total(EffectOf, M)
<1> DEFINE Sums(g) == g = [s \in SUBSET M |-> IF s = {} THEN 0 ELSE Effect(Picked(s)) + g[s \ {Picked(s)}]]
<1>1. OwedOver(M) = (CHOOSE g : Sums(g))[M]
  BY DEF OwedOver, MapThenSumSet, MapThenFoldSet, Picked
<1>2. PICK h : Adds(h, EffectOf, M)
  BY AddsExists
<1>3. \A s \in SUBSET M : s # {} => EffectOf[Picked(s)] = Effect(Picked(s))
  BY PickedIsIn DEF EffectOf
<1>4. Sums(h)
  BY <1>2, <1>3 DEF Adds
<1>5. PICK g : Sums(g) /\ OwedOver(M) = g[M]
  BY <1>1, <1>4
<1>6. Adds(g, EffectOf, M)
  BY <1>3, <1>5 DEF Adds
<1>7. Weighs(EffectOf, M)
  BY EffectIsInt DEF Weighs, EffectOf
<1> QED
  BY <1>5, <1>6, <1>7, TotalIs

(* What a new entry does to what its customer, and nobody else, owes.       *)
LEMMA OwedAfter ==
  ASSUME EntriesInv, NEW e \in DueEntry, e \notin dues, dues' = dues \cup {e}
  PROVE  /\ \A c \in Customers : OwedOver(EntriesOf(c)) \in Int
         /\ \A c \in Customers :
              OwedOver(EntriesOf(c)') = OwedOver(EntriesOf(c)) + (IF c = e.customer THEN Effect(e) ELSE 0)
<1> SUFFICES ASSUME NEW c \in Customers
             PROVE  /\ OwedOver(EntriesOf(c)) \in Int
                    /\ OwedOver(EntriesOf(c)') = OwedOver(EntriesOf(c)) + (IF c = e.customer THEN Effect(e) ELSE 0)
  OBVIOUS
<1>1. PICK M \in SUBSET DueEntry : M = EntriesOf(c)
  BY DEF EntriesOf, EntriesInv
<1>2. IsFiniteSet(M) /\ e \notin M
  <2>1. M \subseteq dues /\ IsFiniteSet(dues)
    BY <1>1 DEF EntriesOf, EntriesInv
  <2> QED
    BY <2>1, FS_Subset
<1>3. Weighs(EffectOf, M) /\ OwedOver(M) = Total(EffectOf, M) /\ Total(EffectOf, M) \in Int
  BY <1>2, OwedIsTotal, TotalTakes
<1>4. CASE c # e.customer
  <2>1. EntriesOf(c)' = M
    BY <1>1, <1>4 DEF EntriesOf
  <2> QED
    BY <1>1, <1>3, <1>4, <2>1
<1>5. CASE c = e.customer
  <2>1. PICK N \in SUBSET DueEntry : N = M \cup {e} /\ N = EntriesOf(c)'
    <3>1. EntriesOf(c)' = M \cup {e}
      BY <1>1, <1>5 DEF EntriesOf
    <3> QED
      BY <3>1
  <2>2. EffectOf[e] = Effect(e) /\ EffectOf[e] \in Int
    BY EffectIsInt DEF EffectOf
  <2>3. Weighs(EffectOf, M \cup {e}) /\ Total(EffectOf, M \cup {e}) = EffectOf[e] + Total(EffectOf, M)
    BY <1>2, <1>3, <2>2, TotalAdds
  <2>4. IsFiniteSet(N) /\ OwedOver(N) = Total(EffectOf, N)
    BY <2>1, <2>3, OwedIsTotal DEF Weighs
  <2>5. OwedOver(N) = OwedOver(M) + Effect(e)
    BY <1>3, <2>1, <2>2, <2>3, <2>4
  <2> QED
    BY <1>1, <1>3, <1>5, <2>1, <2>5
<1> QED
  BY <1>4, <1>5

LEMMA DuesBegin == DuesInit => DuesInv
<1> SUFFICES ASSUME DuesInit PROVE DuesInv
  OBVIOUS
<1>1. EntriesInv
  <2>1. LegacyDues \subseteq Postings /\ IsFiniteSet(LegacyDues)
    BY DuesAssumption DEF Postings
  <2>2. \A e, f \in LegacyDues : e.id = f.id => e = f
    BY DuesAssumption
  <2> QED
    BY <2>1, <2>2, PostingFacts DEF DuesInit, EntriesInv
<1>2. \A t \in Txns : dueTxn[t] = NotInTxn
  BY DEF DuesInit, AllIdle
<1>3. NotInTxn \in DueSession /\ NotInTxn.held = {} /\ Relies(NotInTxn)
  BY DEF NotInTxn, DueSession, Relies
<1>4. dueTxn \in [Txns -> DueSession]
  BY <1>3 DEF DuesInit, AllIdle
<1> QED
  BY <1>1, <1>2, <1>3, <1>4 DEF DuesInv

LEMMA DueSteps ==
  ASSUME DuesInv, NEW t \in Txns, NEW next \in DueSession, dueTxn' = [dueTxn EXCEPT ![t] = next],
         EntriesInv', Relies(next)',
         \A u \in Txns \ {t} : next.held \cap dueTxn[u].held = {},
         \A u \in Txns \ {t} : \A s \in DueSession : s = dueTxn[u] /\ Relies(s) => Relies(s)'
  PROVE  DuesInv'
<1>1. /\ \A u \in Txns : dueTxn'[u] = IF u = t THEN next ELSE dueTxn[u]
      /\ dueTxn' \in [Txns -> DueSession]
  BY DEF DuesInv
<1>2. \A u, w \in Txns : u # w => dueTxn'[u].held \cap dueTxn'[w].held = {}
  <2> SUFFICES ASSUME NEW u \in Txns, NEW w \in Txns, u # w PROVE dueTxn'[u].held \cap dueTxn'[w].held = {}
    OBVIOUS
  <2>1. dueTxn[u].held \cap dueTxn[w].held = {}
    BY DEF DuesInv
  <2> QED
    BY <1>1, <2>1
<1>3. ASSUME NEW u \in Txns PROVE Relies(dueTxn[u])'
  <2>1. PICK s \in DueSession : s = dueTxn'[u] /\ (u = t => s = next) /\ (u # t => s = dueTxn[u])
    BY <1>1
  <2>2. Relies(s)'
    <3>1. CASE u = t
      BY <2>1, <3>1
    <3>2. CASE u # t
      <4>1. Relies(dueTxn[u])
        BY DEF DuesInv
      <4>2. Relies(s)
        BY <2>1, <3>2, <4>1
      <4> QED
        BY <2>1, <3>2, <4>2
    <3> QED
      BY <3>1, <3>2
  <2> QED
    BY <2>1, <2>2
<1> QED
  BY <1>1, <1>2, <1>3 DEF DuesInv

(* While no entry is written, what is relied on stays.                      *)
LEMMA ReliesStill ==
  ASSUME dues' = dues
  PROVE  \A s : Relies(s) <=> Relies(s)'
<1>1. \A c : EntriesOf(c)' = EntriesOf(c)
  BY DEF EntriesOf
<1> QED
  BY <1>1 DEF Relies, StillFree, StillStands, StillOwed, UnusedDueKey, Reversed

LEMMA EntryFacts ==
  \A e \in DueEntry : /\ e.customer \in Customers
                      /\ e.reverses = {} => e \in Postings
<1> SUFFICES ASSUME NEW e \in DueEntry PROVE e.customer \in Customers /\ (e.reverses = {} => e \in Postings)
  OBVIOUS
<1>1. CASE e \in Postings
  BY <1>1, PostingFacts
<1>2. ASSUME NEW k \in Keys, NEW f \in Postings, e = Reversal(k, f)
      PROVE  e.customer \in Customers /\ (e.reverses = {} => e \in Postings)
  <2>1. e.reverses = {f} /\ e.customer = f.customer
    BY <1>2, ReversalFacts
  <2> QED
    BY <2>1, PostingFacts
<1> QED
  BY <1>1, <1>2 DEF DueEntry

LEMMA LocksOfDues ==
  ASSUME NEW c \in DueCmd
  PROVE  /\ c.op \in {"post", "reverse"} /\ c.op # "idle" /\ c.key \in Keys
         /\ c.op = "post" => /\ DueLocks(c) = {DueKey(c.key), DueCustomer(c.customer)}
                             /\ c \in PostCmd
         /\ c.op = "reverse" =>
              /\ DueLocks(c) = {DueKey(c.key), DueRow(c.target), DueCustomer(c.target.customer)}
              /\ c.target \in DueEntry /\ c.target.customer \in Customers
         /\ DueLocks(c) \subseteq DueLockables
<1>1. /\ c.op \in {"post", "reverse"} /\ c.op # "idle" /\ c.key \in Keys
      /\ c.op = "post" => c \in PostCmd /\ c.customer \in Customers
      /\ c.op = "reverse" => c.target \in DueEntry
  BY DEF DueCmd, PostCmd, ReverseDueCmd
<1>2. c.op = "post" => DueLocks(c) = {DueKey(c.key), DueCustomer(c.customer)}
  BY Zenon DEF DueLocks
<1>3. "post" # "reverse"
  OBVIOUS
<1>4. c.op = "reverse" => DueLocks(c) = {DueKey(c.key), DueRow(c.target), DueCustomer(c.target.customer)}
  BY <1>3, Zenon DEF DueLocks
<1>5. c.op = "reverse" => c.target.customer \in Customers
  BY <1>1, EntryFacts
<1>6. DueLocks(c) \subseteq DueLockables
  BY <1>1, <1>2, <1>4, <1>5 DEF DueLockables
<1> QED
  BY <1>1, <1>2, <1>4, <1>5, <1>6

LEMMA AllTaken ==
  ASSUME NEW t \in Txns, dueTxn[t].cmd \in DueCmd, DueWants(t) = {}
  PROVE  DueLocks(dueTxn[t].cmd) \subseteq dueTxn[t].held
<1>1. PICK c \in DueCmd : c = dueTxn[t].cmd
  OBVIOUS
<1>2. PICK missing : missing = DueLocks(c) \ dueTxn[t].held
  OBVIOUS
<1>3. \A l \in missing : \E m \in missing : ~(l[1] <= m[1])
  BY <1>1, <1>2 DEF DueWants
<1>4. \A l \in missing : l \in {<<1, c.key>>, <<2, c.target.id>>, <<3, c.customer>>, <<3, c.target.customer>>}
  BY <1>2, LocksOfDues DEF DueKey, DueRow, DueCustomer
<1>5. \A l \in missing : l[1] \in {1, 2, 3}
  BY <1>4
<1>6. \A l \in missing : l[1] # 1
  <2> SUFFICES ASSUME NEW l \in missing, l[1] = 1 PROVE FALSE
    OBVIOUS
  <2> QED
    BY <1>3, <1>5
<1>7. missing = {}
  <2> SUFFICES ASSUME NEW l \in missing PROVE FALSE
    OBVIOUS
  <2>1. PICK m \in missing : ~(l[1] <= m[1])
    BY <1>3
  <2>2. m[1] = 2 /\ l[1] = 3
    BY <1>5, <1>6, <2>1
  <2>3. PICK n \in missing : ~(m[1] <= n[1])
    BY <1>3
  <2> QED
    BY <1>5, <1>6, <2>2, <2>3
<1> QED
  BY <1>1, <1>2, <1>7

LEMMA Admission ==
  ASSUME NEW c \in DueCmd, NEW l, DueAdmits(c, l)
  PROVE  /\ l[1] = 1 => UnusedDueKey(c.key)
         /\ l[1] = 2 => c.target.reverses = {} /\ c.target.branch = c.branch
         /\ l[1] = 3 => IF c.op = "reverse" THEN ~Reversed(c.target)
                        ELSE c.kind = "payment" => c.amount <= Owed(c.customer)
<1>1. 1 # 2 /\ 1 # 3 /\ 2 # 3
  OBVIOUS
<1>2. l[1] = 1 => UnusedDueKey(c.key)
  BY <1>1, Zenon DEF DueAdmits
<1>3. l[1] = 2 => c.target.reverses = {} /\ c.target.branch = c.branch
  BY <1>1, Zenon DEF DueAdmits
<1>4. l[1] = 3 => (IF c.op = "reverse" THEN ~Reversed(c.target)
                   ELSE c.kind = "payment" => c.amount <= Owed(c.customer))
  BY <1>1, Zenon DEF DueAdmits
<1> QED
  BY <1>2, <1>3, <1>4

LEMMA DueBeginKeeps ==
  ASSUME DuesInv, NEW t \in Txns, NEW c \in DueCmd, c.op = "reverse" => c.target \in dues, DueBegin(t, c)
  PROVE  DuesInv'
<1>1. PICK next : next = [cmd |-> c, held |-> {}]
  OBVIOUS
<1>2. dueTxn' = [dueTxn EXCEPT ![t] = next] /\ dues' = dues
  BY <1>1 DEF DueBegin, Begun
<1>3. next \in DueSession /\ next.held = {} /\ next.cmd = c
  BY <1>1 DEF DueSession
<1>4. Relies(next)
  BY <1>3 DEF Relies, StillFree, StillStands, StillOwed
<1>5. EntriesInv'
  BY <1>2 DEF DuesInv, EntriesInv
<1> QED
  BY <1>2, <1>3, <1>4, <1>5, ReliesStill, DueSteps

LEMMA DueAbortKeeps ==
  ASSUME DuesInv, NEW t \in Txns, DueAbort(t)
  PROVE  DuesInv'
<1>1. PICK next : next = NotInTxn
  OBVIOUS
<1>2. dueTxn' = [dueTxn EXCEPT ![t] = next] /\ dues' = dues
  BY <1>1 DEF DueAbort, Ended
<1>3. next \in DueSession /\ next.held = {} /\ Relies(next)
  BY <1>1 DEF NotInTxn, DueSession, Relies
<1>4. EntriesInv'
  BY <1>2 DEF DuesInv, EntriesInv
<1> QED
  BY <1>2, <1>3, <1>4, ReliesStill, DueSteps

LEMMA DueLockKeeps ==
  ASSUME DuesInv, NEW t \in Txns, DueLock(t)
  PROVE  DuesInv'
<1>1. PICK l \in DueWants(t) :
        /\ Free(dueTxn, l) /\ DueAdmits(dueTxn[t].cmd, l) /\ dueTxn' = Locked(dueTxn, t, l) /\ dues' = dues
  BY DEF DueLock
<1>2. PICK c, h : c = dueTxn[t].cmd /\ h = dueTxn[t].held
  OBVIOUS
<1>3. l \in DueLocks(c) /\ c \in DueCmd \cup {[op |-> "idle"]} /\ h \in SUBSET DueLockables
  BY <1>1, <1>2 DEF DueWants, DuesInv, DueSession, NotInTxn
<1>4. c \in DueCmd
  <2>1. DueLocks([op |-> "idle"]) = {}
    <3>1. "idle" # "post" /\ "idle" # "reverse"
      OBVIOUS
    <3>2. PICK i : i = [op |-> "idle"]
      OBVIOUS
    <3>3. i.op # "post" /\ i.op # "reverse"
      BY <3>1, <3>2
    <3>4. DueLocks(i) = {}
      BY <3>3, Zenon DEF DueLocks
    <3> QED
      BY <3>2, <3>4
  <2> QED
    BY <1>3, <2>1
<1>5. PICK next : next = [cmd |-> c, held |-> h \cup {l}]
  OBVIOUS
<1>6. next \in DueSession /\ next.cmd = c /\ next.held = h \cup {l}
  BY <1>3, <1>4, <1>5, LocksOfDues DEF DueSession
<1>7. dueTxn' = [dueTxn EXCEPT ![t] = next]
  <2>1. dueTxn[t] = [cmd |-> c, held |-> h]
    BY <1>2 DEF DuesInv, DueSession, NotInTxn
  <2>2. [dueTxn[t] EXCEPT !.held = @ \cup {l}] = next
    BY <1>5, <2>1
  <2> QED
    BY <1>1, <2>2, Zenon DEF Locked
<1>8. \A u \in Txns \ {t} : next.held \cap dueTxn[u].held = {}
  BY <1>1, <1>2, <1>6 DEF Free, DuesInv
<1>9. EntriesInv'
  BY <1>1 DEF DuesInv, EntriesInv
<1>10. StillFree(c, h) /\ StillStands(c, h) /\ StillOwed(c, h)
  BY <1>2, <1>4, LocksOfDues DEF DuesInv, Relies
<1>11. /\ l[1] = 1 => UnusedDueKey(c.key)
       /\ l[1] = 2 => c.target.reverses = {}
       /\ l[1] = 3 => IF c.op = "reverse" THEN ~Reversed(c.target)
                      ELSE c.kind = "payment" => c.amount <= OwedOver(EntriesOf(c.customer))
  <2>1. DueAdmits(c, l)
    BY <1>1, <1>2
  <2>2. Owed(c.customer) = OwedOver(EntriesOf(c.customer))
    BY Zenon DEF Owed, OwedOver, EntriesOf
  <2> QED
    BY <1>4, <2>1, <2>2, Admission
<1>12. StillFree(c, h \cup {l})
  BY <1>10, <1>11 DEF StillFree, DueKey
<1>13. StillStands(c, h \cup {l})
  BY <1>10, <1>11 DEF StillStands, DueRow, DueCustomer
<1>14. StillOwed(c, h \cup {l})
  BY <1>10, <1>11 DEF StillOwed, DueCustomer
<1>15. Relies(next)
  BY <1>6, <1>12, <1>13, <1>14 DEF Relies
<1> QED
  BY <1>1, <1>6, <1>7, <1>8, <1>9, <1>15, ReliesStill, DueSteps

(* Who writes an entry holds its key and its customer, so nobody else does. *)
LEMMA EntryKeeps ==
  ASSUME DuesInv, NEW t \in Txns, NEW e \in DueEntry, e.id = dueTxn[t].cmd.key,
         DueKey(e.id) \in dueTxn[t].held, DueCustomer(e.customer) \in dueTxn[t].held,
         e.reverses \subseteq dues, UnusedDueKey(e.id),
         dues' = dues \cup {e}, dueTxn' = Ended(dueTxn, t)
  PROVE  DuesInv'
<1>1. EntriesInv'
  <2>1. dues' \in SUBSET DueEntry
    BY DEF DuesInv, EntriesInv
  <2>2. IsFiniteSet(dues')
    BY FS_AddElement DEF DuesInv, EntriesInv
  <2>3. \A f, g \in dues' : f.id = g.id => f = g
    BY DEF DuesInv, EntriesInv, UnusedDueKey
  <2>4. \A r \in dues' : r.reverses \subseteq dues'
    BY DEF DuesInv, EntriesInv
  <2> QED
    BY <2>1, <2>2, <2>3, <2>4 DEF EntriesInv
<1>2. PICK next : next = NotInTxn
  OBVIOUS
<1>3. dueTxn' = [dueTxn EXCEPT ![t] = next] /\ next \in DueSession /\ next.held = {} /\ next.cmd.op = "idle"
  BY <1>2 DEF Ended, NotInTxn, DueSession
<1>4. Relies(next)'
  BY <1>3 DEF Relies
<1>5. ASSUME NEW u \in Txns \ {t}, NEW s \in DueSession, s = dueTxn[u], Relies(s) PROVE Relies(s)'
  <2>1. /\ DueKey(e.id) \notin s.held
        /\ DueCustomer(e.customer) \notin s.held
    BY <1>5 DEF DuesInv
  <2>2. CASE s.cmd.op = "idle"
    BY <2>2 DEF Relies
  <2>3. CASE s.cmd.op # "idle"
    <3>1. PICK c \in DueCmd : c = s.cmd
      BY <2>3 DEF DueSession, NotInTxn
    <3>2. StillFree(c, s.held) /\ StillStands(c, s.held) /\ StillOwed(c, s.held)
      BY <1>5, <2>3, <3>1 DEF Relies
    <3>3. StillFree(c, s.held)'
      BY <2>1, <3>2 DEF StillFree, UnusedDueKey
    <3>4. StillStands(c, s.held)'
      <4>1. c.op = "reverse" /\ DueCustomer(c.target.customer) \in s.held => e.reverses # {c.target}
        <5> SUFFICES ASSUME c.op = "reverse", DueCustomer(c.target.customer) \in s.held, e.reverses = {c.target}
                     PROVE  FALSE
          OBVIOUS
        <5>1. c.target.customer = e.customer
          <6>1. PICK k \in Keys, f \in Postings : e = Reversal(k, f)
            BY PostingFacts DEF DueEntry
          <6>2. e.reverses = {f} /\ e.customer = f.customer
            BY <6>1, ReversalFacts
          <6> QED
            BY <6>2
        <5> QED
          BY <2>1, <5>1
      <4> QED
        BY <3>2, <4>1 DEF StillStands, Reversed
    <3>5. StillOwed(c, s.held)'
      <4> SUFFICES ASSUME c.op = "post", c.kind = "payment", DueCustomer(c.customer) \in s.held
                   PROVE  c.amount <= OwedOver(EntriesOf(c.customer)')
        BY DEF StillOwed
      <4>1. c.customer # e.customer
        BY <2>1
      <4>2. EntriesOf(c.customer)' = EntriesOf(c.customer)
        BY <4>1 DEF EntriesOf
      <4> QED
        BY <3>2, <4>2 DEF StillOwed
    <3> QED
      BY <3>1, <3>3, <3>4, <3>5 DEF Relies
  <2> QED
    BY <2>2, <2>3
<1> QED
  BY <1>1, <1>3, <1>4, <1>5, DueSteps

(* What a session that is ready to write knows.                             *)
LEMMA DueReadyKnows ==
  ASSUME DuesInv, NEW t \in Txns, DueReady(t, "post") \/ DueReady(t, "reverse")
  PROVE  LET c == dueTxn[t].cmd IN
         /\ c \in DueCmd /\ DueLocks(c) \subseteq dueTxn[t].held
         /\ UnusedDueKey(c.key)
         /\ c.op = "reverse" => c.target \in dues /\ c.target.reverses = {} /\ ~Reversed(c.target)
         /\ c.op = "post" /\ c.kind = "payment" => c.amount <= OwedOver(EntriesOf(c.customer))
<1>1. PICK c, h : c = dueTxn[t].cmd /\ h = dueTxn[t].held
  OBVIOUS
<1>2. c \in DueCmd /\ DueWants(t) = {} /\ c.op # "idle"
  BY <1>1 DEF DuesInv, DueSession, DueReady, NotInTxn
<1>3. DueLocks(c) \subseteq h
  BY <1>1, <1>2, AllTaken
<1>4. StillFree(c, h) /\ StillStands(c, h) /\ StillOwed(c, h)
  BY <1>1, <1>2 DEF DuesInv, Relies
<1>5. DueKey(c.key) \in h
  BY <1>2, <1>3, LocksOfDues
<1>6. c.op = "reverse" => DueRow(c.target) \in h /\ DueCustomer(c.target.customer) \in h
  BY <1>2, <1>3, LocksOfDues
<1>7. c.op = "post" => DueCustomer(c.customer) \in h
  BY <1>2, <1>3, LocksOfDues
<1> QED
  BY <1>1, <1>2, <1>3, <1>4, <1>5, <1>6, <1>7 DEF StillFree, StillStands, StillOwed

(* The entries two commands write.                                          *)
LEMMA Posted ==
  ASSUME DuesInv, NEW t \in Txns, PostCommit(t)
  PROVE  LET c == dueTxn[t].cmd
             e == Posting(c.key, c)
         IN  /\ e \in Postings /\ e \in DueEntry /\ e.id = c.key /\ e.customer = c.customer /\ e.reverses = {}
             /\ e.kind = c.kind /\ e.amount = c.amount
             /\ UnusedDueKey(e.id) /\ c.key \in Keys
             /\ c.kind = "payment" => c.amount <= OwedOver(EntriesOf(c.customer))
             /\ DueKey(e.id) \in dueTxn[t].held /\ DueCustomer(e.customer) \in dueTxn[t].held
             /\ dues' = dues \cup {e} /\ dueTxn' = Ended(dueTxn, t)
<1>1. PICK c : c = dueTxn[t].cmd
  OBVIOUS
<1>2. DueReady(t, "post") /\ c.op = "post" /\ dues' = dues \cup {Posting(c.key, c)} /\ dueTxn' = Ended(dueTxn, t)
  BY <1>1 DEF PostCommit, DueReady
<1>3. /\ c \in DueCmd /\ DueLocks(c) \subseteq dueTxn[t].held /\ UnusedDueKey(c.key)
      /\ c.kind = "payment" => c.amount <= OwedOver(EntriesOf(c.customer))
  BY <1>1, <1>2, DueReadyKnows
<1>4. c \in PostCmd /\ DueLocks(c) = {DueKey(c.key), DueCustomer(c.customer)} /\ c.key \in Keys
  BY <1>2, <1>3, LocksOfDues
<1>5. PICK e : e = Posting(c.key, c)
  OBVIOUS
<1>6. /\ e.id = c.key /\ e.customer = c.customer /\ e.reverses = {} /\ e.kind = c.kind /\ e.amount = c.amount
  BY <1>5 DEF Posting
<1>7. e \in Postings
  BY <1>4, <1>5 DEF Postings
<1> QED
  BY <1>1, <1>2, <1>3, <1>4, <1>5, <1>6, <1>7, PostingFacts

LEMMA CancelledBy ==
  ASSUME DuesInv, NEW t \in Txns, ReverseCommit(t)
  PROVE  LET c == dueTxn[t].cmd
             e == Reversal(c.key, c.target)
         IN  /\ c.target \in Postings /\ c.target \in dues /\ c.target.reverses = {} /\ ~Reversed(c.target)
             /\ e \in DueEntry /\ e.id = c.key /\ e.customer = c.target.customer /\ e.reverses = {c.target}
             /\ UnusedDueKey(e.id) /\ c.key \in Keys
             /\ DueKey(e.id) \in dueTxn[t].held /\ DueCustomer(e.customer) \in dueTxn[t].held
             /\ dues' = dues \cup {e} /\ dueTxn' = Ended(dueTxn, t)
<1>1. PICK c : c = dueTxn[t].cmd
  OBVIOUS
<1>2. DueReady(t, "reverse") /\ c.op = "reverse" /\ dues' = dues \cup {Reversal(c.key, c.target)} /\ dueTxn' = Ended(dueTxn, t)
  BY <1>1 DEF ReverseCommit, DueReady
<1>3. /\ c \in DueCmd /\ DueLocks(c) \subseteq dueTxn[t].held /\ UnusedDueKey(c.key)
      /\ c.target \in dues /\ c.target.reverses = {} /\ ~Reversed(c.target)
  BY <1>1, <1>2, DueReadyKnows
<1>4. /\ DueLocks(c) = {DueKey(c.key), DueRow(c.target), DueCustomer(c.target.customer)} /\ c.key \in Keys
      /\ c.target \in Postings
  BY <1>2, <1>3, LocksOfDues, EntryFacts
<1>5. PICK e : e = Reversal(c.key, c.target)
  OBVIOUS
<1>6. e.reverses = {c.target} /\ e.id = c.key /\ e.customer = c.target.customer
  BY <1>4, <1>5, ReversalFacts
<1>7. e \in DueEntry
  BY <1>4, <1>5 DEF DueEntry
<1> QED
  BY <1>1, <1>2, <1>3, <1>4, <1>5, <1>6, <1>7

LEMMA DuesStep == DuesInv /\ [DuesNext]_duesVars => DuesInv'
<1> SUFFICES ASSUME DuesInv, [DuesNext]_duesVars PROVE DuesInv'
  OBVIOUS
<1>1. CASE UNCHANGED duesVars
  <2>1. EntriesInv'
    BY <1>1 DEF duesVars, DuesInv, EntriesInv
  <2>2. \A s : Relies(s) <=> Relies(s)'
    BY <1>1, ReliesStill DEF duesVars
  <2>3. ASSUME NEW u \in Txns PROVE Relies(dueTxn[u])'
    <3>1. PICK s : s = dueTxn[u] /\ s = dueTxn'[u]
      BY <1>1 DEF duesVars
    <3>2. Relies(s)
      BY <3>1 DEF DuesInv
    <3> QED
      BY <2>2, <3>1, <3>2
  <2> QED
    BY <1>1, <2>1, <2>3 DEF duesVars, DuesInv
<1>2. ASSUME NEW t \in Txns, NEW c \in PostCmd, DueBegin(t, c) PROVE DuesInv'
  <2>1. c \in DueCmd /\ c.op # "reverse"
    BY DEF DueCmd, PostCmd
  <2> QED
    BY <1>2, <2>1, DueBeginKeeps
<1>3. ASSUME NEW t \in Txns, NEW k \in Keys, NEW b \in Branches, NEW e \in dues,
             DueBegin(t, [op |-> "reverse", key |-> k, branch |-> b, target |-> e])
      PROVE  DuesInv'
  <2>1. PICK c : c = [op |-> "reverse", key |-> k, branch |-> b, target |-> e]
    OBVIOUS
  <2>2. c \in DueCmd /\ c.target \in dues
    BY <2>1 DEF DueCmd, ReverseDueCmd, DuesInv, EntriesInv
  <2>3. DueBegin(t, c)
    BY <1>3, <2>1
  <2> QED
    BY <2>2, <2>3, DueBeginKeeps
<1>4. ASSUME NEW t \in Txns, PostCommit(t) PROVE DuesInv'
  <2>1. PICK e : e = Posting(dueTxn[t].cmd.key, dueTxn[t].cmd)
    OBVIOUS
  <2>2. /\ e \in DueEntry /\ e.id = dueTxn[t].cmd.key /\ e.reverses \subseteq dues /\ UnusedDueKey(e.id)
        /\ DueKey(e.id) \in dueTxn[t].held /\ DueCustomer(e.customer) \in dueTxn[t].held
        /\ dues' = dues \cup {e} /\ dueTxn' = Ended(dueTxn, t)
    BY <1>4, <2>1, Posted
  <2> QED
    BY <2>2, EntryKeeps
<1>5. ASSUME NEW t \in Txns, ReverseCommit(t) PROVE DuesInv'
  <2>1. PICK e : e = Reversal(dueTxn[t].cmd.key, dueTxn[t].cmd.target)
    OBVIOUS
  <2>2. /\ e \in DueEntry /\ e.id = dueTxn[t].cmd.key /\ e.reverses \subseteq dues /\ UnusedDueKey(e.id)
        /\ DueKey(e.id) \in dueTxn[t].held /\ DueCustomer(e.customer) \in dueTxn[t].held
        /\ dues' = dues \cup {e} /\ dueTxn' = Ended(dueTxn, t)
    BY <1>5, <2>1, CancelledBy
  <2> QED
    BY <2>2, EntryKeeps
<1> QED
  BY <1>1, <1>2, <1>3, <1>4, <1>5, DueLockKeeps, DueAbortKeeps DEF DuesNext

LEMMA DuesAlways == DuesSpec => []DuesInv
<1> QED
  BY DuesBegin, DuesStep, PTL DEF DuesSpec

LEMMA DuesPromises == DuesInv => DuesTypeOK /\ DueRetriesAgree
<1> SUFFICES ASSUME DuesInv PROVE DuesTypeOK /\ DueRetriesAgree
  OBVIOUS
<1>1. DueRetriesAgree
  BY DueReadyKnows DEF DueRetriesAgree
<1> QED
  BY <1>1 DEF DuesTypeOK, DuesInv, EntriesInv, DueSession, DueCmd, NotInTxn

-----------------------------------------------------------------------------
(* The abstract register: what each customer owes, which entries stand, and *)
(* which ids are used.                                                      *)

Standing == {f \in dues : f.reverses = {} /\ ~Reversed(f)}
AbstractOwed == [c \in Customers |-> OwedOver(EntriesOf(c))]

LEMMA AbstractRows ==
  /\ [c \in Customers |-> Owed(c)] = AbstractOwed
  /\ [c \in Customers |-> Owed(c)]' = AbstractOwed'
<1>1. \A c : Owed(c) = OwedOver(EntriesOf(c))
  BY Zenon DEF Owed, OwedOver, EntriesOf
<1>2. \A c : Owed(c)' = OwedOver(EntriesOf(c))'
  BY Zenon DEF Owed, OwedOver, EntriesOf
<1> QED
  BY <1>1, <1>2 DEF AbstractOwed

LEMMA BookedFacts ==
  \A e : /\ Booked(e).id = e.id /\ Booked(e).customer = e.customer /\ Booked(e).effect = Effect(e)
         /\ Booked(e).payment = (e.kind = "payment")
  BY DEF Booked

LEMMA RegisterBegins == DuesInit => Register!Init
<1> SUFFICES ASSUME DuesInit PROVE Register!Init
  OBVIOUS
<1>1. DuesInv /\ dues = LegacyDues /\ dues \subseteq Postings
  BY DuesBegin DEF DuesInit, Postings
<1>2. \A c \in Customers : OwedOver(EntriesOf(c)) \in Int
  <2> SUFFICES ASSUME NEW c \in Customers PROVE OwedOver(EntriesOf(c)) \in Int
    OBVIOUS
  <2>1. PICK M \in SUBSET DueEntry : M = EntriesOf(c)
    BY <1>1 DEF EntriesOf, DuesInv, EntriesInv
  <2>2. IsFiniteSet(M)
    <3>1. M \subseteq dues /\ IsFiniteSet(dues)
      BY <1>1, <2>1 DEF EntriesOf, DuesInv, EntriesInv
    <3> QED
      BY <3>1, FS_Subset
  <2> QED
    BY <2>1, <2>2, OwedIsTotal, TotalTakes
<1>3. [c \in Customers |-> Owed(c)] \in [Customers -> Int]
  BY <1>2, AbstractRows DEF AbstractOwed
<1>4. Standing = dues
  BY <1>1, PostingFacts DEF Standing, Reversed
<1>5. {Booked(e) : e \in Standing} \in SUBSET {Booked(e) : e \in Postings}
  BY <1>1, <1>4
<1>6. {e.id : e \in dues} = {e.id : e \in {Booked(f) : f \in Standing}}
  BY <1>4, BookedFacts
<1> QED
  BY <1>3, <1>5, <1>6 DEF Register!Init, Standing

LEMMA RegisterPosts ==
  ASSUME DuesInv, DuesInv', NEW t \in Txns, PostCommit(t)
  PROVE  Register!Next
<1>1. PICK c, e : c = dueTxn[t].cmd /\ e = Posting(c.key, c)
  OBVIOUS
<1>2. /\ e \in Postings /\ e \in DueEntry /\ e.id = c.key /\ e.customer = c.customer /\ e.reverses = {}
      /\ e.kind = c.kind /\ e.amount = c.amount
      /\ UnusedDueKey(e.id) /\ c.key \in Keys
      /\ c.kind = "payment" => c.amount <= OwedOver(EntriesOf(c.customer))
      /\ dues' = dues \cup {e}
  BY <1>1, Posted
<1>3. e \notin dues /\ EntriesInv
  BY <1>2 DEF UnusedDueKey, DuesInv
<1>4. /\ \A d \in Customers : OwedOver(EntriesOf(d)) \in Int
      /\ \A d \in Customers :
           OwedOver(EntriesOf(d)') = OwedOver(EntriesOf(d)) + (IF d = e.customer THEN Effect(e) ELSE 0)
  BY <1>2, <1>3, OwedAfter
<1>5. e.customer \in Customers /\ Effect(e) \in Int /\ (e.kind = "payment" => Effect(e) = -e.amount) /\ e.amount \in Nat
  BY <1>2, PostingFacts
<1>6. PICK b : b = Booked(e)
  OBVIOUS
<1>7. b.id = e.id /\ b.customer = e.customer /\ b.effect = Effect(e) /\ b.payment = (e.kind = "payment")
  BY <1>6, BookedFacts
<1>8. AbstractOwed' = [AbstractOwed EXCEPT ![b.customer] = @ + b.effect]
  BY <1>4, <1>5, <1>7 DEF AbstractOwed
<1>9. b.payment => AbstractOwed'[b.customer] >= 0
  <2> SUFFICES ASSUME e.kind = "payment" PROVE AbstractOwed'[e.customer] >= 0
    BY <1>7
  <2>1. AbstractOwed'[e.customer] = OwedOver(EntriesOf(e.customer)) + Effect(e)
    BY <1>4, <1>5 DEF AbstractOwed
  <2>2. e.amount <= OwedOver(EntriesOf(e.customer)) /\ OwedOver(EntriesOf(e.customer)) \in Int
    BY <1>2, <1>4, <1>5
  <2> QED
    BY <1>5, <2>1, <2>2
<1>10. Standing' = Standing \cup {e}
  <2>1. \A f \in dues : Reversed(f)' <=> Reversed(f)
    BY <1>2 DEF Reversed
  <2>2. ~Reversed(e)'
    <3> SUFFICES ASSUME NEW r \in dues', r.reverses = {e} PROVE FALSE
      BY DEF Reversed
    <3>1. r # e /\ r \in dues
      BY <1>2
    <3> QED
      BY <1>3, <3>1 DEF EntriesInv
  <2> QED
    BY <1>2, <2>1, <2>2 DEF Standing
<1>11. {Booked(f) : f \in Standing}' = {Booked(f) : f \in Standing} \cup {b}
  BY <1>6, <1>10
<1>12. {f.id : f \in dues}' = {f.id : f \in dues} \cup {c.key} /\ c.key \in Keys \ {f.id : f \in dues}
  BY <1>2 DEF UnusedDueKey
<1>13. b \in {Booked(f) : f \in Postings} /\ b.id = c.key
  BY <1>2, <1>6, <1>7
<1> QED
  BY <1>8, <1>9, <1>11, <1>12, <1>13, AbstractRows DEF Register!Next, Register!Post, Standing

LEMMA RegisterCancels ==
  ASSUME DuesInv, DuesInv', NEW t \in Txns, ReverseCommit(t)
  PROVE  Register!Next
<1>1. PICK c, e, f : c = dueTxn[t].cmd /\ f = c.target /\ e = Reversal(c.key, f)
  OBVIOUS
<1>2. /\ f \in Postings /\ f \in dues /\ f.reverses = {} /\ ~Reversed(f)
      /\ e \in DueEntry /\ e.id = c.key /\ e.customer = f.customer /\ e.reverses = {f}
      /\ UnusedDueKey(e.id) /\ c.key \in Keys /\ dues' = dues \cup {e}
  BY <1>1, CancelledBy
<1>3. e \notin dues /\ EntriesInv /\ Effect(e) = -Effect(f) /\ Effect(f) \in Int /\ f.customer \in Customers
  BY <1>1, <1>2, ReversalFacts, PostingFacts DEF UnusedDueKey, DuesInv
<1>4. /\ \A d \in Customers : OwedOver(EntriesOf(d)) \in Int
      /\ \A d \in Customers :
           OwedOver(EntriesOf(d)') = OwedOver(EntriesOf(d)) + (IF d = e.customer THEN Effect(e) ELSE 0)
  BY <1>2, <1>3, OwedAfter
<1>5. PICK b : b = Booked(f)
  OBVIOUS
<1>6. b.id = f.id /\ b.customer = f.customer /\ b.effect = Effect(f)
  BY <1>5, BookedFacts
<1>7. AbstractOwed' = [AbstractOwed EXCEPT ![b.customer] = @ - b.effect]
  BY <1>2, <1>3, <1>4, <1>6 DEF AbstractOwed
<1>8. f \in Standing /\ Standing' = Standing \ {f}
  <2>1. \A g \in dues : Reversed(g)' <=> Reversed(g) \/ g = f
    BY <1>2 DEF Reversed
  <2> QED
    BY <1>2, <2>1 DEF Standing
<1>9. \A g \in Standing : Booked(g) = b => g = f
  BY <1>2, <1>3, <1>6, BookedFacts DEF Standing, EntriesInv
<1>10. {Booked(g) : g \in Standing}' = {Booked(g) : g \in Standing} \ {b} /\ b \in {Booked(g) : g \in Standing}
  BY <1>5, <1>8, <1>9
<1>11. {g.id : g \in dues}' = {g.id : g \in dues} \cup {c.key} /\ c.key \in Keys \ {g.id : g \in dues}
  BY <1>2 DEF UnusedDueKey
<1> QED
  BY <1>7, <1>10, <1>11, AbstractRows DEF Register!Next, Register!Cancel, Standing

LEMMA RegisterSteps == DuesInv /\ DuesInv' /\ [DuesNext]_duesVars => [Register!Next]_(Register!vars)
<1> SUFFICES ASSUME DuesInv, DuesInv', [DuesNext]_duesVars PROVE [Register!Next]_(Register!vars)
  OBVIOUS
<1>1. CASE dues' = dues
  <2>1. AbstractOwed' = AbstractOwed /\ Standing' = Standing
    BY <1>1 DEF AbstractOwed, EntriesOf, Standing, Reversed
  <2> QED
    BY <1>1, <2>1, AbstractRows DEF Register!vars, Standing
<1>2. dues' = dues \/ \E t \in Txns : PostCommit(t) \/ ReverseCommit(t)
  BY DEF DuesNext, duesVars, DueBegin, DueLock, DueAbort
<1> QED
  BY <1>1, <1>2, RegisterPosts, RegisterCancels

(* Payments in several branches do not together exceed what is owed, an     *)
(* entry is cancelled once, and every id is used once: each step of the     *)
(* dues commands is one of the abstract register, or none of its business.  *)
THEOREM ImplementsRegister == DuesSpec => DuesLedgerSpec
<1>1. DuesInv /\ DuesInv' /\ [DuesNext]_duesVars => [Register!Next]_(Register!vars)
  BY RegisterSteps
<1> QED
  BY <1>1, DuesAlways, RegisterBegins, PTL DEF DuesSpec, DuesLedgerSpec, Register!Spec

-----------------------------------------------------------------------------
(* What is bought is in the catalogue, of which a release takes nothing     *)
(* away; so every part of a snapshot has a grant with all its columns.      *)

Sold(e) == e.plan \in DOMAIN catalogue.plans \cup {NoPlan} /\ DOMAIN e.addOns \subseteq DOMAIN catalogue.addOns

GrantsInv ==
  /\ \A p \in DOMAIN catalogue.plans : catalogue.plans[p] \in PlanGrant
  /\ \A a \in DOMAIN catalogue.addOns : a \in AddOns /\ catalogue.addOns[a] \in AddOnGrant
  /\ contract # NoContract => Sold(contract)
  /\ \A t \in Sessions : session[t].op = "edit" => Sold(session[t].edit)

LEMMA GrantsBegin == AccessInit => GrantsInv
<1> SUFFICES ASSUME AccessInit PROVE GrantsInv
  OBVIOUS
<1>1. catalogue \in Catalogues /\ contract = NoContract /\ \A t \in Sessions : session[t].op # "edit"
  BY DEF AccessInit, Resting
<1> QED
  BY <1>1, AccessAssumption DEF GrantsInv

LEMMA GrantsStill ==
  ASSUME GrantsInv, UNCHANGED <<catalogue, contract>>,
         \A t \in Sessions : session'[t].op = "edit" => Sold(session'[t].edit)
  PROVE  GrantsInv'
<1>1. \A e : Sold(e) <=> Sold(e)'
  BY DEF Sold
<1>2. ASSUME NEW t \in Sessions, session'[t].op = "edit" PROVE Sold(session[t].edit)'
  BY <1>1, <1>2 DEF Sold
<1> QED
  BY <1>1, <1>2 DEF GrantsInv

LEMMA GrantsStep == AccessInv /\ GrantsInv /\ [AccessNext]_accessVars => GrantsInv'
<1> SUFFICES ASSUME AccessInv, GrantsInv, [AccessNext]_accessVars PROVE GrantsInv'
  OBVIOUS
<1>1. CASE UNCHANGED <<catalogue, contract, session>>
  BY <1>1, GrantsStill DEF GrantsInv
<1>2. ASSUME NEW c \in Catalogues, Reconcile(c) PROVE GrantsInv'
  <2>1. /\ catalogue'.plans = Over(catalogue.plans, c.plans)
        /\ catalogue'.addOns = Over(catalogue.addOns, c.addOns)
        /\ contract' = contract /\ session' = session
    BY <1>2 DEF Reconcile
  <2>2. /\ DOMAIN catalogue'.plans = DOMAIN catalogue.plans \cup DOMAIN c.plans
        /\ DOMAIN catalogue'.addOns = DOMAIN catalogue.addOns \cup DOMAIN c.addOns
    BY <2>1 DEF Over
  <2>3. \A p \in DOMAIN catalogue'.plans : catalogue'.plans[p] \in PlanGrant
    BY <2>1, AccessAssumption DEF Over, GrantsInv
  <2>4. \A a \in DOMAIN catalogue'.addOns : a \in AddOns /\ catalogue'.addOns[a] \in AddOnGrant
    <3> SUFFICES ASSUME NEW a \in DOMAIN catalogue'.addOns PROVE a \in AddOns /\ catalogue'.addOns[a] \in AddOnGrant
      OBVIOUS
    <3>1. CASE a \in DOMAIN c.addOns
      <4>1. catalogue'.addOns[a] = c.addOns[a]
        BY <2>1, <3>1 DEF Over
      <4> QED
        BY <3>1, <4>1, AccessAssumption
    <3>2. CASE a \notin DOMAIN c.addOns
      <4>1. catalogue'.addOns[a] = catalogue.addOns[a] /\ a \in DOMAIN catalogue.addOns
        BY <2>1, <2>2, <3>2 DEF Over
      <4> QED
        BY <4>1 DEF GrantsInv
    <3> QED
      BY <3>1, <3>2
  <2>5. \A e : Sold(e) => Sold(e)'
    BY <2>2 DEF Sold
  <2>6. contract' # NoContract => Sold(contract)'
    BY <2>1, <2>2 DEF GrantsInv, Sold
  <2>7. \A t \in Sessions : session'[t].op = "edit" => Sold(session[t].edit)'
    BY <2>1, <2>2 DEF GrantsInv, Sold
  <2> QED
    BY <2>3, <2>4, <2>6, <2>7 DEF GrantsInv
<1>3. ASSUME NEW t \in Sessions, NEW next, session' = [session EXCEPT ![t] = next],
             UNCHANGED <<catalogue, contract>>, next.op = "edit" => Sold(next.edit)
      PROVE  GrantsInv'
  <2>1. \A u \in Sessions : session'[u] = IF u = t THEN next ELSE session[u]
    BY <1>3 DEF AccessInv, AccessRows
  <2> QED
    BY <1>3, <2>1, GrantsStill DEF GrantsInv
<1>4. ASSUME NEW t \in Sessions, EditBegin(t) PROVE GrantsInv'
  <2>1. PICK e \in ContractEdits :
          /\ e.plan \in OnSale.plans \cup {NoPlan} /\ DOMAIN e.addOns \subseteq OnSale.addOns
          /\ Becomes(t, [op |-> "edit", held |-> {}, edit |-> e, starts |-> StartOf(e)])
    BY <1>4 DEF EditBegin
  <2>2. PICK next : next = [op |-> "edit", held |-> {}, edit |-> e, starts |-> StartOf(e)]
    OBVIOUS
  <2>3. next.edit = e /\ Sold(e)
    BY <2>1, <2>2 DEF OnSale, Sold
  <2> QED
    BY <1>3, <1>4, <2>1, <2>2, <2>3 DEF EditBegin, Becomes, commercialRows
<1>5. ASSUME NEW t \in Sessions, EditLock(t) PROVE GrantsInv'
  <2>1. PICK s : s = session[t] /\ s.op = "edit" /\ IsEdit(s)
    BY <1>5, KindsOfSessions DEF EditLock
  <2>2. PICK next : next = [s EXCEPT !.held = {"contract"}]
    OBVIOUS
  <2>3. next.edit = s.edit
    BY <2>1, <2>2 DEF IsEdit
  <2>4. session' = [session EXCEPT ![t] = next] /\ UNCHANGED <<catalogue, contract>>
    BY <1>5, <2>1, <2>2 DEF EditLock, commercialRows
  <2> QED
    BY <1>3, <2>1, <2>3, <2>4 DEF GrantsInv
<1>6. ASSUME NEW t \in Sessions, EditCommit(t) PROVE GrantsInv'
  <2>1. PICK e : e = session[t].edit /\ Sold(e)
    BY <1>6 DEF EditCommit, GrantsInv
  <2>2. contract'.plan = e.plan /\ contract'.addOns = e.addOns /\ catalogue' = catalogue
    BY <1>6, <2>1 DEF EditCommit
  <2>3. Sold(contract)'
    BY <2>1, <2>2 DEF Sold
  <2>4. \A u \in Sessions : session'[u] = IF u = t THEN Resting ELSE session[u]
    BY <1>6 DEF EditCommit, Becomes, AccessInv, AccessRows
  <2>5. ASSUME NEW u \in Sessions, session'[u].op = "edit" PROVE Sold(session[u].edit)'
    <3>1. Resting.op # "edit"
      BY DEF Resting
    <3>2. session'[u] = session[u] /\ Sold(session[u].edit)
      BY <2>4, <2>5, <3>1 DEF GrantsInv
    <3> QED
      BY <2>2, <3>2 DEF Sold
  <2> QED
    BY <2>2, <2>3, <2>5 DEF GrantsInv
<1>7. ASSUME NEW t \in Sessions, TaskBegin(t) \/ TaskLock(t) \/ TaskRead(t) \/ TaskAdmitted(t) \/ SessionEnds(t)
      PROVE  GrantsInv'
  <2>1. PICK next : session' = [session EXCEPT ![t] = next] /\ next.op # "edit"
    <3>1. CASE TaskBegin(t)
      <4>1. PICK n : n = [op |-> "task", held |-> {}, had |-> 0, at |-> NoEnd, seen |-> NothingRead]
        OBVIOUS
      <4>2. n.op # "edit" /\ session' = [session EXCEPT ![t] = n]
        BY <3>1, <4>1 DEF TaskBegin, Becomes
      <4> QED
        BY <4>2
    <3>2. CASE SessionEnds(t)
      <4>1. PICK n : n = Resting
        OBVIOUS
      <4>2. n.op # "edit" /\ session' = [session EXCEPT ![t] = n]
        BY <3>2, <4>1 DEF SessionEnds, Becomes, Resting
      <4> QED
        BY <4>2
    <3>3. CASE TaskLock(t) \/ TaskRead(t) \/ TaskAdmitted(t)
      <4>1. PICK s : s = session[t] /\ s.op = "task" /\ IsTask(s)
        BY <3>3, KindsOfSessions DEF TaskLock, TaskRead, TaskAdmitted
      <4>2. \A h : [s EXCEPT !.held = h].op # "edit"
        BY <4>1 DEF IsTask
      <4>3. \A m : [s EXCEPT !.at = m].op # "edit"
        BY <4>1 DEF IsTask
      <4>4. \A p, x : [s EXCEPT !.had = @ + 1, !.seen[p] = x].op # "edit"
        BY <4>1 DEF IsTask
      <4>5. CASE TaskLock(t)
        BY <4>1, <4>2, <4>5 DEF TaskLock
      <4>6. CASE TaskRead(t)
        <5>1. PICK p, x : session' = [session EXCEPT ![t].had = @ + 1, ![t].seen[p] = x]
          BY <4>6 DEF TaskRead
        <5>2. session' = [session EXCEPT ![t] = [s EXCEPT !.had = @ + 1, !.seen[p] = x]]
          BY <4>1, <5>1
        <5> QED
          BY <4>4, <5>2
      <4>7. CASE TaskAdmitted(t)
        BY <4>1, <4>3, <4>7 DEF TaskAdmitted
      <4> QED
        BY <3>3, <4>5, <4>6, <4>7
    <3> QED
      BY <1>7, <3>1, <3>2, <3>3
  <2>2. UNCHANGED <<catalogue, contract>>
    BY <1>7 DEF TaskBegin, TaskLock, TaskRead, TaskAdmitted, SessionEnds, commercialRows
  <2> QED
    BY <1>3, <2>1, <2>2
<1> QED
  BY <1>1, <1>2, <1>4, <1>5, <1>6, <1>7 DEF AccessNext, accessVars, commercialRows, TimePasses, EditException

-----------------------------------------------------------------------------

(* A limit and a sum, by names of their own.                                *)
MoreOf(s, G) == MapThenSumSet(LAMBDA a : s.addOns[a].grant.add, G)
LimitFrom(base, more) == IF base = NoLimit /\ more = 0 THEN NoLimit ELSE Max({base, 0}) + more
BaseOf(s, G, plan) == Max({plan} \cup {s.addOns[a].grant.override : a \in G})

LEMMA LimitIs ==
  \A s, at : Limit(s, at) = LimitFrom(BaseOf(s, AddOnGrants(s, at), PlanLimit(s, at)), MoreOf(s, AddOnGrants(s, at)))
BY Zenon DEF Limit, LimitFrom, BaseOf, MoreOf, Overridden

LEMMA MoreIsTotal ==
  ASSUME NEW s, NEW G, IsFiniteSet(G), NEW f, \A a \in G : f[a] = s.addOns[a].grant.add
  PROVE  MoreOf(s, G) = Total(f, G)
<1> DEFINE Sums(g) == g = [r \in SUBSET G |-> IF r = {} THEN 0 ELSE s.addOns[Picked(r)].grant.add + g[r \ {Picked(r)}]]
<1>1. MoreOf(s, G) = (CHOOSE g : Sums(g))[G]
  BY DEF MoreOf, MapThenSumSet, MapThenFoldSet, Picked
<1>2. PICK h : Adds(h, f, G)
  BY AddsExists
<1>3. \A r \in SUBSET G : r # {} => f[Picked(r)] = s.addOns[Picked(r)].grant.add
  BY PickedIsIn
<1>4. Sums(h)
  BY <1>2, <1>3 DEF Adds
<1>5. PICK g : Sums(g) /\ MoreOf(s, G) = g[G]
  BY <1>1, <1>4
<1>6. Adds(g, f, G)
  BY <1>3, <1>5 DEF Adds
<1> QED
  BY <1>5, <1>6, TotalIs

(* Less to take the largest from, and less to add, give no higher limit.    *)
LEMMA LimitGrows ==
  ASSUME NEW b \in Int, NEW c \in Int, NEW m \in Nat, NEW n \in Nat, NoLimit <= b, b <= c, m <= n
  PROVE  LimitFrom(b, m) <= LimitFrom(c, n)
<1>1. ASSUME NEW d \in Int PROVE Max({d, 0}) = IF d > 0 THEN d ELSE 0
  <2>1. {d, 0} \in SUBSET Int /\ IsFiniteSet({d, 0}) /\ {d, 0} # {}
    <3>1. IsFiniteSet({d}) /\ {d, 0} = {d} \cup {0}
      BY FS_Singleton
    <3> QED
      BY <3>1, FS_AddElement
  <2>2. PICK x : x = Max({d, 0})
    OBVIOUS
  <2>3. x \in {d, 0} /\ d <= x /\ 0 <= x
    BY <2>1, <2>2, Largest
  <2> QED
    BY <2>2, <2>3
<1>2. PICK x, y : x = Max({b, 0}) /\ y = Max({c, 0})
  OBVIOUS
<1>3. x = (IF b > 0 THEN b ELSE 0) /\ y = (IF c > 0 THEN c ELSE 0)
  BY <1>1, <1>2
<1> QED
  BY <1>2, <1>3 DEF LimitFrom, NoLimit

(* What a snapshot says when it is taken.                                   *)
LEMMA SnapshotGrants ==
  ASSUME AccessInv, GrantsInv
  PROVE  /\ Snapshot = [modules |-> Snapshot.modules, subscription |-> Snapshot.subscription,
                        addOns |-> Snapshot.addOns, exceptions |-> Snapshot.exceptions]
         /\ IsFiniteSet(DOMAIN Snapshot.addOns)
         /\ \A a \in DOMAIN Snapshot.addOns : Snapshot.addOns[a].grant \in AddOnGrant
         /\ \A at : \A p \in PlanGrants(Snapshot, at) : p \in PlanGrant
<1>1. Snapshot = [modules |-> Snapshot.modules, subscription |-> Snapshot.subscription,
                  addOns |-> Snapshot.addOns, exceptions |-> Snapshot.exceptions]
  BY DEF Snapshot
<1>2. CASE contract = NoContract
  <2>1. Snapshot.addOns = <<>> /\ Snapshot.subscription = NoContract
    BY <1>2 DEF Snapshot
  <2>2. DOMAIN Snapshot.addOns = {} /\ \A at : PlanGrants(Snapshot, at) = {}
    BY <2>1 DEF PlanGrants, Effective
  <2> QED
    BY <1>1, <2>2, FS_EmptySet
<1>3. CASE contract # NoContract
  <2>1. Sold(contract)
    BY <1>3 DEF GrantsInv
  <2>2. /\ DOMAIN Snapshot.addOns = DOMAIN contract.addOns
        /\ \A a \in DOMAIN contract.addOns : Snapshot.addOns[a].grant = catalogue.addOns[a]
        /\ Snapshot.subscription.plan = (IF contract.plan = NoPlan THEN NoContract ELSE catalogue.plans[contract.plan])
    BY <1>3 DEF Snapshot
  <2>3. DOMAIN contract.addOns \subseteq AddOns /\ \A a \in DOMAIN contract.addOns : catalogue.addOns[a] \in AddOnGrant
    BY <2>1 DEF Sold, GrantsInv
  <2>4. IsFiniteSet(DOMAIN Snapshot.addOns)
    BY <2>2, <2>3, AccessAssumption, FS_Subset
  <2>5. ASSUME NEW at, NEW p \in PlanGrants(Snapshot, at) PROVE p \in PlanGrant
    <3>1. p = Snapshot.subscription.plan /\ Snapshot.subscription.plan # NoContract
      BY <2>5 DEF PlanGrants
    <3>2. contract.plan # NoPlan /\ p = catalogue.plans[contract.plan]
      BY <2>2, <3>1
    <3> QED
      BY <2>1, <3>2 DEF Sold, GrantsInv
  <2> QED
    BY <1>1, <2>2, <2>3, <2>4, <2>5
<1> QED
  BY <1>2, <1>3

LEMMA AddOnsHelp == AccessInv /\ GrantsInv => AddOnsOnlyAdd
<1> SUFFICES ASSUME AccessInv, GrantsInv, NEW a \in DOMAIN Snapshot.addOns, NEW at \in Moments
             PROVE  LET less == Without(Snapshot, a)
                    IN Enabled(less, at) \subseteq Enabled(Snapshot, at) /\ Limit(less, at) <= Limit(Snapshot, at)
  BY DEF AddOnsOnlyAdd
<1>1. PICK s, less : s = Snapshot /\ less = Without(s, a)
  OBVIOUS
<1>2. /\ s = [modules |-> s.modules, subscription |-> s.subscription, addOns |-> s.addOns, exceptions |-> s.exceptions]
      /\ IsFiniteSet(DOMAIN s.addOns) /\ a \in DOMAIN s.addOns
      /\ \A b \in DOMAIN s.addOns : s.addOns[b].grant \in AddOnGrant
      /\ \A p \in PlanGrants(s, at) : p \in PlanGrant
  BY <1>1, SnapshotGrants
<1>3. /\ less.modules = s.modules /\ less.subscription = s.subscription /\ less.exceptions = s.exceptions
      /\ DOMAIN less.addOns = DOMAIN s.addOns \ {a}
      /\ \A b \in DOMAIN s.addOns \ {a} : less.addOns[b] = s.addOns[b]
  BY <1>1, <1>2 DEF Without
<1>4. PICK G, H : G = AddOnGrants(s, at) /\ H = AddOnGrants(less, at)
  OBVIOUS
<1>5. Effective(less, at) <=> Effective(s, at)
  BY <1>3 DEF Effective
<1>6. H \subseteq G /\ G \subseteq DOMAIN s.addOns /\ \A b \in H : less.addOns[b] = s.addOns[b]
  BY <1>3, <1>4, <1>5 DEF AddOnGrants
<1>7. PlanGrants(less, at) = PlanGrants(s, at)
  BY <1>3, <1>5 DEF PlanGrants
<1>8. Enabled(less, at) \subseteq Enabled(s, at)
  <2>1. /\ Excepted(less, "grant", at) = Excepted(s, "grant", at)
        /\ Excepted(less, "revoke", at) = Excepted(s, "revoke", at)
    BY <1>3 DEF Excepted
  <2>2. UNION {less.addOns[b].grant.modules : b \in H} \subseteq UNION {s.addOns[b].grant.modules : b \in G}
    BY <1>6
  <2> QED
    BY <1>3, <1>4, <1>7, <2>1, <2>2 DEF Enabled
<1>9. IsFiniteSet(G) /\ IsFiniteSet(H)
  <2>1. IsFiniteSet(G)
    BY <1>2, <1>6, FS_Subset
  <2> QED
    BY <1>6, <2>1, FS_Subset
<1>10. \A b \in G : s.addOns[b].grant.add \in Nat /\ s.addOns[b].grant.override \in Nat \cup {NoLimit}
  BY <1>2, <1>6 DEF AddOnGrant
<1>11. MoreOf(less, H) \in Nat /\ MoreOf(s, G) \in Nat /\ MoreOf(less, H) <= MoreOf(s, G)
  <2>1. PICK f : f = [b \in G |-> s.addOns[b].grant.add]
    OBVIOUS
  <2>2. \A b \in G : f[b] = s.addOns[b].grant.add /\ f[b] \in Int /\ f[b] >= 0
    BY <1>10, <2>1
  <2>3. \A b \in H : f[b] = less.addOns[b].grant.add
    BY <1>6, <2>2
  <2>4. MoreOf(s, G) = Total(f, G) /\ MoreOf(less, H) = Total(f, H)
    BY <1>9, <2>2, <2>3, MoreIsTotal
  <2>5. Weighs(f, G) /\ H \in SUBSET G
    BY <1>6, <1>9, <2>2 DEF Weighs
  <2>6. /\ Weighs(f, H) /\ 0 <= Total(f, H) /\ Total(f, H) <= Total(f, G)
    BY <2>2, <2>5, TotalGrows
  <2>7. Total(f, G) \in Int /\ Total(f, H) \in Int
    BY <2>5, <2>6, TotalTakes
  <2> QED
    BY <2>4, <2>6, <2>7
<1>12. PICK plan \in Int : plan = PlanLimit(s, at) /\ plan = PlanLimit(less, at) /\ NoLimit <= plan
  <2>1. PICK P : P = {NoLimit} \cup {p.limit : p \in PlanGrants(s, at)}
    OBVIOUS
  <2>2. P \in SUBSET Int /\ P # {} /\ NoLimit \in P
    BY <1>2, <2>1 DEF PlanGrant, NoLimit
  <2>3. IsFiniteSet(P)
    <3>1. PlanGrants(s, at) = {} \/ PlanGrants(s, at) = {s.subscription.plan}
      BY DEF PlanGrants
    <3>2. P = {NoLimit} \/ P = {NoLimit} \cup {s.subscription.plan.limit}
      BY <2>1, <3>1
    <3>3. IsFiniteSet({NoLimit})
      BY FS_Singleton
    <3>4. IsFiniteSet({NoLimit} \cup {s.subscription.plan.limit})
      BY <3>3, FS_AddElement
    <3> QED
      BY <3>2, <3>3, <3>4
  <2>4. Max(P) \in P /\ NoLimit <= Max(P)
    BY <2>2, <2>3, Largest
  <2>5. Max(P) \in Int /\ Max(P) = PlanLimit(s, at) /\ Max(P) = PlanLimit(less, at)
    BY <1>7, <2>1, <2>2, <2>4 DEF PlanLimit
  <2> QED
    BY <2>4, <2>5
<1>13. /\ BaseOf(less, H, plan) \in Int /\ BaseOf(s, G, plan) \in Int
       /\ NoLimit <= BaseOf(less, H, plan) /\ BaseOf(less, H, plan) <= BaseOf(s, G, plan)
  <2>1. PICK O, L : /\ O = {plan} \cup {s.addOns[b].grant.override : b \in G}
                    /\ L = {plan} \cup {less.addOns[b].grant.override : b \in H}
    OBVIOUS
  <2>2. O \in SUBSET Int /\ L \subseteq O /\ plan \in L
    BY <1>6, <1>10, <2>1 DEF NoLimit
  <2>3. IsFiniteSet(O) /\ IsFiniteSet(L)
    <3>1. IsFiniteSet({s.addOns[b].grant.override : b \in G})
      <4>1. PICK f : f = [b \in G |-> s.addOns[b].grant.override]
        OBVIOUS
      <4>2. {f[b] : b \in G} = {s.addOns[b].grant.override : b \in G}
        BY <4>1
      <4> QED
        BY <1>9, <4>2, ImageIsFinite
    <3>2. IsFiniteSet(O)
      BY <2>1, <3>1, FS_Singleton, FS_Union
    <3> QED
      BY <2>2, <3>2, FS_Subset
  <2>4. Max(O) \in O /\ Max(L) \in L /\ (\A x \in O : x <= Max(O)) /\ (\A x \in L : x <= Max(L))
    <3>1. O # {} /\ L # {} /\ L \in SUBSET Int
      BY <2>2
    <3> QED
      BY <2>2, <2>3, <3>1, Largest
  <2>5. BaseOf(s, G, plan) = Max(O) /\ BaseOf(less, H, plan) = Max(L)
    BY <2>1 DEF BaseOf
  <2>6. Max(O) \in Int /\ Max(L) \in Int /\ Max(L) <= Max(O) /\ plan <= Max(L)
    BY <2>2, <2>4
  <2> QED
    BY <1>12, <2>5, <2>6 DEF NoLimit
<1>14. LimitFrom(BaseOf(less, H, plan), MoreOf(less, H)) <= LimitFrom(BaseOf(s, G, plan), MoreOf(s, G))
  BY <1>11, <1>13, LimitGrows
<1>15. /\ Limit(less, at) = LimitFrom(BaseOf(less, H, plan), MoreOf(less, H))
       /\ Limit(s, at) = LimitFrom(BaseOf(s, G, plan), MoreOf(s, G))
  BY <1>4, <1>12, LimitIs
<1> QED
  BY <1>1, <1>8, <1>14, <1>15

(* Whatever plan and add-ons it is bought with, an add-on takes nothing     *)
(* away.                                                                    *)
THEOREM AddOnsAdd == AccessSpec => []AddOnsOnlyAdd
  BY AccessBegins, AccessStep, GrantsBegin, GrantsStep, AddOnsHelp, PTL DEF AccessSpec

-----------------------------------------------------------------------------
(* The registers, the administration, the fields and the contracts of one  *)
(* organization together.  They share no rows, so a step is a step of one   *)
(* of them and leaves the others as they were.                              *)

LEMMA RecordsSteps ==
  ASSUME [RecordsNext]_<<duesVars, attendanceVars, orgVars, fieldVars, accessVars>>
  PROVE  /\ [DuesNext]_duesVars /\ [AttendanceNext]_attendanceVars /\ [OrganizationNext]_orgVars
         /\ [FieldsNext]_fieldVars /\ [AccessNext]_accessVars
<1>1. CASE UNCHANGED <<duesVars, attendanceVars, orgVars, fieldVars, accessVars>>
  BY <1>1
<1>2. CASE RecordsNext
  BY <1>2 DEF RecordsNext, DuesRest, AttendanceRests, OrganizationRests, FieldsRest, AccessRests
<1> QED
  BY <1>1, <1>2

LEMMA RecordsBehave ==
  RecordsSpec => DuesSpec /\ AttendanceSpec /\ OrganizationSpec /\ FieldsSpec /\ AccessSpec
<1>1. RecordsInit => DuesInit /\ AttendanceInit /\ OrganizationInit /\ FieldsInit /\ AccessInit
  BY DEF RecordsInit
<1> QED
  BY <1>1, RecordsSteps, PTL DEF RecordsSpec, DuesSpec, AttendanceSpec, OrganizationSpec, FieldsSpec, AccessSpec

(* What each component keeps at every moment: its rows are what its tables  *)
(* allow, a key posts and marks once, the history of corrections leads to   *)
(* what a record says, nobody has an archived role, a required field is     *)
(* shown, and an add-on takes nothing away.                                 *)
THEOREM RecordsKept == RecordsSpec => []RecordsInv
<1>1. /\ DuesInv => DuesTypeOK /\ DueRetriesAgree
      /\ AttendanceInv => AttendanceTypeOK /\ HistoryIsComplete /\ KeyMarksOnce
      /\ OrganizationInv => OrganizationTypeOK
  BY DuesPromises DEF AttendanceInv, OrganizationInv
<1>2. (/\ DuesTypeOK /\ DueRetriesAgree /\ AttendanceTypeOK /\ HistoryIsComplete /\ KeyMarksOnce
       /\ OrganizationTypeOK /\ ArchivedRolesUnused /\ FieldsTypeOK /\ RequiredAreShown
       /\ AccessTypeOK /\ AddOnsOnlyAdd) => RecordsInv
  BY DEF RecordsInv
<1> QED
  BY <1>1, <1>2, RecordsBehave, DuesAlways, AttendanceAlways, OrganizationAlways, ArchivedUnused, Readable,
     Answerable, ContractsLast, AddOnsAdd, PTL
=============================================================================
