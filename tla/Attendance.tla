------------------------------ MODULE Attendance ------------------------------
(***************************************************************************)
(* Attendance: one record per member and day, owned by the branch that     *)
(* marked it first, corrected only by clients that name the version they   *)
(* have read, with an append-only history of corrections.                  *)
(***************************************************************************)
EXTENDS Commands, Tenant

CONSTANTS
  Members, Days,
  Facts,              \* status with check-in and check-out, as one value
  MaxRecordVersion    \* a record is written this many times at most

ASSUME AttendanceAssumption == MaxRecordVersion \in Nat \ {0}

Subjects == Members \X Days
NoMark == [version |-> 0]
MarkRow == [branch : Branches, facts : Facts, version : 1 .. MaxRecordVersion,
            key : Optional(Keys)]
ChangeRow == [subject : Subjects, version : 2 .. MaxRecordVersion,
              prior : Facts, new : Facts]

(* Version 0 stands for a request without expectedVersion and reason.       *)
(* "seen" is what the client had read of the record, which it does not send.*)
MarkCmd == [op : {"mark"}, subject : Subjects, branch : Branches, facts : Facts,
            key : Optional(Keys), version : 0 .. MaxRecordVersion, seen : Optional(Facts)]

VARIABLES
  records,   \* attendance_records
  changes,   \* attendance_record_changes
  markTxn    \* the sessions

attendanceVars == <<records, changes, markTxn>>

AttendanceTypeOK ==
  /\ records \in [Subjects -> MarkRow \cup {NoMark}]
  /\ changes \subseteq ChangeRow
  /\ \A t \in Txns : markTxn[t] = NotInTxn \/ markTxn[t].cmd \in MarkCmd

AttendanceInit ==
  /\ records = [s \in Subjects |-> NoMark]
  /\ changes = {}
  /\ markTxn = AllIdle

-----------------------------------------------------------------------------
(* The records a branch's list of the day shows.                            *)
Roster(b) == {s \in Subjects : records[s] # NoMark /\ records[s].branch = b}

(* The client reads the record in a branch's list, or does not, and sends   *)
(* its request, perhaps after it moved to another branch.  A key sent with a *)
(* correction is not stored: unless it is refused for it, the request goes  *)
(* on as without the key.                                                   *)
MarkBegin(t) ==
  /\ markTxn[t] = NotInTxn
  /\ \E s \in Subjects, b \in Branches, f \in Facts, k \in Optional(Keys),
        correct \in BOOLEAN :
       /\ correct => k = {} /\ \E shown \in Branches : s \in Roster(shown)
       /\ markTxn' = Begun(markTxn, t,
            [op |-> "mark", subject |-> s, branch |-> b, facts |-> f, key |-> k,
             version |-> IF correct THEN records[s].version ELSE 0,
             seen |-> IF correct THEN {records[s].facts} ELSE {}])
  /\ UNCHANGED <<records, changes>>

UnusedMarkKey(c) == \A s \in Subjects : records[s] # NoMark =>
                                           c.key \cap records[s].key = {}

(* The advisory lock on member and day; a request whose key is stored       *)
(* already is answered from that record, or refused.                        *)
MarkLock(t) ==
  LET c == markTxn[t].cmd IN
  /\ c.op = "mark" /\ c.subject \notin markTxn[t].held
  /\ Free(markTxn, c.subject)
  /\ UnusedMarkKey(c)
  /\ markTxn' = Locked(markTxn, t, c.subject)
  /\ UNCHANGED <<records, changes>>

(* A refusal, the answer to a retry, or a lost connection.                  *)
MarkAbort(t) ==
  /\ markTxn[t] # NotInTxn
  /\ markTxn' = Ended(markTxn, t)
  /\ UNCHANGED <<records, changes>>

MarkReady(t) == markTxn[t].cmd.op = "mark" /\ markTxn[t].cmd.subject \in markTxn[t].held

(* The unique index still refuses a key that another day took meanwhile.    *)
MarkInsert(t) ==
  LET c == markTxn[t].cmd IN
  /\ MarkReady(t)
  /\ records[c.subject] = NoMark /\ c.version = 0
  /\ UnusedMarkKey(c)
  /\ records' = [records EXCEPT ![c.subject] =
                   [branch |-> c.branch, facts |-> c.facts, version |-> 1, key |-> c.key]]
  /\ markTxn' = Ended(markTxn, t)
  /\ UNCHANGED changes

(* Mutant: a request that names no version corrects what it finds.          *)
CorrectUnversioned(c, r) ==
  /\ r # NoMark /\ r.branch = c.branch
  /\ c.version \in {0, r.version}
  /\ r.facts # c.facts

MayCorrect(c, r) ==
  /\ r # NoMark /\ r.branch = c.branch
  /\ c.version = r.version
  /\ r.facts # c.facts

(* What the trigger appends.                                                *)
Change(c, r) == [subject |-> c.subject, version |-> r.version + 1, prior |-> r.facts, new |-> c.facts]

MarkCorrect(t) ==
  LET c == markTxn[t].cmd
      r == records[c.subject] IN
  /\ MarkReady(t)
  /\ MayCorrect(c, r)
  /\ r.version < MaxRecordVersion
  /\ records' = [records EXCEPT ![c.subject].facts = c.facts, ![c.subject].version = @ + 1]
  /\ changes' = changes \cup {Change(c, r)}
  /\ markTxn' = Ended(markTxn, t)

AttendanceNext ==
  \E t \in Txns :
    MarkBegin(t) \/ MarkLock(t) \/ MarkAbort(t) \/ MarkInsert(t) \/ MarkCorrect(t)

AttendanceSpec == AttendanceInit /\ [][AttendanceNext]_attendanceVars

-----------------------------------------------------------------------------
(* Properties.                                                              *)

(* A correction replaces what its author had read: of several people who    *)
(* correct a record they read at the same version, one succeeds, and a      *)
(* late retry of the first marking overwrites nothing.                      *)
CorrectsWhatWasRead ==
  [][\A s \in Subjects : records[s] # NoMark /\ records'[s] # records[s] =>
       \E t \in Txns : /\ markTxn[t].cmd.op = "mark" /\ markTxn'[t] = NotInTxn
                        /\ markTxn[t].cmd.subject = s
                        /\ markTxn[t].cmd.seen = {records[s].facts}]_attendanceVars

(* The history leads back from what the record says now, one change per     *)
(* version, each from what the one before it had set.                       *)
HistoryIsComplete ==
  \A s \in Subjects :
    LET of(v) == {c \in changes : c.subject = s /\ c.version = v}
    IN  \A v \in 2 .. MaxRecordVersion :
          IF v > records[s].version THEN of(v) = {}
          ELSE \E c \in of(v) :
                 /\ of(v) = {c}
                 /\ v = records[s].version => c.new = records[s].facts
                 /\ v < records[s].version => \E d \in of(v + 1) : d.prior = c.new

(* A key that one device sent for two members or two days at once marks one *)
(* of them; the advisory lock, which is on member and day, does not see it. *)
KeyMarksOnce ==
  \A r, s \in Subjects : records[r] # NoMark /\ records[s] # NoMark
    /\ records[r].key \cap records[s].key # {} => r = s
=============================================================================
