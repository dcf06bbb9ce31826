---------------------------------- MODULE Hr ----------------------------------
(***************************************************************************)
(* Leave requests and shift assignments.  Every command locks the          *)
(* organization's row before it reads anything, and what the service does  *)
(* not compare the tables' constraints and triggers do, so a command is    *)
(* one step.  A repeated key answers with what the first command did, and  *)
(* a command for an old version is refused: both change nothing and are    *)
(* left out, as are the rules of a leave type, which refuse some requests, *)
(* and the work calendar, which only chooses among the days of a range.    *)
(***************************************************************************)
EXTENDS Staffing

CONSTANTS
  Leaves, Shifts,   \* ids of rows
  MaxDay,           \* calendar days of the instance
  Templates         \* shift templates, by the hours they take

AllTemplates == {"early", "late", "night"}

ASSUME HrAssumption ==
  /\ MaxDay \in Nat \ {0} /\ Templates \subseteq AllTemplates
  /\ {"hr_plus.manage", "hr_plus.approve"} \subseteq Capabilities

VARIABLES day, offered, leaves, shifts
hrVars == <<staff, day, offered, leaves, shifts>>

CalendarDays == 1 .. MaxDay
Ranges == {r \in CalendarDays \X CalendarDays : r[1] <= r[2]}

NoLeave == [status |-> "none"]
NoShift == [status |-> "none"]
LeaveRow == [status : {"pending", "approved", "rejected", "cancelled"}, member : People, range : Ranges]
ShiftRow == [status : {"draft", "published", "cancelled"}, member : People, branch : Branches,
             on : CalendarDays, template : Templates]

(***************************************************************************)
(* Time.  A day has two halves: an early shift takes the first, a late one *)
(* the second and ends at midnight, a night shift ends the next morning.   *)
(***************************************************************************)
Hours(s) == CASE s.template = "early" -> {2 * s.on}
              [] s.template = "late"  -> {2 * s.on + 1}
              [] s.template = "night" -> {2 * s.on + 1, 2 * s.on + 2}

(* Mutant: a shift concerns its business day only.                          *)
BusinessDay(s) == {s.on}

(* The days a shift has hours in: one that ends at midnight has none in the *)
(* day that begins then.                                                    *)
ShiftDays(s) == {h \div 2 : h \in Hours(s)}

LeaveDays(l) == l.range[1] .. l.range[2]

(***************************************************************************)
(* The constraints of the two tables.                                      *)
(***************************************************************************)
LiveLeave(l) == l.status \in {"pending", "approved"}
LiveShift(s) == s.status \in {"draft", "published"}

Clash(s, t) == Hours(s) \cap Hours(t) # {}

LeavesDisjoint(ls) ==
  \A x, y \in {z \in Leaves : LiveLeave(ls[z])} :
    x # y /\ ls[x].member = ls[y].member => LeaveDays(ls[x]) \cap LeaveDays(ls[y]) = {}

ShiftsDisjoint(ss) ==
  \A x, y \in {z \in Shifts : LiveShift(ss[z])} :
    x # y /\ ss[x].member = ss[y].member => ~Clash(ss[x], ss[y])

OnLeave(s) ==
  \E l \in Leaves : leaves[l].status = "approved" /\ leaves[l].member = s.member
                      /\ LeaveDays(leaves[l]) \cap ShiftDays(s) # {}

OnDuty(l) ==
  \E x \in Shifts : shifts[x].status = "published" /\ shifts[x].member = l.member
                      /\ LeaveDays(l) \cap ShiftDays(shifts[x]) # {}

(* What the trigger asks of a shift that is not being cancelled.            *)
ShiftStands(s) == WorksAt(staff, s.member, s.branch) /\ ~OnLeave(s)

(***************************************************************************)
(* Commands                                                                *)
(***************************************************************************)
HrInit ==
  /\ StaffInit /\ day = 1 /\ offered = {}
  /\ leaves = [l \in Leaves |-> NoLeave] /\ shifts = [s \in Shifts |-> NoShift]

Acts(who, b, permission) == WorksAt(staff, who, b) /\ May(staff, who, permission)
Covers(who, member) == staff[member].at \subseteq staff[who].at
Employed(p) == staff[p].at # {}

SetLeave(l, row) ==
  /\ leaves' = [leaves EXCEPT ![l] = row] /\ LeavesDisjoint(leaves')
  /\ UNCHANGED <<staff, day, offered, shifts>>

SetShifts(new) ==
  /\ shifts' = new /\ ShiftsDisjoint(new)
  /\ UNCHANGED <<staff, day, offered, leaves>>

SubmitLeave(who, b, l, range) ==
  /\ WorksAt(staff, who, b) /\ leaves[l] = NoLeave
  /\ SetLeave(l, [status |-> "pending", member |-> who, range |-> range])

CancelOwnLeave(who, b, l) ==
  /\ leaves[l].status = "pending" /\ leaves[l].member = who /\ WorksAt(staff, who, b)
  /\ SetLeave(l, [leaves[l] EXCEPT !.status = "cancelled"])

HasBegun(l) == leaves[l].range[1] <= day

(* Nobody reviews their own leave, a reviewer works wherever the employee   *)
(* does, and approved leave that has begun stays as it is.                  *)
ReviewLeave(who, b, l, status) ==
  /\ leaves[l].status \in (IF status = "cancelled" THEN {"pending", "approved"} ELSE {"pending"})
  /\ Acts(who, b, "hr_plus.approve") /\ WorksAt(staff, leaves[l].member, b)
  /\ leaves[l].member # who /\ Covers(who, leaves[l].member) /\ Employed(leaves[l].member)
  /\ leaves[l].status = "approved" => ~HasBegun(l)
  /\ status = "approved" => ~OnDuty(leaves[l])
  /\ SetLeave(l, [leaves[l] EXCEPT !.status = status])

(* One command makes a draft for each chosen day, or none at all.           *)
GenerateShifts(who, b, rows, member, template) ==
  /\ Acts(who, b, "hr_plus.manage") /\ template \in offered
  /\ \A x \in DOMAIN rows : shifts[x] = NoShift
  /\ LET Draft(x) == [status |-> "draft", member |-> member, branch |-> b, on |-> rows[x], template |-> template]
     IN  /\ \A x \in DOMAIN rows : ShiftStands(Draft(x))
         /\ SetShifts([x \in Shifts |-> IF x \in DOMAIN rows THEN Draft(x) ELSE shifts[x]])

EditShift(who, x, on, template) ==
  /\ shifts[x].status = "draft" /\ template \in offered
  /\ Acts(who, shifts[x].branch, "hr_plus.manage")
  /\ LET row == [shifts[x] EXCEPT !.on = on, !.template = template]
     IN  ShiftStands(row) /\ SetShifts([shifts EXCEPT ![x] = row])

PublishShift(who, x) ==
  /\ shifts[x].status = "draft" /\ shifts[x].template \in offered
  /\ Acts(who, shifts[x].branch, "hr_plus.manage") /\ ShiftStands(shifts[x])
  /\ SetShifts([shifts EXCEPT ![x].status = "published"])

CancelShift(who, x) ==
  /\ shifts[x].status \in {"draft", "published"}
  /\ Acts(who, shifts[x].branch, "hr_plus.manage")
  /\ SetShifts([shifts EXCEPT ![x].status = "cancelled"])

SaveTemplate(who, b, template) ==
  /\ Acts(who, b, "hr_plus.manage")
  /\ offered' = IF template \in offered THEN offered \ {template} ELSE offered \cup {template}
  /\ UNCHANGED <<staff, day, leaves, shifts>>

DayPasses == day < MaxDay /\ day' = day + 1 /\ UNCHANGED <<staff, offered, leaves, shifts>>

(* The rows of one command: at most one for each day.                       *)
DayRows == UNION {{f \in [S -> CalendarDays] : \A x, y \in S : x # y => f[x] # f[y]} : S \in SUBSET Shifts \ {{}}}

HrNext ==
  \/ Administer /\ UNCHANGED <<day, offered, leaves, shifts>>
  \/ \E who \in People, b \in Branches :
       \/ \E l \in Leaves, range \in Ranges : SubmitLeave(who, b, l, range)
       \/ \E l \in Leaves : CancelOwnLeave(who, b, l)
       \/ \E l \in Leaves, status \in {"approved", "rejected", "cancelled"} : ReviewLeave(who, b, l, status)
       \/ \E rows \in DayRows, member \in People, template \in Templates :
            GenerateShifts(who, b, rows, member, template)
       \/ \E template \in Templates : SaveTemplate(who, b, template)
  \/ \E who \in People, x \in Shifts :
       \/ \E on \in CalendarDays, template \in Templates : EditShift(who, x, on, template)
       \/ PublishShift(who, x) \/ CancelShift(who, x)
  \/ DayPasses

HrSpec == HrInit /\ [][HrNext]_hrVars

(***************************************************************************)
(* Properties                                                              *)
(***************************************************************************)
OnShift(x) == {<<shifts[x].member, h>> : h \in Hours(shifts[x])}
Away(l) == {leaves[l].member} \X UNION {{2 * d, 2 * d + 1} : d \in LeaveDays(leaves[l])}

(* Rows have their columns, and nobody has two shifts at one time, drafts  *)
(* included and in whatever branches, also when one began the day before.  *)
HrTypeOK ==
  /\ StaffTypeOK /\ day \in CalendarDays /\ offered \subseteq Templates
  /\ leaves \in [Leaves -> LeaveRow \cup {NoLeave}] /\ shifts \in [Shifts -> ShiftRow \cup {NoShift}]
  /\ \A x, y \in {z \in Shifts : LiveShift(shifts[z])} : x = y \/ OnShift(x) \cap OnShift(y) = {}

(* Nobody is on approved leave and on a published shift on one day, also   *)
(* when the shift began the evening before: whatever the order in which    *)
(* leave is asked for and approved and shifts are made, moved, published.  *)
CalendarsAgree ==
  \A x \in Shifts, l \in Leaves :
    shifts[x].status = "published" /\ leaves[l].status = "approved" => OnShift(x) \cap Away(l) = {}

=============================================================================
