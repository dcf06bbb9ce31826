------------------------------- MODULE Cutover -------------------------------
\* How one vertical of the business leaves the legacy document store for
\* PostgreSQL: command-line runs plan an import from the legacy records and a
\* reviewed mapping, apply it in one transaction, verify it record by record and
\* activate a latch, while the runtime already writes the same tables and
\* somebody may still write the legacy store.  The verticals share the protocol
\* and differ in what blocks a plan, what a repeated import does to a row that is
\* there, and what the verification compares.
EXTENDS Naturals, FiniteSets

CONSTANTS Records,      \* legacy documents of the vertical, as far as it is compared
          MaxContents,  \* bound on the versions of a legacy document
          MaxEvents,    \* bound on the changes others make under the runs
          Jobs,         \* command-line runs that may overlap
          Verticals     \* the verticals of a run, a subset of AllVerticals

\* The shared core's records are its commercial documents: the others are
\* imported with them, and no activation compares them.  The corporate run
\* handles parents and the links of their children together; each kind is a
\* vertical here, and what refuses the one ends a run of the other like a crash.
AllVerticals == {"dues", "attendance", "inventory", "queue", "sharedCore", "parents", "children", "audit"}

ASSUME CutoverAssumption == /\ MaxContents \in Nat \ {0}
                            /\ MaxEvents \in Nat
                            /\ Verticals \subseteq AllVerticals
                            /\ IsFiniteSet(Records)

VARIABLES vertical,  \* the vertical of this behaviour
          source,    \* legacy document -> its version, 0 when there is none
          reviewed,  \* documents the reviewed mapping, or accepted provenance, covers
          target,    \* legacy document -> the row imported from it
          aside,     \* audit: document -> the version its disposition records, 0 when none
          latch,     \* the vertical's authority latch
          job,       \* command-line run -> where it is
          attested,  \* what the verification before the last activation had loaded
          events     \* how many changes others have made

cutoverVars == <<vertical, source, reviewed, target, aside, latch, job, attested, events>>


\* A row as imported: the version its fingerprint names, and which of its facts
\* the runtime has changed since.
Fresh(c) == [content |-> c, changed |-> {}]
Rows     == [content : 0..MaxContents, changed : SUBSET {"facts", "stock"}]
IsRow(t) == t.content # 0
Absent   == [content |-> 0, changed |-> {}]
\* What holds the place of the imported row: a native row of the member's day,
\* or a native parent of the child.
Taken    == [content |-> 0, changed |-> {"facts"}]

Sleeping == [pc |-> "idle"]
JobState == {Sleeping} \cup
    [pc : {"planning", "planned", "applying", "verifying", "verified"}, activates : BOOLEAN,
     recovery : BOOLEAN, plan : [Records -> 0..MaxContents], unsafe : SUBSET Records,
     todo : SUBSET Records]

CutoverTypeOK ==
    /\ vertical \in Verticals
    /\ source \in [Records -> 0..MaxContents]
    /\ reviewed \subseteq Records
    /\ target \in [Records -> Rows]
    /\ aside \in [Records -> 0..MaxContents]
    /\ latch \in BOOLEAN
    /\ job \in [Jobs -> JobState]
    /\ attested \in [Records -> 0..MaxContents]
    /\ events \in 0..MaxEvents

CutoverInit ==
    /\ vertical \in Verticals
    /\ source \in [Records -> 0..1]
    /\ reviewed \in SUBSET Records
    /\ target = [r \in Records |-> Absent]
    /\ aside = [r \in Records |-> 0]
    /\ latch = FALSE
    /\ job = [j \in Jobs |-> Sleeping]
    /\ attested = [r \in Records |-> 0]
    /\ events = 0

-----------------------------------------------------------------------------
\* What a run must find resolved before it plans: a mapping that a person reviewed
\* and that names the documents of that moment, no fewer and no others; for
\* attendance no others, as a document it does not name goes to the only branch
\* of its member; for the queue, where several documents may be one customer or
\* one number of a day; for the shared core, documents that are valid.
DuesResolved(docs)       == docs = reviewed
AttendanceResolved(docs) == reviewed \subseteq docs
InventoryResolved(docs)  == docs = reviewed
QueueResolved(docs)      == reviewed \subseteq docs /\ (Cardinality(docs) > 1 => docs \subseteq reviewed)
SharedCoreResolved(docs) == docs \subseteq reviewed

Resolved(docs) == CASE vertical = "dues"       -> DuesResolved(docs)
                    [] vertical = "attendance" -> AttendanceResolved(docs)
                    [] vertical = "inventory"  -> InventoryResolved(docs)
                    [] vertical = "queue"      -> QueueResolved(docs)
                    [] vertical = "sharedCore" -> SharedCoreResolved(docs)
                    [] OTHER                   -> TRUE

\* What blocks the plan of a document: a row that is there and is not what it
\* would import, or, where provenance stands for the mapping, none accepted.
Differs(r, c) == target[r] \notin {Absent, Fresh(c)}

DuesIssue(r, c)       == Differs(r, c)
AttendanceIssue(r, c) == Differs(r, c)
\* Stock that moved since is no conflict for the plan: it looks at the item.
InventoryIssue(r, c)  == IsRow(target[r]) /\ (target[r].content # c \/ "facts" \in target[r].changed)
ParentIssue(r, c)     == r \notin reviewed \/ Differs(r, c)
ChildIssue(r, c)      == r \notin reviewed \/ Differs(r, c)
\* An unsafe document is no blocker: it is set aside.
AuditIssue(r, c)      == r \in reviewed /\ Differs(r, c)

Issue(r, c) == CASE vertical = "dues"       -> DuesIssue(r, c)
                 [] vertical = "attendance" -> AttendanceIssue(r, c)
                 [] vertical = "inventory"  -> InventoryIssue(r, c)
                 [] vertical = "parents"    -> ParentIssue(r, c)
                 [] vertical = "children"   -> ChildIssue(r, c)
                 [] vertical = "audit"      -> AuditIssue(r, c)
                 [] OTHER                   -> FALSE

-----------------------------------------------------------------------------
\* What the apply transaction does with a planned document: the row it leaves,
\* or Blocked, which rolls the whole transaction back.
Blocked == [content |-> 0, changed |-> {"refused"}]
Insert(r, c) == IF target[r] = Absent THEN Fresh(c) ELSE target[r]
Unless(bad, row) == IF bad THEN Blocked ELSE row

DuesImport(r, c) == Unless(Differs(r, c), Insert(r, c))
\* Mutant: a repeated attendance import corrects the row that differs.
AttendanceImportCorrects(r, c) == Unless(target[r] = Taken, Fresh(c))
AttendanceImport(r, c) == Unless(Differs(r, c), Insert(r, c))
InventoryImport(r, c)  == Unless(InventoryIssue(r, c), Insert(r, c))
\* The token is overwritten with the legacy status; only the fingerprint of its
\* source link is compared.
QueueImport(r, c)      == Unless(IsRow(target[r]) /\ target[r].content # c, Fresh(c))
SharedCoreImport(r, c) == Fresh(c)
\* A parent that is there is left alone, whatever it says; a child with another
\* parent is refused.
ParentImport(r, c)     == Insert(r, c)
ChildImport(r, c)      == Unless(Differs(r, c), Insert(r, c))
AuditImport(r, c)      == Insert(r, c)

Import(r, c) == CASE vertical = "dues"       -> DuesImport(r, c)
                  [] vertical = "attendance" -> AttendanceImport(r, c)
                  [] vertical = "inventory"  -> InventoryImport(r, c)
                  [] vertical = "queue"      -> QueueImport(r, c)
                  [] vertical = "sharedCore" -> SharedCoreImport(r, c)
                  [] vertical = "parents"    -> ParentImport(r, c)
                  [] vertical = "children"   -> ChildImport(r, c)
                  [] vertical = "audit"      -> AuditImport(r, c)

\* What the verification accepts for a planned document.
\* Mutant: any row imported from the document will do.
DuesMatchPresent(r, c, unsafe) == IsRow(target[r])
DuesMatch(r, c, unsafe)       == target[r] = Fresh(c)
AttendanceMatch(r, c, unsafe) == target[r] = Fresh(c)
InventoryMatch(r, c, unsafe)  == target[r] = Fresh(c)
QueueMatch(r, c, unsafe)      == target[r] = Fresh(c)
SharedCoreMatch(r, c, unsafe) == target[r] = Fresh(c)
\* Parents are counted, their facts only compared by the plan; links are compared.
ParentMatch(r, c, unsafe)     == IsRow(target[r])
ChildMatch(r, c, unsafe)      == target[r] = Fresh(c)
AuditMatch(r, c, unsafe)      == IF r \in unsafe THEN aside[r] = c ELSE target[r] = Fresh(c)

Match(r, c, unsafe) == CASE vertical = "dues"       -> DuesMatch(r, c, unsafe)
                         [] vertical = "attendance" -> AttendanceMatch(r, c, unsafe)
                         [] vertical = "inventory"  -> InventoryMatch(r, c, unsafe)
                         [] vertical = "queue"      -> QueueMatch(r, c, unsafe)
                         [] vertical = "sharedCore" -> SharedCoreMatch(r, c, unsafe)
                         [] vertical = "parents"    -> ParentMatch(r, c, unsafe)
                         [] vertical = "children"   -> ChildMatch(r, c, unsafe)
                         [] vertical = "audit"      -> AuditMatch(r, c, unsafe)

\* Three verifications also count the rows no current document accounts for.
Surplus(plan) == /\ vertical \in {"inventory", "queue", "sharedCore"}
                 /\ \E r \in Records : IsRow(target[r]) /\ plan[r] = 0

-----------------------------------------------------------------------------
Rest == UNCHANGED <<vertical, source, reviewed, target, aside, latch, attested, events>>
Quit(j) == job' = [job EXCEPT ![j] = Sleeping]

\* A run loads the legacy documents, and its mapping, at once.
Load(j) ==
    /\ job[j].pc = "idle"
    /\ Resolved({r \in Records : source[r] # 0})
    /\ \E activates, recovery \in BOOLEAN :
        /\ ~(activates /\ recovery)
        /\ job' = [job EXCEPT ![j] = [pc |-> "planning", activates |-> activates,
                       recovery |-> recovery, plan |-> source, unsafe |-> {},
                       todo |-> {r \in Records : source[r] # 0}]]
    /\ Rest

\* It plans the documents one by one, reading the target outside any transaction; an issue ends an apply and fails a verification.
Plan(j) ==
    /\ job[j].pc = "planning"
    /\ IF job[j].todo = {}
       THEN job' = [job EXCEPT ![j].pc = IF job[j].activates THEN "verifying" ELSE "planned",
                               ![j].todo = IF job[j].activates
                                           THEN {r \in Records : job[j].plan[r] # 0} ELSE {}]
       ELSE \E r \in job[j].todo :
              IF Issue(r, job[j].plan[r])
              THEN Quit(j)
              ELSE job' = [job EXCEPT ![j].todo = @ \ {r},
                                      ![j].unsafe = IF vertical = "audit" /\ r \notin reviewed
                                                        THEN @ \cup {r} ELSE @]
    /\ Rest

\* The apply transaction begins by reading the latch.
BeginApply(j) ==
    /\ job[j].pc = "planned"
    /\ IF latch /\ ~job[j].recovery THEN Quit(j)
       ELSE job' = [job EXCEPT ![j].pc = "applying", ![j].recovery = FALSE]
    /\ Rest

\* Its writes take effect together, or not at all when a document is refused.
Apply(j) ==
    /\ job[j].pc = "applying"
    /\ LET plan    == job[j].plan
           planned == {r \in Records : plan[r] # 0}
           safe    == planned \ job[j].unsafe
       IN IF \E r \in safe : Import(r, plan[r]) = Blocked
          THEN UNCHANGED <<target, aside>>
          ELSE /\ target' = [r \in Records |-> IF r \in safe THEN Import(r, plan[r]) ELSE target[r]]
               /\ aside' = [r \in Records |-> IF r \in planned \ safe /\ aside[r] = 0
                                              THEN plan[r] ELSE aside[r]]
    /\ Quit(j)
    /\ UNCHANGED <<vertical, source, reviewed, latch, attested, events>>

\* The verification compares the documents statement by statement.
Verify(j) ==
    /\ job[j].pc = "verifying"
    /\ \/ \E r \in job[j].todo :
            IF Match(r, job[j].plan[r], job[j].unsafe)
            THEN job' = [job EXCEPT ![j].todo = @ \ {r}]
            ELSE Quit(j)
       \/ /\ job[j].todo = {}
          /\ IF Surplus(job[j].plan) THEN Quit(j)
             ELSE job' = [job EXCEPT ![j].pc = "verified"]
    /\ Rest

\* The latch is written in a transaction of its own, after the verification.
Activate(j) ==
    /\ job[j].pc = "verified"
    /\ latch' = TRUE
    /\ attested' = job[j].plan
    /\ Quit(j)
    /\ UNCHANGED <<vertical, source, reviewed, target, aside, events>>

\* A run dies: its transaction, if any, is rolled back.
JobDies(j) == job[j].pc # "idle" /\ Quit(j) /\ Rest

\* The legacy store changes under a run, and the mapping is completed or revised.
Happens == events < MaxEvents /\ events' = events + 1
LegacyWrite(r) ==
    /\ Happens
    /\ source' \in {[source EXCEPT ![r] = 0],
                    [source EXCEPT ![r] = IF @ < MaxContents THEN @ + 1 ELSE @]}
    /\ source' # source
    /\ UNCHANGED <<vertical, reviewed, target, aside, latch, job, attested>>
ReviewMapping(r) ==
    /\ Happens
    /\ \/ r \notin reviewed /\ reviewed' = reviewed \cup {r}
       \/ /\ r \in reviewed /\ vertical \notin {"parents", "children", "audit"}
          /\ reviewed' = reviewed \ {r}
    /\ UNCHANGED <<vertical, source, target, aside, latch, job, attested>>

\* A child that has no parent is linked, to a native one or to one the legacy
\* store knows; it keeps the parent it has.
LinkChild(r) ==
    /\ vertical = "children" /\ target[r] = Absent
    /\ \E parent \in {Taken} \cup {Fresh(c) : c \in 1 .. MaxContents} :
          target' = [target EXCEPT ![r] = parent]

\* The runtime serves the vertical from PostgreSQL whether or not the latch is
\* set: it changes an imported row, moves its stock, or takes its place.  Due
\* entries, audit events and parents cannot be changed.
NativeChange(r) ==
    /\ Happens
    /\ \/ /\ IsRow(target[r])
          /\ vertical \in {"attendance", "inventory", "queue", "sharedCore"}
          /\ \E fact \in (IF vertical = "inventory" THEN {"facts", "stock"} ELSE {"facts"})
                           \ target[r].changed :
                target' = [target EXCEPT ![r].changed = @ \cup {fact}]
       \/ /\ target[r] = Absent
          /\ vertical = "attendance"
          /\ target' = [target EXCEPT ![r] = Taken]
       \/ LinkChild(r)
    /\ UNCHANGED <<vertical, source, reviewed, aside, latch, job, attested>>

CutoverNext ==
    \/ \E j \in Jobs : \/ Load(j) \/ Plan(j) \/ BeginApply(j) \/ Apply(j)
                       \/ Verify(j) \/ Activate(j) \/ JobDies(j)
    \/ \E r \in Records : LegacyWrite(r) \/ ReviewMapping(r) \/ NativeChange(r)

CutoverSpec == CutoverInit /\ [][CutoverNext]_cutoverVars

-----------------------------------------------------------------------------
\* Once a vertical is activated, every legacy document its verification had
\* loaded is there under the fingerprint it had then, or, for an unsafe audit
\* record, is set aside under it, whatever overlapping applies, legacy writes
\* and native changes did between the checks and the latch.  (A shared core row
\* keeps no fingerprint and may be overwritten by a later apply, and the facts of
\* a parent organization are compared only before its row is counted, so that an
\* overlapping apply of an older plan goes unnoticed: of both, a row is there.)
AttestedIsImported ==
    latch => \A r \in Records : attested[r] # 0 =>
        \/ IsRow(target[r]) /\ \/ target[r].content = attested[r]
                               \/ vertical \in {"sharedCore", "parents"}
        \/ vertical = "audit" /\ aside[r] = attested[r]

\* No apply, stale, repeated, overlapping or in recovery mode, takes back what
\* the runtime has written to a row of the verticals that insert and compare.
NativeChangesSurvive ==
    [][vertical \notin {"queue", "sharedCore"} =>
         \A r \in Records :
            /\ target[r] = Taken => target'[r] = Taken
            /\ IsRow(target[r]) => /\ IsRow(target'[r])
                                   /\ target'[r].content = target[r].content
                                   /\ target[r].changed \subseteq target'[r].changed]_cutoverVars

\* "Verification requires every source row to be represented exactly once as a
\* canonical event or disposition" (the retirement runbook): no legacy audit
\* record that a finished verification had loaded is both.  What the code does
\* violates it: a record set aside as unsafe whose mapping is completed later is
\* imported by the next apply, and its disposition stays.
RepresentedOnce ==
    \A j \in Jobs : job[j].pc = "verified" /\ vertical = "audit" =>
        \A r \in Records : job[j].plan[r] # 0 => ~(IsRow(target[r]) /\ aside[r] # 0)

==============================================================================
