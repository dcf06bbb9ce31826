-------------------------------- MODULE Access --------------------------------
(***************************************************************************)
(* What an organization may use: the modules and the limit that follow, at *)
(* the moment somebody asks, from the catalogue, from the contract (its    *)
(* subscription with the add-ons) and from the exceptions operators make.  *)
(* Operators edit contracts and exceptions and a release reconciles the    *)
(* catalogue, while task commands check their module, statement by         *)
(* statement, inside the READ COMMITTED transaction they write in.         *)
(***************************************************************************)
EXTENDS Entitlements, FiniteSets, FiniteSetsExt, Sequences

CONSTANTS
  Sessions,     \* concurrent database sessions
  Modules, TaskModule,
  Plans, AddOns,
  Catalogues,   \* the catalogues of successive releases
  ContractEdits, ExceptionEdits,   \* what operators write
  MaxMoment     \* the clock stops here

NoPlan == "no plan"
NoLimit == -1
Moments == 0 .. MaxMoment
Statuses == {"active", "trialing", "inactive", "suspended", "cancelled"}
Windows == [starts : Moments, ends : Moments \cup {NoEnd}]
PartOf(S, T) == UNION {[D -> T] : D \in SUBSET S}

(* A grant: modules, and for the limit a value or adjustments of it.  Rows  *)
(* a release does not name stay as they are.                                *)
PlanGrant == [sold : BOOLEAN, modules : SUBSET Modules, limit : Nat \cup {NoLimit}]
AddOnGrant == [sold : BOOLEAN, modules : SUBSET Modules, add : Nat, override : Nat \cup {NoLimit}]
Contract == [status : Statuses, starts : Moments, ends : Moments \cup {NoEnd},
             plan : Plans \cup {NoPlan}, addOns : PartOf(AddOns, Windows)]
NoContract == [status |-> "none"]
(* An edit may leave out when the subscription starts.                      *)
ContractEdit == [status : Statuses, starts : Moments \cup {NoEnd}, ends : Moments \cup {NoEnd},
                 plan : Plans \cup {NoPlan}, addOns : PartOf(AddOns, Windows)]
ExceptionRow == [effect : {"grant", "revoke"}, active : BOOLEAN, window : Windows]
NoException == [active |-> FALSE]

ASSUME AccessAssumption ==
  /\ TaskModule \in Modules /\ NoPlan \notin Plans /\ MaxMoment \in Nat /\ IsFiniteSet(AddOns)
  /\ \A c \in Catalogues :
       /\ DOMAIN c = {"modules", "plans", "addOns"} /\ c.modules \subseteq Modules
       /\ DOMAIN c.plans \subseteq Plans /\ DOMAIN c.addOns \subseteq AddOns
       /\ \A p \in DOMAIN c.plans : c.plans[p] \in PlanGrant
       /\ \A a \in DOMAIN c.addOns : c.addOns[a] \in AddOnGrant
  /\ ContractEdits \subseteq ContractEdit /\ ExceptionEdits \subseteq ExceptionRow
  /\ \A e \in ContractEdits : e.starts # NoEnd /\ e.ends # NoEnd => e.starts < e.ends

VARIABLES
  moment,      \* the clock
  catalogue,   \* module_definitions, plans and add_ons with their grants
  contract,    \* the subscription and its add-ons
  exceptions,  \* module -> entitlement_overrides row
  session      \* what each database session does

commercialRows == <<catalogue, contract, exceptions>>
accessVars == <<moment, commercialRows, session>>

-----------------------------------------------------------------------------
(* What the rows grant.  A snapshot has four parts, one per statement.      *)

Statements == <<"modules", "subscription", "addOns", "exceptions">>

(* The plan's own grants come with the subscription, the add-ons' with them.*)
Snapshot ==
  [modules |-> catalogue.modules,
   subscription |->
     IF contract = NoContract THEN NoContract
     ELSE [status |-> contract.status, starts |-> contract.starts, ends |-> contract.ends,
           plan |-> IF contract.plan = NoPlan THEN NoContract ELSE catalogue.plans[contract.plan]],
   addOns |-> IF contract = NoContract THEN <<>>
              ELSE [a \in DOMAIN contract.addOns |->
                      [grant |-> catalogue.addOns[a], window |-> contract.addOns[a]]],
   exceptions |-> exceptions]
NothingRead == [part \in {Statements[i] : i \in DOMAIN Statements} |-> NoContract]

Within(w, at) == InWindow(w.starts, w.ends, at)

Effective(s, at) == s.subscription # NoContract /\ GivesAccess(s.subscription, at)

PlanGrants(s, at) == IF Effective(s, at) /\ s.subscription.plan # NoContract
                     THEN {s.subscription.plan} ELSE {}

AddOnGrants(s, at) ==
  IF Effective(s, at) THEN {a \in DOMAIN s.addOns : Within(s.addOns[a].window, at)} ELSE {}

Excepted(s, effect, at) ==
  {m \in Modules : /\ s.exceptions[m].active /\ s.exceptions[m].effect = effect
                   /\ Within(s.exceptions[m].window, at)}

(* A suspension stops every module, those that an exception grants too.     *)
Enabled(s, at) ==
  IF s.subscription.status = "suspended" THEN {}
  ELSE s.modules \cap
       ((UNION {p.modules : p \in PlanGrants(s, at)}
           \cup UNION {s.addOns[a].grant.modules : a \in AddOnGrants(s, at)}
           \cup Excepted(s, "grant", at))
        \ Excepted(s, "revoke", at))

PlanLimit(s, at) == Max({NoLimit} \cup {p.limit : p \in PlanGrants(s, at)})

(* The largest of the overrides and what the plan gives.                    *)
Overridden(s, at, base) ==
  Max({base} \cup {s.addOns[a].grant.override : a \in AddOnGrants(s, at)})

Limit(s, at) ==
  LET base == Overridden(s, at, PlanLimit(s, at))
      more == MapThenSumSet(LAMBDA a : s.addOns[a].grant.add, AddOnGrants(s, at))
  IN IF base = NoLimit /\ more = 0 THEN NoLimit ELSE Max({base, 0}) + more

-----------------------------------------------------------------------------
(* Sessions and the rows they lock.                                         *)

Resting == [op |-> "none", held |-> {}]
Rows == {"organization", "module", "contract", "exceptions"}
Editing == [op : {"edit"}, held : SUBSET Rows, edit : ContractEdits, starts : Moments]
(* A task command that has read the parts "had".                            *)
Tasking == [op : {"task"}, held : SUBSET Rows, had : 0 .. Len(Statements), at : Moments \cup {NoEnd}]

Unheld(rows) == \A t \in Sessions : rows \cap session[t].held = {}
Becomes(t, s) == session' = [session EXCEPT ![t] = s]

AccessInit ==
  /\ moment = 0
  /\ catalogue \in Catalogues
  /\ contract = NoContract
  /\ exceptions = [m \in Modules |-> NoException]
  /\ session = [t \in Sessions |-> Resting]

(* updateSubscription: it reads the plan, the add-ons and when the          *)
(* subscription started before it locks the row by the upsert.              *)
OnSale == [plans |-> {p \in DOMAIN catalogue.plans : catalogue.plans[p].sold},
           addOns |-> {a \in DOMAIN catalogue.addOns : catalogue.addOns[a].sold}]

StartOf(e) == IF e.starts # NoEnd THEN e.starts
              ELSE IF contract # NoContract THEN contract.starts ELSE moment

PeriodAdmits(starts, e) == e.ends # NoEnd => starts < e.ends

EditBegin(t) ==
  /\ session[t] = Resting
  /\ \E e \in ContractEdits :
       /\ e.plan \in OnSale.plans \cup {NoPlan} /\ DOMAIN e.addOns \subseteq OnSale.addOns
       /\ PeriodAdmits(StartOf(e), e)
       /\ Becomes(t, [op |-> "edit", held |-> {}, edit |-> e, starts |-> StartOf(e)])
  /\ UNCHANGED <<moment, commercialRows>>

(* A new row also needs the organization, by its foreign key.               *)
EditLock(t) ==
  /\ session[t].op = "edit" /\ session[t].held = {}
  /\ Unheld({"contract"} \cup (IF contract = NoContract THEN {"organization"} ELSE {}))
  /\ session' = [session EXCEPT ![t].held = {"contract"}]
  /\ UNCHANGED <<moment, commercialRows>>

EditCommit(t) ==
  /\ session[t].op = "edit" /\ session[t].held # {}
  /\ LET e == session[t].edit IN
       contract' = [status |-> e.status, starts |-> session[t].starts, ends |-> e.ends,
                    plan |-> e.plan, addOns |-> e.addOns]
  /\ Becomes(t, Resting)
  /\ UNCHANGED <<moment, catalogue, exceptions>>

(* upsertEntitlement *)
EditException(m, row) ==
  /\ m \in catalogue.modules
  /\ Unheld(IF exceptions[m] = NoException THEN {"organization"} ELSE {"exceptions"})
  /\ exceptions' = [exceptions EXCEPT ![m] = row]
  /\ UNCHANGED <<moment, catalogue, contract, session>>

(* reconcileCatalogue: the task module's row is the first that it locks.    *)
Over(old, new) == [x \in DOMAIN old \cup DOMAIN new |-> IF x \in DOMAIN new THEN new[x] ELSE old[x]]

Reconcile(c) ==
  /\ Unheld({"module"})
  /\ catalogue' = [modules |-> catalogue.modules \cup c.modules,
                   plans |-> Over(catalogue.plans, c.plans), addOns |-> Over(catalogue.addOns, c.addOns)]
  /\ UNCHANGED <<moment, contract, exceptions, session>>

-----------------------------------------------------------------------------
(* A task command locks the organization, then the rows its entitlement     *)
(* comes from, reads them in four statements and the clock, and writes.     *)

TaskBegin(t) ==
  /\ session[t] = Resting
  /\ Becomes(t, [op |-> "task", held |-> {}, had |-> 0, at |-> NoEnd, seen |-> NothingRead])
  /\ UNCHANGED <<moment, commercialRows>>

TaskOrder == <<"organization", "module", "contract", "exceptions">>

(* Mutant: it locks the organization only.                                  *)
OrganizationOnly(t) == {"organization"} \ session[t].held

(* Only the organization is locked exclusively.                             *)
TaskWants(t) == LET got == Cardinality(session[t].held)
                IN IF got < Len(TaskOrder) THEN {TaskOrder[got + 1]} ELSE {}

Excludes(t, row) == {u \in Sessions \ {t} : /\ row \in session[u].held
                                            /\ row = "organization" \/ session[u].op # "task"}

TaskLock(t) ==
  /\ session[t].op = "task"
  /\ \E row \in TaskWants(t) :
       /\ Excludes(t, row) = {}
       /\ session' = [session EXCEPT ![t].held = @ \cup {row}]
  /\ UNCHANGED <<moment, commercialRows>>

TaskRead(t) ==
  /\ session[t].op = "task" /\ TaskWants(t) = {} /\ session[t].had < Len(Statements)
  /\ LET part == Statements[session[t].had + 1] IN
       session' = [session EXCEPT ![t].had = @ + 1, ![t].seen[part] = Snapshot[part]]
  /\ UNCHANGED <<moment, commercialRows>>

TaskAdmitted(t) ==
  /\ session[t].op = "task" /\ session[t].had = Len(Statements) /\ session[t].at = NoEnd
  /\ TaskModule \in Enabled(session[t].seen, moment)
  /\ session' = [session EXCEPT ![t].at = moment]
  /\ UNCHANGED <<moment, commercialRows>>

(* It commits, is refused or loses its connection: its locks are released.  *)
SessionEnds(t) == session[t] # Resting /\ Becomes(t, Resting) /\ UNCHANGED <<moment, commercialRows>>

TimePasses == moment < MaxMoment /\ moment' = moment + 1 /\ UNCHANGED <<commercialRows, session>>

AccessNext ==
  \/ TimePasses
  \/ \E c \in Catalogues : Reconcile(c)
  \/ \E m \in Modules, row \in ExceptionEdits : EditException(m, row)
  \/ \E t \in Sessions : \/ EditBegin(t) \/ EditLock(t) \/ EditCommit(t)
                         \/ TaskBegin(t) \/ TaskLock(t) \/ TaskRead(t) \/ TaskAdmitted(t)
                         \/ SessionEnds(t)

AccessSpec == AccessInit /\ [][AccessNext]_accessVars

-----------------------------------------------------------------------------
(* Properties.                                                              *)

(* Rows have their columns, and a subscription ends after it starts,        *)
(* although the start was read before the row was locked and an edit that   *)
(* leaves it out was not checked against one when it was parsed.            *)
AccessTypeOK ==
  /\ moment \in Moments
  /\ catalogue.modules \subseteq Modules
  /\ contract # NoContract =>
       /\ contract.status \in Statuses /\ contract.plan \in Plans \cup {NoPlan}
       /\ contract.ends # NoEnd => contract.starts < contract.ends
  /\ \A m \in Modules : exceptions[m] \in ExceptionEdits \cup {NoException}
  /\ \A t \in Sessions :
       /\ session[t].held \subseteq Rows
       /\ session[t].op = "edit" => session[t].starts \in Moments

(* From the clock reading that admitted a task command until it commits,    *)
(* the rows as committed entitle the organization at that reading: neither  *)
(* an edit, a revocation, a suspension nor a new catalogue comes between    *)
(* the four statements of the check, or between it and the write.           *)
WritersAreEntitled ==
  \A t \in Sessions :
    session[t].op = "task" /\ session[t].at # NoEnd
      => TaskModule \in Enabled(Snapshot, session[t].at)

Without(s, a) == [s EXCEPT !.addOns = [b \in DOMAIN s.addOns \ {a} |-> s.addOns[b]]]

(* An add-on never takes anything away, whatever plan and add-ons it is     *)
(* bought with: without it no further module is enabled, and the limit is   *)
(* no higher.                                                               *)
AddOnsOnlyAdd ==
  \A a \in DOMAIN Snapshot.addOns, at \in Moments :
    LET less == Without(Snapshot, a)
    IN Enabled(less, at) \subseteq Enabled(Snapshot, at) /\ Limit(less, at) <= Limit(Snapshot, at)
=============================================================================
