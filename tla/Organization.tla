----------------------------- MODULE Organization -----------------------------
(***************************************************************************)
(* Administration of one organization: branches, custom roles, members and *)
(* the invitations that make members.  Every command first locks the       *)
(* organization's row and then re-reads what it checks, its actor's        *)
(* authority included, so a command is one step here.  A request names the *)
(* version its screen showed and is refused if that is old: any client may *)
(* have the newest, so what is left to say of versions is nothing.         *)
(***************************************************************************)
EXTENDS Tenant, FiniteSets

CONSTANTS
  Roles,        \* custom roles
  Grants        \* permission sets an administrator gives a custom role

VARIABLES branches, roles, members, invitations
orgVars == <<branches, roles, members, invitations>>

Permissions == {"staff", "roles", "branches", "crm"}

ASSUME OrganizationAssumption == Grants \subseteq SUBSET Permissions

BuiltIn == [owner |-> Permissions, admin |-> Permissions, manager |-> {"crm"}]

(* What a member is: a built-in role, replaced by a custom one if there is. *)
Assignments ==
  {[role |-> r, custom |-> {}] : r \in {"admin", "manager"}}
    \cup {[role |-> "manager", custom |-> {r}] : r \in Roles}

OwnerAssignment == [role |-> "owner", custom |-> {}]

BranchRow == {"none", "active", "inactive"}
RoleRow == [status : {"none", "active", "archived"}, grant : SUBSET Permissions]
MemberRow == [status : {"none", "active", "inactive"}, as : Assignments \cup {OwnerAssignment}, at : SUBSET Branches]
InvitationRow == [live : BOOLEAN, issuer : People, as : Assignments, at : SUBSET Branches]

NoMember == [status |-> "none", as |-> [role |-> "manager", custom |-> {}], at |-> {}]
NoInvitation == [live |-> FALSE, issuer |-> Owner, as |-> NoMember.as, at |-> {}]

(***************************************************************************)
(* Authority                                                               *)
(***************************************************************************)
(* The permissions of an assignment, and what an administrator may still   *)
(* assign: an archived role gives nothing and cannot be assigned.          *)
GrantOf(rs, as) ==
  IF as.custom = {} THEN BuiltIn[as.role]
  ELSE UNION {rs[r].grant : r \in {x \in as.custom : rs[x].status = "active"}}

Assignable(rs, as) == \A r \in as.custom : rs[r].status = "active"

Authority(rs, ms, p) == IF ms[p].status = "active" THEN GrantOf(rs, ms[p].as) ELSE {}

Holds(p, permission) == permission \in Authority(roles, members, p)
MayGrant(p, grant) == grant \subseteq Authority(roles, members, p)

ActiveBranches == {b \in Branches : branches[b] = "active"}

Usable(at) == at # {} /\ at \subseteq ActiveBranches

(* Its last usable branch: a member who works nowhere else.                 *)
Strands(b) ==
  \E p \in People : members[p].status = "active" /\ b \in members[p].at
    /\ members[p].at \cap ActiveBranches \subseteq {b}

(***************************************************************************)
(* Commands                                                                *)
(***************************************************************************)
BranchCmd == [actor : People, branch : Branches, status : {"active", "inactive"}]
RoleCmd == [actor : People, role : Roles, grant : Grants, status : {"active", "archived"}]
MemberCmd == [actor : People, member : People, as : Assignments \cup {OwnerAssignment},
              status : {"active", "inactive"}, at : SUBSET Branches]
InviteCmd == [actor : People, phone : People, as : Assignments, at : SUBSET Branches]
WithdrawCmd == [actor : People, phone : People]

OrganizationInit ==
  /\ branches = [b \in Branches |-> "none"] /\ members = [p \in People |-> NoMember]
  /\ roles = [r \in Roles |-> [status |-> "none", grant |-> {}]]
  /\ invitations = [p \in People |-> NoInvitation]

Onboarded == \E b \in Branches : branches[b] # "none"

(* Onboarding makes the organization, with its owner in one active branch.  *)
Onboard(b) ==
  /\ ~Onboarded /\ branches' = [branches EXCEPT ![b] = "active"]
  /\ members' = [members EXCEPT ![Owner] = [status |-> "active", as |-> OwnerAssignment, at |-> {b}]]
  /\ UNCHANGED <<roles, invitations>>

(* Mutant: closing a branch forgets the members who work nowhere else.      *)
DeactivatesAnyButLast(b) == ActiveBranches # {b}
MayDeactivate(b) == ActiveBranches # {b} /\ ~Strands(b)

SaveBranch(c) ==
  /\ Holds(c.actor, "branches")
  /\ branches[c.branch] = "active" /\ c.status = "inactive" => MayDeactivate(c.branch)
  /\ branches' = [branches EXCEPT ![c.branch] = c.status]
  /\ UNCHANGED <<roles, members, invitations>>

RoleInUse(r) ==
  \/ \E p \in People : members[p].status # "none" /\ r \in members[p].as.custom
  \/ \E p \in People : invitations[p].live /\ r \in invitations[p].as.custom

MayArchive(r) == ~RoleInUse(r)

SaveRole(c) ==
  /\ Holds(c.actor, "roles") /\ MayGrant(c.actor, c.grant)
  /\ IF roles[c.role].status = "none" THEN c.status = "active"
     ELSE /\ c.status = "archived" => MayArchive(c.role)
          /\ c.role \notin members[c.actor].as.custom
  /\ roles' = [roles EXCEPT ![c.role] = [status |-> c.status, grant |-> c.grant]]
  /\ UNCHANGED <<branches, members, invitations>>

(* Owners and actors keep what they are, nobody becomes an owner, and the  *)
(* actor must hold both what the member had and what it gets.              *)
MayAssign(c, old) ==
  /\ old.as.role = "owner" \/ c.member = c.actor => c.as = old.as /\ c.status = old.status
  /\ c.as.role = "owner" => old.as.role = "owner"
  /\ Assignable(roles, old.as) /\ MayGrant(c.actor, GrantOf(roles, old.as))
  /\ Assignable(roles, c.as) /\ MayGrant(c.actor, GrantOf(roles, c.as))

SaveMember(c) ==
  LET old == members[c.member] IN
  /\ Holds(c.actor, "staff") /\ old.status # "none"
  /\ MayAssign(c, old) /\ Usable(c.at)
  /\ members' = [members EXCEPT ![c.member] = [status |-> c.status, as |-> c.as, at |-> c.at]]
  /\ UNCHANGED <<branches, roles, invitations>>

(* One live invitation per phone: a new one replaces it.                    *)
CreateInvitation(c) ==
  /\ Holds(c.actor, "staff") /\ Assignable(roles, c.as) /\ MayGrant(c.actor, GrantOf(roles, c.as))
  /\ members[c.phone].status = "none" /\ Usable(c.at)
  /\ invitations' = [invitations EXCEPT ![c.phone] =
       [live |-> TRUE, issuer |-> c.actor, as |-> c.as, at |-> c.at]]
  /\ UNCHANGED <<branches, roles, members>>

RevokeInvitation(c) ==
  /\ Holds(c.actor, "staff") /\ invitations[c.phone].live
  /\ invitations' = [invitations EXCEPT ![c.phone] = NoInvitation]
  /\ UNCHANGED <<branches, roles, members>>

(* Mutant: the issuer's authority is not looked at again.                   *)
GrantedWhenIssued(i) == Assignable(roles, i.as)
(* The issuer's authority is read again when the invitation is accepted.    *)
StillGranted(i) ==
  /\ Holds(i.issuer, "staff") /\ Assignable(roles, i.as) /\ MayGrant(i.issuer, GrantOf(roles, i.as))

AcceptInvitation(p) ==
  LET i == invitations[p] IN
  /\ i.live /\ StillGranted(i) /\ Usable(i.at) /\ members[p].status = "none"
  /\ members' = [members EXCEPT ![p] = [status |-> "active", as |-> i.as, at |-> i.at]]
  /\ invitations' = [invitations EXCEPT ![p] = NoInvitation]
  /\ UNCHANGED <<branches, roles>>

(* An invitation lapses 48 hours after it was sent.                         *)
InvitationLapses(p) ==
  /\ invitations[p].live /\ invitations' = [invitations EXCEPT ![p] = NoInvitation]
  /\ UNCHANGED <<branches, roles, members>>

OrganizationNext ==
  \/ \E b \in Branches : Onboard(b)
  \/ \E c \in BranchCmd : SaveBranch(c)
  \/ \E c \in RoleCmd : SaveRole(c)
  \/ \E c \in MemberCmd : SaveMember(c)
  \/ \E c \in InviteCmd : CreateInvitation(c)
  \/ \E c \in WithdrawCmd : RevokeInvitation(c)
  \/ \E p \in People : AcceptInvitation(p) \/ InvitationLapses(p)

OrganizationSpec == OrganizationInit /\ [][OrganizationNext]_orgVars

(***************************************************************************)
(* Properties                                                              *)
(***************************************************************************)
(* Rows have their columns, and the organization keeps its one owner.      *)
OrganizationTypeOK ==
  /\ \A p \in People : members[p].as.role = "owner" => p = Owner
  /\ Onboarded => members[Owner].status = "active" /\ members[Owner].as = OwnerAssignment
  /\ branches \in [Branches -> BranchRow] /\ roles \in [Roles -> RoleRow]
  /\ members \in [People -> MemberRow] /\ invitations \in [People -> InvitationRow]

(* Whoever is an active member has an active branch to work in, whatever   *)
(* branch is closed while members are moved and invitations accepted.      *)
NobodyStranded ==
  \A p \in People : members[p].status = "active" => members[p].at \cap ActiveBranches # {}

(* No member, past ones included, and no live invitation refers to an      *)
(* archived role: un-archiving a role cannot bring authority back.         *)
ArchivedRolesUnused ==
  \A r \in Roles : roles[r].status = "archived" => ~RoleInUse(r)

(* Nobody gains a permission that the one who gave it did not hold when it *)
(* was given; who accepts an invitation has it from its issuer.            *)
Gained(p) == Authority(roles', members', p) \ Authority(roles, members, p)

GrantsAreHeld ==
  [][\A p \in People : Gained(p) # {} =>
       /\ \A c \in RoleCmd : SaveRole(c) => MayGrant(c.actor, Gained(p))
       /\ \A c \in MemberCmd : SaveMember(c) => MayGrant(c.actor, Gained(p))
       /\ AcceptInvitation(p) => MayGrant(invitations[p].issuer, Gained(p))]_orgVars
=============================================================================
