---------------------------- MODULE Memberships -----------------------------
(***************************************************************************)
(* Who belongs to the organizations and projects, and who owns them:       *)
(* OrganizationsService, ProjectMembersService, the creation of projects   *)
(* by ProjectsService, and the checks of AccessService they make.          *)
(*                                                                         *)
(* A request is seen from its first statement on; each further statement   *)
(* is a step, between which the other requests may take theirs, and what   *)
(* it writes is visible to them when it commits.  It may fail at any       *)
(* point, and then leaves no trace.                                        *)
(*                                                                         *)
(* A member row is known by its organization or project and its user:      *)
(* (organizationId, userId) and (projectId, userId) are unique.            *)
(***************************************************************************)
EXTENDS Naturals, FiniteSets, RowLocks

CONSTANTS
  Users,
  Organizations,         \* the ids Organizations can have
  Projects,              \* the ids Projects can have
  Requests,              \* the requests that can be open at the same time
  OrganizationOf         \* OrganizationOf[p]: the organization of Project p

Roles == {"OWNER", "MEMBER"}

MemberKinds == {"addMember", "updateMemberRole", "removeMember"}

RosterKinds == {"add", "updateRole", "remove"}

ProjectKinds == {"create", "duplicate"}

Kinds == MemberKinds \cup RosterKinds \cup ProjectKinds

ASSUME UsersAssumption == IsFiniteSet(Users)

ASSUME OrganizationOfAssumption == OrganizationOf \in [Projects -> Organizations]

ASSUME NoneAssumption ==
  None \notin Users \cup Organizations \cup Projects \cup Requests \cup Roles \cup Kinds

VARIABLES
  memberRole,            \* memberRole[o][u]: the role of u in organization o
  primary,               \* primary[o]: its ownerId; None for an unused id
  projectRole,           \* projectRole[p][u]: the explicit role of u in Project p
  created,               \* the Projects there are
  pc,                    \* pc[r]: the statement request r executes next
  op                     \* op[r]: what r asks for, and what it has found out

tables == <<memberRole, primary, projectRole, created>>

vars == <<memberRole, primary, projectRole, created, pc, op, holder, sharers>>

Op == [kind : Kinds \cup {None},
       actor : Users \cup {None},              \* who asks
       org : Organizations \cup {None},
       proj : Projects \cup {None},
       source : Projects \cup {None},          \* the Project to duplicate
       user : Users \cup {None},               \* whose membership changes
       role : Roles \cup {None},               \* to what; None removes it
       heir : Users \cup {None},               \* the primary owner after user
       listed : SUBSET Projects]               \* the Projects to reauthorize

NoOp == [kind |-> None, actor |-> None, org |-> None, proj |-> None, source |-> None,
         user |-> None, role |-> None, heir |-> None, listed |-> {}]

PCs == {"idle", "checkOwner", "findMember", "listProjects", "authorize",
        "insertMember", "findProjectMember", "insertProject", "commit"}

LockRows == ({"Organization"} \X Organizations) \cup ({"Project"} \X Projects)

-----------------------------------------------------------------------------
(* What the checks read: always what is committed.                         *)

OwnersOf(o) == {u \in Users : memberRole[o][u] = "OWNER"}

ProjectOwnersOf(p) == {u \in Users : projectRole[p][u] = "OWNER"}

ProjectsOf(o) == {p \in created : OrganizationOf[p] = o}

\* Mutant: an explicit membership in the project is enough.
OwnerAuthorityOfMember(u, p) ==
  u \in OwnersOf(OrganizationOf[p]) \/ projectRole[p][u] # None

\* assertProjectMembershipAdmin, assertProjectOwnerAuthority
OwnerAuthority(u, p) == u \in OwnersOf(OrganizationOf[p]) \cup ProjectOwnersOf(p)

-----------------------------------------------------------------------------
(* Transactions.                                                           *)

Goto(r, next) == pc' = [pc EXCEPT ![r] = next]

Proceed(r, next) ==
  /\ Goto(r, next)
  /\ UNCHANGED <<memberRole, primary, projectRole, created, op, holder, sharers>>

End(r) ==
  /\ ReleaseLocks(r)
  /\ Goto(r, "idle")
  /\ op' = [op EXCEPT ![r] = NoOp]

\* Every refusal, and every request that finds nothing to change.
Rollback(r) == End(r) /\ UNCHANGED tables

Start(r, first, request) ==
  /\ pc[r] = "idle"
  /\ Goto(r, first)
  /\ op' = [op EXCEPT ![r] = request]
  /\ UNCHANGED <<memberRole, primary, projectRole, created, sharers>>

-----------------------------------------------------------------------------
(* OrganizationsService.                                                   *)

\* create: one nested write makes the organization and its first OWNER.
CreateOrganization(o, u) ==
  /\ primary[o] = None
  /\ primary' = [primary EXCEPT ![o] = u]
  /\ memberRole' = [memberRole EXCEPT ![o][u] = "OWNER"]
  /\ UNCHANGED <<projectRole, created, pc, op, holder, sharers>>

\* Mutant: the Organization row is read and not locked.
LockOrganizationNot(r, request) ==
  /\ primary[request.org] # None
  /\ Start(r, "checkOwner", request)
  /\ UNCHANGED holder

\* withLockedOrganization
LockOrganization(r, request) ==
  /\ primary[request.org] # None
  /\ Start(r, "checkOwner", request)
  /\ ForUpdate(r, {<<"Organization", request.org>>})

\* addMember always adds a MEMBER; updateMemberRole sets either role.
ChangeMembers(r) ==
  \E o \in Organizations, actor, user \in Users, kind \in MemberKinds :
    \E role \in CASE kind = "addMember" -> {"MEMBER"}
                  [] kind = "updateMemberRole" -> Roles
                  [] kind = "removeMember" -> {None} :
      LockOrganization(r, [NoOp EXCEPT !.kind = kind, !.actor = actor, !.org = o,
                                       !.user = user, !.role = role])

\* assertOrganizationOwner
CheckOwner(r) ==
  /\ pc[r] = "checkOwner"
  /\ IF op[r].actor \in OwnersOf(op[r].org)
     THEN Proceed(r, "findMember")
     ELSE Rollback(r)

\* addMember inserts the row, unless there is one.  updateMemberRole and
\* removeMember need it, and need another OWNER to make primary (whichever has
\* the first row id) when they take the role from one.
FindMember(r) ==
  /\ pc[r] = "findMember"
  /\ LET found == memberRole[op[r].org][op[r].user]
         heirs == OwnersOf(op[r].org) \ {op[r].user}
         next  == IF op[r].kind = "removeMember" THEN "listProjects" ELSE "commit"
     IN  \/ /\ IF op[r].kind = "addMember" THEN found = None
               ELSE found = "MEMBER" /\ op[r].role # "MEMBER"
            /\ Proceed(r, next)
         \/ /\ op[r].kind # "addMember" /\ found = "OWNER" /\ op[r].role # "OWNER"
            /\ \E heir \in heirs : op' = [op EXCEPT ![r].heir = heir]
            /\ Goto(r, next)
            /\ UNCHANGED <<memberRole, primary, projectRole, created, holder, sharers>>
         \/ /\ \/ IF op[r].kind = "addMember" THEN found # None
                  ELSE found \in {None, op[r].role}
               \/ found = "OWNER" /\ heirs = {}
            /\ Rollback(r)

\* removeMember: the Projects whose rooms are reauthorized after the commit.
ListProjects(r) ==
  /\ pc[r] = "listProjects"
  /\ op' = [op EXCEPT ![r].listed = ProjectsOf(op[r].org)]
  /\ Goto(r, "commit")
  /\ UNCHANGED <<memberRole, primary, projectRole, created, holder, sharers>>

\* Mutant: the primary owner stays the one whose role is taken.
PrimaryKept(r) == primary

\* reassignPrimaryOwnerIfNeeded
Reassigned(r) ==
  IF op[r].heir # None /\ primary[op[r].org] = op[r].user
  THEN [primary EXCEPT ![op[r].org] = op[r].heir]
  ELSE primary

CommitMember(r) ==
  /\ pc[r] = "commit" /\ op[r].kind \in MemberKinds
  /\ memberRole' = [memberRole EXCEPT ![op[r].org][op[r].user] = op[r].role]
  /\ primary' = Reassigned(r)
  /\ End(r)
  /\ UNCHANGED <<projectRole, created>>

-----------------------------------------------------------------------------
(* ProjectMembersService.                                                  *)

\* Mutant: the Project row is read and not locked.
LockProjectNot(r, request, p) ==
  /\ p \in created
  /\ Start(r, "authorize", request)
  /\ UNCHANGED holder

\* Mutant: a Project that is not there counts as locked.
LockProjectUnseen(r, request, p) ==
  /\ Start(r, "authorize", request)
  /\ ForUpdate(r, {<<"Project", p>>})

\* withLockedProject, lockProject
LockProject(r, request, p) ==
  /\ p \in created
  /\ Start(r, "authorize", request)
  /\ ForUpdate(r, {<<"Project", p>>})

ChangeRoster(r) ==
  \E p \in Projects, actor, user \in Users, kind \in RosterKinds :
    \E role \in IF kind = "remove" THEN {None} ELSE Roles :
      LockProject(r, [NoOp EXCEPT !.kind = kind, !.actor = actor, !.proj = p,
                                  !.user = user, !.role = role], p)

\* Whoever has owner authority, and in remove also the member itself.
Authorize(r) ==
  /\ pc[r] = "authorize"
  /\ LET p == IF op[r].kind = "duplicate" THEN op[r].source ELSE op[r].proj
     IN  IF \/ OwnerAuthority(op[r].actor, p)
            \/ op[r].kind = "remove" /\ op[r].user = op[r].actor
         THEN Proceed(r, CASE op[r].kind = "add" -> "insertMember"
                           [] op[r].kind = "duplicate" -> "insertProject"
                           [] OTHER -> "findProjectMember")
         ELSE Rollback(r)

\* add: assertProspectiveProjectMember, and no second row for a user.
InsertMember(r) ==
  /\ pc[r] = "insertMember"
  /\ IF /\ memberRole[OrganizationOf[op[r].proj]][op[r].user] # None
        /\ projectRole[op[r].proj][op[r].user] = None
     THEN Proceed(r, "commit")
     ELSE Rollback(r)

\* updateRole and remove: the row is there and changes, and it is not that of
\* the last OWNER (assertAnotherOwnerExists).
FindProjectMember(r) ==
  /\ pc[r] = "findProjectMember"
  /\ LET found == projectRole[op[r].proj][op[r].user]
     IN  IF \/ found \in {None, op[r].role}
            \/ found = "OWNER" /\ Cardinality(ProjectOwnersOf(op[r].proj)) <= 1
         THEN Rollback(r)
         ELSE Proceed(r, "commit")

CommitRoster(r) ==
  /\ pc[r] = "commit" /\ op[r].kind \in RosterKinds
  /\ projectRole' = [projectRole EXCEPT ![op[r].proj][op[r].user] = op[r].role]
  /\ End(r)
  /\ UNCHANGED <<memberRole, primary, created>>

-----------------------------------------------------------------------------
(* ProjectsService.                                                        *)

Fresh(p) == p \notin created /\ \A q \in Requests : op[q].proj # p

\* create: assertOrganizationMember, before the transaction begins.
CreateProject(r) ==
  \E p \in Projects, actor \in Users :
    /\ Fresh(p)
    /\ memberRole[OrganizationOf[p]][actor] # None
    /\ Start(r, "insertProject", [NoOp EXCEPT !.kind = "create", !.actor = actor, !.proj = p])
    /\ UNCHANGED holder

DuplicateProject(r) ==
  \E p, source \in Projects, actor \in Users :
    /\ Fresh(p) /\ OrganizationOf[p] = OrganizationOf[source]
    /\ LockProject(r, [NoOp EXCEPT !.kind = "duplicate", !.actor = actor,
                                   !.proj = p, !.source = source], source)

\* Mutant: no foreign key from Project to Organization.
InsertProjectUnreferenced(r) == pc[r] = "insertProject" /\ Proceed(r, "commit")

\* INSERT: the foreign key check locks the Organization row against deletion,
\* and so against withLockedOrganization.
InsertProject(r) ==
  /\ pc[r] = "insertProject"
  /\ KeyShare(r, {<<"Organization", OrganizationOf[op[r].proj]>>})
  /\ Goto(r, "commit")
  /\ UNCHANGED <<memberRole, primary, projectRole, created, op, holder>>

\* The Project, with its creator as OWNER.
CommitProject(r) ==
  /\ pc[r] = "commit" /\ op[r].kind \in ProjectKinds
  /\ created' = created \cup {op[r].proj}
  /\ projectRole' = [projectRole EXCEPT ![op[r].proj][op[r].actor] = "OWNER"]
  /\ End(r)
  /\ UNCHANGED <<memberRole, primary>>

-----------------------------------------------------------------------------
\* A lost connection, a timeout, a crash.
Fail(r) == pc[r] # "idle" /\ Rollback(r)

Init ==
  /\ memberRole = [o \in Organizations |-> [u \in Users |-> None]]
  /\ primary = [o \in Organizations |-> None]
  /\ projectRole = [p \in Projects |-> [u \in Users |-> None]]
  /\ created = {}
  /\ pc = [r \in Requests |-> "idle"]
  /\ op = [r \in Requests |-> NoOp]
  /\ LocksInit(LockRows)

Next ==
  \/ \E o \in Organizations, u \in Users : CreateOrganization(o, u)
  \/ \E r \in Requests :
       \/ ChangeMembers(r)
       \/ CheckOwner(r)
       \/ FindMember(r)
       \/ ListProjects(r)
       \/ CommitMember(r)
       \/ ChangeRoster(r)
       \/ Authorize(r)
       \/ InsertMember(r)
       \/ FindProjectMember(r)
       \/ CommitRoster(r)
       \/ CreateProject(r)
       \/ DuplicateProject(r)
       \/ InsertProject(r)
       \/ CommitProject(r)
       \/ Fail(r)

Spec == Init /\ [][Next]_vars

-----------------------------------------------------------------------------
TypeOK ==
  /\ memberRole \in [Organizations -> [Users -> Roles \cup {None}]]
  /\ primary \in [Organizations -> Users \cup {None}]
  /\ projectRole \in [Projects -> [Users -> Roles \cup {None}]]
  /\ created \subseteq Projects
  /\ \A p \in Projects \ created, u \in Users : projectRole[p][u] = None
  /\ pc \in [Requests -> PCs]
  /\ op \in [Requests -> Op]
  /\ LocksTypeOK(LockRows, Requests)

\* An organization always has an OWNER, and its ownerId names one: OWNERs that
\* demote or remove each other or themselves at the same time never leave it
\* without (docs/organizations.md, Transactions and owner invariant).
PrimaryIsOwner ==
  \A o \in Organizations : primary[o] # None => primary[o] \in OwnersOf(o)

\* A project always has an explicit OWNER, whatever runs at the same time (the
\* last-owner rule of docs/project-membership.md).
EveryProjectHasOwner ==
  \A p \in created : ProjectOwnersOf(p) # {}

\* The members of an organization are changed only by someone who is its OWNER
\* at that very moment, not merely when the request was checked.
OwnersChangeMembers ==
  [][\A o \in Organizations :
       memberRole'[o] # memberRole[o] /\ primary[o] # None
       => \E r \in Requests : /\ op[r].org = o /\ op'[r] # op[r]
                              /\ op[r].actor \in OwnersOf(o)]_vars

\* When the removal of an organization member commits, the list of Projects
\* that are reauthorized next has every Project of the organization, those
\* that were being created meanwhile included: nobody stays in a room because
\* the list was read too early.
RemovalCoversProjects ==
  [][\A r \in Requests :
       op[r].kind = "removeMember" /\ memberRole' # memberRole /\ op'[r] # op[r]
       => ProjectsOf(op[r].org) \subseteq op[r].listed]_vars
=============================================================================
