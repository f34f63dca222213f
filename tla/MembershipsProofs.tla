------------------------- MODULE MembershipsProofs --------------------------
(***************************************************************************)
(* Proofs about Memberships: organizations and projects are never without  *)
(* an OWNER, for any number of users, organizations, projects and          *)
(* requests.  The argument is mutual exclusion: between the statement that *)
(* finds another OWNER and the commit that takes the role from one, the    *)
(* row lock keeps every other request away from that roster.               *)
(***************************************************************************)
EXTENDS MembershipsHistory, FiniteSetTheorems, TLAPS

\* A change of organization members has the Organization row, and what it has
\* found there stays so.
MemberInv(r) ==
  op[r].kind \in MemberKinds =>
    /\ op[r].org \in Organizations /\ op[r].actor \in Users /\ op[r].user \in Users
    /\ primary[op[r].org] # None
    /\ holder[<<"Organization", op[r].org>>] = r
    /\ pc[r] \in {"checkOwner", "findMember", "listProjects", "commit"}
    /\ pc[r] # "checkOwner" => op[r].actor \in OwnersOf(op[r].org)
    /\ op[r].heir # None => op[r].heir \in OwnersOf(op[r].org) \ {op[r].user}
    /\ pc[r] \in {"listProjects", "commit"} /\ memberRole[op[r].org][op[r].user] = "OWNER"
         => op[r].role = "OWNER" \/ op[r].heir # None
    /\ pc[r] = "commit" /\ op[r].kind = "removeMember"
         => ProjectsOf(op[r].org) \subseteq op[r].listed

\* A change of a project's roster has the Project row, and what it has found
\* there stays so.
RosterInv(r) ==
  op[r].kind \in RosterKinds =>
    /\ op[r].proj \in created /\ op[r].actor \in Users /\ op[r].user \in Users
    /\ holder[<<"Project", op[r].proj>>] = r
    /\ pc[r] \in {"authorize", "insertMember", "findProjectMember", "commit"}
    /\ pc[r] = "insertMember" => op[r].kind = "add"
    /\ pc[r] = "commit" /\ projectRole[op[r].proj][op[r].user] = "OWNER"
         => op[r].role = "OWNER" \/ ProjectOwnersOf(op[r].proj) \ {op[r].user} # {}

\* A new Project is nobody else's, and refers to its Organization row.
ProjectInv(r) ==
  op[r].kind \in ProjectKinds =>
    /\ op[r].proj \in Projects \ created /\ op[r].actor \in Users
    /\ \A q \in Requests \ {r} : op[q].proj # op[r].proj
    /\ pc[r] \in {"authorize", "insertProject", "commit"}
    /\ pc[r] = "authorize" => op[r].kind = "duplicate"
    /\ pc[r] = "commit" => r \in sharers[<<"Organization", OrganizationOf[op[r].proj]>>]

RequestInv(r) ==
  /\ op[r].kind = None <=> pc[r] = "idle"
  /\ MemberInv(r)
  /\ RosterInv(r)
  /\ ProjectInv(r)

\* Whoever has a row FOR UPDATE shares it with nobody else.
Exclusive == \A x \in LockRows : holder[x] # None => sharers[x] \subseteq {holder[x]}

IInv ==
  /\ TypeOK
  /\ Exclusive
  /\ \A r \in Requests : RequestInv(r)
  /\ PrimaryIsOwner
  /\ EveryProjectHasOwner

-----------------------------------------------------------------------------
(* Locks.                                                                  *)

\* FOR UPDATE takes nothing from the others and excludes them.
LEMMA ForUpdateKeeps ==
  ASSUME TypeOK, Exclusive, NEW r \in Requests, NEW X \in SUBSET LockRows,
         ForUpdate(r, X), UNCHANGED sharers
  PROVE  /\ LocksTypeOK(LockRows, Requests)' /\ Exclusive'
         /\ \A x \in LockRows, q \in Requests : holder[x] = q => holder'[x] = q
         /\ \A x \in X : holder'[x] = r
BY NoneAssumption DEF ForUpdate, CanForUpdate, TypeOK, LocksTypeOK, Exclusive

\* FOR KEY SHARE takes nothing from the others and respects FOR UPDATE.
LEMMA KeyShareKeeps ==
  ASSUME TypeOK, Exclusive, NEW r \in Requests, NEW X \in SUBSET LockRows,
         KeyShare(r, X), UNCHANGED holder
  PROVE  /\ LocksTypeOK(LockRows, Requests)' /\ Exclusive'
         /\ \A x \in LockRows : sharers[x] \subseteq sharers'[x]
         /\ \A x \in X : r \in sharers'[x]
BY NoneAssumption DEF KeyShare, CanKeyShare, TypeOK, LocksTypeOK, Exclusive

\* A request that ends gives up its own locks only.
LEMMA ReleaseKeeps ==
  ASSUME TypeOK, Exclusive, NEW r \in Requests, ReleaseLocks(r)
  PROVE  /\ LocksTypeOK(LockRows, Requests)' /\ Exclusive'
         /\ \A x \in LockRows, q \in Requests \ {r} :
              /\ holder[x] = q => holder'[x] = q
              /\ q \in sharers[x] => q \in sharers'[x]
BY NoneAssumption DEF ReleaseLocks, TypeOK, LocksTypeOK, Exclusive

\* The rows the requests lock.
LEMMA Rows ==
  /\ \A o \in Organizations : <<"Organization", o>> \in LockRows
  /\ \A p \in Projects : <<"Project", p>> \in LockRows
BY DEF LockRows

\* A request that nobody disturbs keeps its part of the invariant.
LEMMA OthersKeep ==
  ASSUME IInv, NEW r \in Requests, NEW q \in Requests \ {r},
         UNCHANGED tables, pc'[q] = pc[q], op'[q] = op[q],
         \A x \in LockRows : holder[x] = q => holder'[x] = q,
         \A x \in LockRows : q \in sharers[x] => q \in sharers'[x],
         \A s \in Requests \ {q, r} : op'[s] = op[s],
         op[q].kind \in ProjectKinds => op'[r].proj # op[q].proj
  PROVE  RequestInv(q)'
<1>1. RequestInv(q)
  BY DEF IInv
<1>2. MemberInv(q)'
  BY <1>1, Rows DEF RequestInv, MemberInv, OwnersOf, ProjectsOf, tables
<1>3. RosterInv(q)'
  <2>1. created \subseteq Projects
    BY DEF IInv, TypeOK
  <2> QED
    BY <1>1, <2>1, Rows DEF RequestInv, RosterInv, ProjectOwnersOf, tables
<1>4. ProjectInv(q)'
  <2> SUFFICES ASSUME op[q].kind \in ProjectKinds
               PROVE  ProjectInv(q)'
    BY DEF ProjectInv
  <2>1. OrganizationOf[op[q].proj] \in Organizations
    BY <1>1, OrganizationOfAssumption DEF RequestInv, ProjectInv
  <2> QED
    BY <1>1, <2>1, Rows DEF RequestInv, ProjectInv, tables
<1> QED
  BY <1>1, <1>2, <1>3, <1>4 DEF RequestInv

\* A step of r that leaves the tables alone.
LEMMA QuietInv ==
  ASSUME IInv, NEW r \in Requests, UNCHANGED tables, TypeOK', Exclusive', RequestInv(r)',
         \A q \in Requests \ {r} : pc'[q] = pc[q] /\ op'[q] = op[q],
         \A x \in LockRows, q \in Requests \ {r} :
           /\ holder[x] = q => holder'[x] = q
           /\ q \in sharers[x] => q \in sharers'[x],
         \A q \in Requests \ {r} : op[q].kind \in ProjectKinds => op'[r].proj # op[q].proj
  PROVE  IInv'
<1>1. ASSUME NEW q \in Requests \ {r} PROVE RequestInv(q)'
  <2>1. /\ \A x \in LockRows : holder[x] = q => holder'[x] = q
        /\ \A x \in LockRows : q \in sharers[x] => q \in sharers'[x]
        /\ \A s \in Requests \ {q, r} : op'[s] = op[s]
        /\ op[q].kind \in ProjectKinds => op'[r].proj # op[q].proj
        /\ pc'[q] = pc[q] /\ op'[q] = op[q]
    OBVIOUS
  <2> QED
    BY <2>1, OthersKeep
<1>2. PrimaryIsOwner' /\ EveryProjectHasOwner'
  BY DEF IInv, PrimaryIsOwner, EveryProjectHasOwner, OwnersOf, ProjectOwnersOf, tables
<1> QED
  BY <1>1, <1>2 DEF IInv

\* The empty request is a request.
LEMMA NoOpIsOp ==
  /\ NoOp \in Op /\ NoOp.kind = None /\ NoOp.proj = None
  /\ None \notin MemberKinds \cup RosterKinds \cup ProjectKinds
BY NoneAssumption DEF NoOp, Op, Kinds, MemberKinds, RosterKinds, ProjectKinds

\* The three kinds of requests have nothing in common.
LEMMA KindsDiffer ==
  /\ MemberKinds \cap RosterKinds = {}
  /\ MemberKinds \cap ProjectKinds = {}
  /\ RosterKinds \cap ProjectKinds = {}
BY DEF MemberKinds, RosterKinds, ProjectKinds

\* A request that ends has its part of the invariant.
LEMMA EndInv ==
  ASSUME IInv, NEW r \in Requests, End(r)
  PROVE  /\ pc' \in [Requests -> PCs] /\ op' \in [Requests -> Op]
         /\ LocksTypeOK(LockRows, Requests)' /\ Exclusive' /\ RequestInv(r)'
         /\ op'[r] = NoOp
         /\ \A q \in Requests \ {r} : pc'[q] = pc[q] /\ op'[q] = op[q]
         /\ \A x \in LockRows, q \in Requests \ {r} :
              /\ holder[x] = q => holder'[x] = q
              /\ q \in sharers[x] => q \in sharers'[x]
<1>1. TypeOK /\ Exclusive
  BY DEF IInv
<1>2. pc \in [Requests -> PCs] /\ op \in [Requests -> Op]
  BY <1>1 DEF TypeOK
<1>3. /\ pc' = [pc EXCEPT ![r] = "idle"]
      /\ op' = [op EXCEPT ![r] = NoOp]
      /\ ReleaseLocks(r)
  BY DEF End, Goto
<1>4. /\ op'[r] = NoOp /\ pc'[r] = "idle"
      /\ pc' \in [Requests -> PCs] /\ op' \in [Requests -> Op]
      /\ \A q \in Requests \ {r} : pc'[q] = pc[q] /\ op'[q] = op[q]
  BY <1>2, <1>3, NoOpIsOp DEF PCs
<1>5. RequestInv(r)'
  BY <1>4, NoOpIsOp DEF RequestInv, MemberInv, RosterInv, ProjectInv
<1> QED
  BY <1>1, <1>3, <1>4, <1>5, ReleaseKeeps

\* A request that fails changes nothing for the others.
LEMMA RollbackInv ==
  ASSUME IInv, NEW r \in Requests, Rollback(r)
  PROVE  IInv'
<1>1. UNCHANGED tables /\ End(r)
  BY DEF Rollback
<1>2. TypeOK'
  BY <1>1, EndInv DEF IInv, TypeOK, tables
<1>3. op'[r].proj = None
  BY <1>1, EndInv, NoOpIsOp
<1>4. \A q \in Requests : op[q].kind \in ProjectKinds => op[q].proj \in Projects
  BY DEF IInv, RequestInv, ProjectInv
<1>5. None \notin Projects
  BY NoneAssumption
<1>6. \A q \in Requests \ {r} : op[q].kind \in ProjectKinds => op'[r].proj # op[q].proj
  BY <1>3, <1>4, <1>5
<1> QED
  BY <1>1, <1>2, <1>6, EndInv, QuietInv

\* A request starts, and takes the row X if any.
LEMMA StartInv ==
  ASSUME IInv, NEW r \in Requests, NEW first \in PCs, NEW request \in Op,
         Start(r, first, request), RequestInv(r)',
         LocksTypeOK(LockRows, Requests)', Exclusive',
         \A x \in LockRows, q \in Requests : holder[x] = q => holder'[x] = q,
         \A q \in Requests \ {r} : op[q].kind \in ProjectKinds => request.proj # op[q].proj
  PROVE  IInv'
<1>1. pc \in [Requests -> PCs] /\ op \in [Requests -> Op]
  BY DEF IInv, TypeOK
<1>2. /\ pc' = [pc EXCEPT ![r] = first] /\ op' = [op EXCEPT ![r] = request]
      /\ UNCHANGED tables /\ UNCHANGED sharers
  BY DEF Start, Goto, tables
<1>3. TypeOK'
  BY <1>1, <1>2 DEF IInv, TypeOK, tables
<1>4. /\ \A q \in Requests \ {r} : pc'[q] = pc[q] /\ op'[q] = op[q]
      /\ op'[r] = request
  BY <1>1, <1>2
<1>5. \A x \in LockRows, q \in Requests \ {r} :
        /\ holder[x] = q => holder'[x] = q
        /\ q \in sharers[x] => q \in sharers'[x]
  BY <1>2
<1> QED
  BY <1>2, <1>3, <1>4, <1>5, QuietInv

\* A statement that writes nothing and takes no lock.
LEMMA ProceedInv ==
  ASSUME IInv, NEW r \in Requests, NEW next \in PCs, next # "idle", pc[r] # "idle",
         Proceed(r, next), MemberInv(r)', RosterInv(r)', ProjectInv(r)'
  PROVE  IInv'
<1>1. pc \in [Requests -> PCs] /\ op \in [Requests -> Op]
  BY DEF IInv, TypeOK
<1>2. /\ pc' = [pc EXCEPT ![r] = next]
      /\ UNCHANGED tables /\ UNCHANGED <<op, holder, sharers>>
  BY DEF Proceed, Goto, tables
<1>3. TypeOK' /\ Exclusive'
  BY <1>1, <1>2 DEF IInv, TypeOK, LocksTypeOK, Exclusive, tables
<1>4. \A q \in Requests \ {r} : pc'[q] = pc[q] /\ op'[q] = op[q]
  BY <1>1, <1>2
<1>5. RequestInv(r)'
  <2>1. op[r].kind # None /\ op'[r].kind = op[r].kind /\ pc'[r] = next
    BY <1>1, <1>2 DEF IInv, RequestInv
  <2> QED
    BY <2>1 DEF RequestInv
<1>6. \A q \in Requests \ {r} : op[q].kind \in ProjectKinds => op'[r].proj # op[q].proj
  BY <1>2 DEF IInv, RequestInv, ProjectInv
<1>7. \A x \in LockRows, q \in Requests \ {r} :
        /\ holder[x] = q => holder'[x] = q
        /\ q \in sharers[x] => q \in sharers'[x]
  BY <1>2
<1> QED
  BY <1>2, <1>3, <1>4, <1>5, <1>6, <1>7, QuietInv

-----------------------------------------------------------------------------
(* OrganizationsService.                                                   *)

\* A new organization is owned by its creator; no open request knows it.
LEMMA CreateOrganizationInv ==
  ASSUME IInv, NEW o \in Organizations, NEW u \in Users, CreateOrganization(o, u)
  PROVE  IInv'
<1>1. /\ primary' = [primary EXCEPT ![o] = u]
      /\ memberRole' = [memberRole EXCEPT ![o][u] = "OWNER"]
      /\ UNCHANGED <<projectRole, created, pc, op, holder, sharers>>
      /\ primary[o] = None
  BY DEF CreateOrganization
<1>2. TypeOK
  BY DEF IInv
<1>3. TypeOK'
  BY <1>1, <1>2 DEF TypeOK, LocksTypeOK, Roles
<1>4. \A x \in Organizations \ {o} : primary'[x] = primary[x] /\ memberRole'[x] = memberRole[x]
  BY <1>1, <1>2 DEF TypeOK
<1>5. primary'[o] = u /\ memberRole'[o][u] = "OWNER"
  BY <1>1, <1>2 DEF TypeOK
<1>6. PrimaryIsOwner'
  BY <1>4, <1>5 DEF IInv, PrimaryIsOwner, OwnersOf
<1>7. EveryProjectHasOwner' /\ Exclusive'
  BY <1>1 DEF IInv, EveryProjectHasOwner, ProjectOwnersOf, Exclusive
<1>8. ASSUME NEW q \in Requests PROVE RequestInv(q)'
  <2>1. RequestInv(q)
    BY DEF IInv
  <2>2. MemberInv(q)'
    <3> SUFFICES ASSUME op[q].kind \in MemberKinds
                 PROVE  MemberInv(q)'
      BY <1>1 DEF MemberInv
    <3>1. op[q].org \in Organizations \ {o}
      BY <1>1, <2>1 DEF RequestInv, MemberInv
    <3>2. /\ primary'[op[q].org] = primary[op[q].org]
          /\ memberRole'[op[q].org] = memberRole[op[q].org]
      BY <3>1, <1>4
    <3> QED
      BY <2>1, <3>2, <1>1 DEF RequestInv, MemberInv, OwnersOf, ProjectsOf
  <2> QED
    BY <2>1, <2>2, <1>1 DEF RequestInv, RosterInv, ProjectInv, ProjectOwnersOf
<1> QED
  BY <1>3, <1>6, <1>7, <1>8 DEF IInv

\* A change of members starts with the Organization's lock.
LEMMA ChangeMembersInv ==
  ASSUME IInv, NEW r \in Requests, ChangeMembers(r)
  PROVE  IInv'
<1>1. PICK o \in Organizations, actor \in Users, user \in Users, kind \in MemberKinds,
           role \in Roles \cup {None} :
        LockOrganization(r, [NoOp EXCEPT !.kind = kind, !.actor = actor, !.org = o,
                                         !.user = user, !.role = role])
  BY DEF ChangeMembers, MemberKinds, Roles
<1> DEFINE request == [NoOp EXCEPT !.kind = kind, !.actor = actor, !.org = o,
                                   !.user = user, !.role = role]
<1>2. /\ request \in Op /\ request.kind \in MemberKinds /\ request.org = o
      /\ request.actor = actor /\ request.user = user
      /\ request.proj = None /\ request.heir = None
  BY NoneAssumption DEF Op, NoOp, Kinds
<1> HIDE DEF request
<1>3. /\ primary[o] # None /\ Start(r, "checkOwner", request)
      /\ ForUpdate(r, {<<"Organization", o>>})
  BY <1>1, <1>2 DEF LockOrganization, request
<1>4. UNCHANGED tables /\ UNCHANGED sharers
  BY <1>3 DEF Start, tables
<1>5. /\ LocksTypeOK(LockRows, Requests)' /\ Exclusive'
      /\ \A x \in LockRows, q \in Requests : holder[x] = q => holder'[x] = q
      /\ holder'[<<"Organization", o>>] = r
  <2>1. {<<"Organization", o>>} \in SUBSET LockRows
    BY Rows
  <2> QED
    BY <1>3, <1>4, <2>1, ForUpdateKeeps DEF IInv
<1>6. op'[r] = request /\ pc'[r] = "checkOwner"
  BY <1>3 DEF Start, Goto, IInv, TypeOK
<1>7. RequestInv(r)'
  BY <1>2, <1>3, <1>4, <1>5, <1>6, NoOpIsOp, KindsDiffer
     DEF RequestInv, MemberInv, RosterInv, ProjectInv, tables
<1>8. \A q \in Requests \ {r} : op[q].kind \in ProjectKinds => request.proj # op[q].proj
  <2>1. \A q \in Requests : op[q].kind \in ProjectKinds => op[q].proj \in Projects
    BY DEF IInv, RequestInv, ProjectInv
  <2> QED
    BY <1>2, <2>1, NoneAssumption
<1>9. "checkOwner" \in PCs
  BY DEF PCs
<1> QED
  BY <1>2, <1>3, <1>5, <1>7, <1>8, <1>9, StartInv

\* From CheckOwner on, the actor is an OWNER.
LEMMA CheckOwnerInv ==
  ASSUME IInv, NEW r \in Requests, CheckOwner(r)
  PROVE  IInv'
<1>1. CASE Rollback(r)
  BY <1>1, RollbackInv
<1>2. CASE op[r].actor \in OwnersOf(op[r].org) /\ Proceed(r, "findMember")
  <2>1. /\ pc[r] = "checkOwner" /\ pc'[r] = "findMember"
        /\ UNCHANGED <<memberRole, primary, projectRole, created, op, holder, sharers>>
    BY <1>2 DEF CheckOwner, Proceed, Goto, IInv, TypeOK
  <2>2. RequestInv(r)
    BY DEF IInv
  <2>3. op[r].kind \notin RosterKinds \cup ProjectKinds
    BY <2>1, <2>2 DEF RequestInv, RosterInv, ProjectInv
  <2>4. MemberInv(r)'
    BY <1>2, <2>1, <2>2 DEF RequestInv, MemberInv, OwnersOf
  <2>5. RosterInv(r)' /\ ProjectInv(r)'
    BY <2>1, <2>3 DEF RosterInv, ProjectInv
  <2>6. "findMember" \in PCs
    BY DEF PCs
  <2> QED
    BY <1>2, <2>1, <2>4, <2>5, <2>6, ProceedInv
<1> QED
  BY <1>1, <1>2 DEF CheckOwner

\* FindMember names the next primary owner before it goes on to take the role
\* from an OWNER.
LEMMA FindMemberInv ==
  ASSUME IInv, NEW r \in Requests, FindMember(r)
  PROVE  IInv'
<1> DEFINE found == memberRole[op[r].org][op[r].user]
           heirs == OwnersOf(op[r].org) \ {op[r].user}
           next  == IF op[r].kind = "removeMember" THEN "listProjects" ELSE "commit"
<1>1. pc[r] = "findMember" /\ RequestInv(r) /\ TypeOK
  BY DEF FindMember, IInv
<1>2. op[r].kind \notin RosterKinds \cup ProjectKinds /\ pc[r] # "idle"
  BY <1>1 DEF RequestInv, RosterInv, ProjectInv
<1>3. next \in {"listProjects", "commit"} /\ next \in PCs
  BY DEF PCs
<1>4. next = "commit" => op[r].kind # "removeMember"
  OBVIOUS
<1>5. CASE Rollback(r)
  BY <1>5, RollbackInv
<1>6. CASE /\ IF op[r].kind = "addMember" THEN found = None
              ELSE found = "MEMBER" /\ op[r].role # "MEMBER"
           /\ Proceed(r, next)
  <2>1. found # "OWNER"
    BY <1>6, NoneAssumption DEF Roles
  <2> HIDE DEF next
  <2>2. /\ pc'[r] = next
        /\ UNCHANGED <<memberRole, primary, projectRole, created, op, holder, sharers>>
    BY <1>1, <1>6 DEF Proceed, Goto, TypeOK
  <2>3. MemberInv(r)'
    BY <1>1, <1>3, <1>4, <2>1, <2>2 DEF RequestInv, MemberInv, OwnersOf
  <2>4. RosterInv(r)' /\ ProjectInv(r)'
    BY <1>2, <2>2 DEF RosterInv, ProjectInv
  <2> QED
    BY <1>2, <1>3, <1>6, <2>3, <2>4, ProceedInv
<1>7. CASE /\ op[r].kind # "addMember" /\ found = "OWNER" /\ op[r].role # "OWNER"
           /\ \E heir \in heirs : op' = [op EXCEPT ![r].heir = heir]
           /\ Goto(r, next)
           /\ UNCHANGED <<memberRole, primary, projectRole, created, holder, sharers>>
  <2>1. PICK heir \in heirs : op' = [op EXCEPT ![r].heir = heir]
    BY <1>7
  <2>2. heir \in Users
    BY DEF OwnersOf
  <2> HIDE DEF next
  <2>3. /\ op' \in [Requests -> Op] /\ pc' \in [Requests -> PCs] /\ pc'[r] = next
        /\ \A q \in Requests \ {r} : pc'[q] = pc[q] /\ op'[q] = op[q]
        /\ op'[r].kind = op[r].kind /\ op'[r].org = op[r].org /\ op'[r].actor = op[r].actor
        /\ op'[r].user = op[r].user /\ op'[r].role = op[r].role /\ op'[r].proj = op[r].proj
        /\ op'[r].listed = op[r].listed /\ op'[r].heir = heir
    BY <1>1, <1>3, <1>7, <2>1, <2>2 DEF TypeOK, Op, Goto
  <2>4. UNCHANGED tables /\ UNCHANGED <<holder, sharers>>
    BY <1>7 DEF tables
  <2>5. TypeOK' /\ Exclusive'
    BY <1>1, <2>3, <2>4 DEF IInv, TypeOK, LocksTypeOK, Exclusive, tables
  <2>6. MemberInv(r)'
    <3> SUFFICES ASSUME op[r].kind \in MemberKinds
                 PROVE  MemberInv(r)'
      BY <2>3 DEF MemberInv
    <3>1. /\ op[r].org \in Organizations /\ op[r].actor \in Users /\ op[r].user \in Users
          /\ primary[op[r].org] # None /\ holder[<<"Organization", op[r].org>>] = r
          /\ op[r].actor \in OwnersOf(op[r].org)
      BY <1>1 DEF RequestInv, MemberInv
    <3>2. heir \in OwnersOf(op[r].org) \ {op[r].user} /\ heir # None
      BY <2>2, NoneAssumption
    <3>3. \A x : OwnersOf(x)' = OwnersOf(x)
      BY <2>4 DEF OwnersOf, tables
    <3> HIDE DEF heirs, found
    <3> QED
      BY <1>3, <1>4, <2>3, <2>4, <3>1, <3>2, <3>3 DEF MemberInv, tables
  <2>7. RequestInv(r)'
    <3>1. op[r].kind # None
      BY <1>1 DEF RequestInv
    <3> QED
      BY <1>2, <1>3, <2>3, <2>6, <3>1 DEF RequestInv, RosterInv, ProjectInv
  <2>8. \A q \in Requests \ {r} : op[q].kind \in ProjectKinds => op'[r].proj # op[q].proj
    BY <2>3 DEF IInv, RequestInv, ProjectInv
  <2> QED
    BY <2>3, <2>4, <2>5, <2>7, <2>8, QuietInv
<1> QED
  BY <1>5, <1>6, <1>7 DEF FindMember

\* The list is read under the Organization's lock, which nobody who inserts a
\* Project holds a share of.
LEMMA ListProjectsInv ==
  ASSUME IInv, NEW r \in Requests, ListProjects(r)
  PROVE  IInv'
<1>1. pc[r] = "listProjects" /\ RequestInv(r) /\ TypeOK
  BY DEF ListProjects, IInv
<1>2. op[r].kind \notin RosterKinds \cup ProjectKinds
  BY <1>1 DEF RequestInv, RosterInv, ProjectInv
<1>3. UNCHANGED tables /\ UNCHANGED <<holder, sharers>>
  BY DEF ListProjects, tables
<1>4. ProjectsOf(op[r].org) \in SUBSET Projects
  BY <1>1 DEF TypeOK, ProjectsOf
<1>5. /\ op' \in [Requests -> Op] /\ pc' \in [Requests -> PCs] /\ pc'[r] = "commit"
      /\ \A q \in Requests \ {r} : pc'[q] = pc[q] /\ op'[q] = op[q]
      /\ op'[r].kind = op[r].kind /\ op'[r].org = op[r].org /\ op'[r].actor = op[r].actor
      /\ op'[r].user = op[r].user /\ op'[r].role = op[r].role /\ op'[r].proj = op[r].proj
      /\ op'[r].listed = ProjectsOf(op[r].org) /\ op'[r].heir = op[r].heir
  BY <1>1, <1>4 DEF TypeOK, Op, PCs, Goto, ListProjects
<1>6. TypeOK' /\ Exclusive'
  BY <1>1, <1>3, <1>5 DEF IInv, TypeOK, LocksTypeOK, Exclusive, tables
<1>7. MemberInv(r)'
  BY <1>1, <1>3, <1>5 DEF RequestInv, MemberInv, OwnersOf, ProjectsOf, tables
<1>8. RequestInv(r)'
  BY <1>1, <1>2, <1>5, <1>7 DEF RequestInv, RosterInv, ProjectInv
<1>9. \A q \in Requests \ {r} : op[q].kind \in ProjectKinds => op'[r].proj # op[q].proj
  BY <1>5 DEF IInv, RequestInv, ProjectInv
<1> QED
  BY <1>3, <1>5, <1>6, <1>8, <1>9, QuietInv

\* The commit of a change of members leaves an OWNER as primary, and touches
\* no organization that another request has locked.
LEMMA CommitMemberInv ==
  ASSUME IInv, NEW r \in Requests, CommitMember(r)
  PROVE  IInv'
<1> DEFINE o == op[r].org
           u == op[r].user
<1>1. /\ TypeOK /\ RequestInv(r) /\ pc[r] = "commit" /\ op[r].kind \in MemberKinds
      /\ End(r) /\ UNCHANGED <<projectRole, created>>
      /\ memberRole' = [memberRole EXCEPT ![o][u] = op[r].role]
      /\ primary' = Reassigned(r)
  BY DEF IInv, CommitMember
<1>2. /\ o \in Organizations /\ u \in Users /\ primary[o] # None
      /\ holder[<<"Organization", o>>] = r
      /\ op[r].heir # None => op[r].heir \in OwnersOf(o) \ {u}
      /\ memberRole[o][u] = "OWNER" => op[r].role = "OWNER" \/ op[r].heir # None
  BY <1>1 DEF RequestInv, MemberInv
<1>3. op[r].role \in Roles \cup {None} /\ op[r].heir \in Users \cup {None}
  BY <1>1 DEF TypeOK, Op
<1>4. \A x \in Organizations \ {o} : primary'[x] = primary[x] /\ memberRole'[x] = memberRole[x]
  BY <1>1 DEF TypeOK, Reassigned
<1>5. /\ memberRole'[o][u] = op[r].role
      /\ \A v \in Users \ {u} : memberRole'[o][v] = memberRole[o][v]
      /\ primary'[o] = IF op[r].heir # None /\ primary[o] = u THEN op[r].heir ELSE primary[o]
  BY <1>1, <1>2 DEF TypeOK, Reassigned
<1>6. TypeOK'
  <2>1. memberRole' \in [Organizations -> [Users -> Roles \cup {None}]]
    BY <1>1, <1>2, <1>3 DEF TypeOK
  <2>2. primary' \in [Organizations -> Users \cup {None}]
    BY <1>1, <1>2, <1>3 DEF TypeOK, Reassigned
  <2> QED
    BY <1>1, <2>1, <2>2, EndInv DEF TypeOK
<1>7. PrimaryIsOwner'
  <2> HIDE DEF o, u
  <2>1. primary[o] \in Users /\ memberRole[o][primary[o]] = "OWNER"
    BY <1>2 DEF IInv, PrimaryIsOwner, OwnersOf
  <2>2. primary'[o] \in Users /\ memberRole'[o][primary'[o]] = "OWNER"
    <3>1. CASE op[r].heir # None /\ primary[o] = u
      <4>1. /\ primary'[o] = op[r].heir /\ op[r].heir \in Users \ {u}
            /\ memberRole[o][op[r].heir] = "OWNER"
        BY <3>1, <1>2, <1>5 DEF OwnersOf
      <4> QED
        BY <4>1, <1>5
    <3>2. CASE op[r].heir = None /\ primary[o] = u
      <4>1. primary'[o] = u /\ op[r].role = "OWNER"
        BY <2>1, <3>2, <1>2, <1>5
      <4> QED
        BY <4>1, <1>2, <1>5
    <3>3. CASE primary[o] # u
      BY <2>1, <3>3, <1>5
    <3> QED
      BY <3>1, <3>2, <3>3
  <2>3. \A x \in Organizations : primary'[x] # None => primary'[x] \in OwnersOf(x)'
    <3> SUFFICES ASSUME NEW x \in Organizations, x # o, primary'[x] # None
                 PROVE  primary'[x] \in OwnersOf(x)'
      BY <2>2 DEF OwnersOf
    <3>1. primary'[x] = primary[x] /\ memberRole'[x] = memberRole[x]
      BY <1>4
    <3>2. primary[x] \in Users /\ memberRole[x][primary[x]] = "OWNER"
      BY <3>1 DEF IInv, PrimaryIsOwner, OwnersOf
    <3> QED
      BY <3>1, <3>2 DEF OwnersOf
  <2> QED
    BY <2>3 DEF PrimaryIsOwner
<1>8. EveryProjectHasOwner'
  BY <1>1 DEF IInv, EveryProjectHasOwner, ProjectOwnersOf
<1>9. ASSUME NEW q \in Requests \ {r} PROVE RequestInv(q)'
  <2>1. RequestInv(q)
    BY DEF IInv
  <2>2. /\ pc'[q] = pc[q] /\ op'[q] = op[q] /\ op'[r] = NoOp
        /\ \A x \in LockRows : holder[x] = q => holder'[x] = q
        /\ \A x \in LockRows : q \in sharers[x] => q \in sharers'[x]
        /\ \A s \in Requests \ {r} : op'[s] = op[s]
    BY <1>1, EndInv
  <2>3. MemberInv(q)'
    <3> SUFFICES ASSUME op[q].kind \in MemberKinds
                 PROVE  MemberInv(q)'
      BY <2>2 DEF MemberInv
    <3>1. op[q].org \in Organizations /\ holder[<<"Organization", op[q].org>>] = q
      BY <2>1 DEF RequestInv, MemberInv
    <3>2. op[q].org # o
      BY <3>1, <1>2
    <3>3. /\ primary'[op[q].org] = primary[op[q].org]
          /\ memberRole'[op[q].org] = memberRole[op[q].org]
          /\ holder'[<<"Organization", op[q].org>>] = q
      BY <3>1, <3>2, <1>4, <2>2, Rows
    <3> QED
      BY <2>1, <2>2, <3>1, <3>3, <1>1 DEF RequestInv, MemberInv, OwnersOf, ProjectsOf
  <2>4. RosterInv(q)'
    <3>1. created \subseteq Projects
      BY <1>1 DEF TypeOK
    <3> QED
      BY <2>1, <2>2, <1>1, <3>1, Rows DEF RequestInv, RosterInv, ProjectOwnersOf
  <2>5. ProjectInv(q)'
    <3> SUFFICES ASSUME op[q].kind \in ProjectKinds
                 PROVE  ProjectInv(q)'
      BY <2>2 DEF ProjectInv
    <3>1. op[q].proj \in Projects /\ OrganizationOf[op[q].proj] \in Organizations
      BY <2>1, OrganizationOfAssumption DEF RequestInv, ProjectInv
    <3>2. op'[r].proj # op[q].proj
      BY <2>2, <3>1, NoOpIsOp, NoneAssumption
    <3> QED
      BY <2>1, <2>2, <1>1, <3>1, <3>2, Rows DEF RequestInv, ProjectInv
  <2> QED
    BY <2>1, <2>2, <2>3, <2>4, <2>5 DEF RequestInv
<1> QED
  BY <1>1, <1>6, <1>7, <1>8, <1>9, EndInv DEF IInv

-----------------------------------------------------------------------------
(* ProjectMembersService.                                                  *)

\* Two OWNERs are one besides any of them.
LEMMA AnotherMember ==
  ASSUME NEW S, IsFiniteSet(S), NEW u \in S, ~ Cardinality(S) <= 1
  PROVE  S \ {u} # {}
<1> SUFFICES ASSUME S \ {u} = {} PROVE FALSE
  OBVIOUS
<1>1. S = {u}
  OBVIOUS
<1>2. Cardinality(S) = 1
  BY <1>1, FS_Singleton
<1> QED
  BY <1>2

\* The OWNERs of a project are finitely many.
LEMMA FinitelyManyOwners == ASSUME NEW p PROVE IsFiniteSet(ProjectOwnersOf(p))
<1>1. ProjectOwnersOf(p) \subseteq Users
  BY DEF ProjectOwnersOf
<1> QED
  BY <1>1, UsersAssumption, FS_Subset

\* A request is of one of the three kinds.
LEMMA KindOf ==
  ASSUME IInv, NEW r \in Requests, pc[r] # "idle"
  PROVE  op[r].kind \in MemberKinds \cup RosterKinds \cup ProjectKinds
<1>1. op[r] \in Op /\ op[r].kind # None
  BY DEF IInv, TypeOK, RequestInv
<1> QED
  BY <1>1 DEF Op, Kinds

\* A change of a roster starts with the Project's lock.
LEMMA ChangeRosterInv ==
  ASSUME IInv, NEW r \in Requests, ChangeRoster(r)
  PROVE  IInv'
<1>1. PICK p \in Projects, actor \in Users, user \in Users, kind \in RosterKinds,
           role \in Roles \cup {None} :
        LockProject(r, [NoOp EXCEPT !.kind = kind, !.actor = actor, !.proj = p,
                                    !.user = user, !.role = role], p)
  BY DEF ChangeRoster
<1> DEFINE request == [NoOp EXCEPT !.kind = kind, !.actor = actor, !.proj = p,
                                   !.user = user, !.role = role]
<1>2. /\ request \in Op /\ request.kind \in RosterKinds
      /\ request.actor = actor /\ request.user = user /\ request.proj = p
  BY NoneAssumption DEF Op, NoOp, Kinds
<1> HIDE DEF request
<1>3. /\ p \in created /\ Start(r, "authorize", request)
      /\ ForUpdate(r, {<<"Project", p>>})
  BY <1>1 DEF LockProject, request
<1>4. UNCHANGED tables /\ UNCHANGED sharers
  BY <1>3 DEF Start, tables
<1>5. /\ LocksTypeOK(LockRows, Requests)' /\ Exclusive'
      /\ \A x \in LockRows, q \in Requests : holder[x] = q => holder'[x] = q
      /\ holder'[<<"Project", p>>] = r
  <2>1. {<<"Project", p>>} \in SUBSET LockRows
    BY Rows
  <2> QED
    BY <1>3, <1>4, <2>1, ForUpdateKeeps DEF IInv
<1>6. op'[r] = request /\ pc'[r] = "authorize"
  BY <1>3 DEF Start, Goto, IInv, TypeOK
<1>7. RequestInv(r)'
  BY <1>2, <1>3, <1>4, <1>5, <1>6, NoOpIsOp, KindsDiffer
     DEF RequestInv, MemberInv, RosterInv, ProjectInv, tables
<1>8. \A q \in Requests \ {r} : op[q].kind \in ProjectKinds => request.proj # op[q].proj
  <2>1. \A q \in Requests : op[q].kind \in ProjectKinds => op[q].proj \notin created
    BY DEF IInv, RequestInv, ProjectInv
  <2> QED
    BY <1>2, <1>3, <2>1
<1>9. "authorize" \in PCs
  BY DEF PCs
<1> QED
  BY <1>2, <1>3, <1>5, <1>7, <1>8, <1>9, StartInv

\* The check of authority changes nothing that the invariant speaks of.
LEMMA AuthorizeInv ==
  ASSUME IInv, NEW r \in Requests, Authorize(r)
  PROVE  IInv'
<1> DEFINE next == CASE op[r].kind = "add" -> "insertMember"
                     [] op[r].kind = "duplicate" -> "insertProject"
                     [] OTHER -> "findProjectMember"
<1>1. CASE Rollback(r)
  BY <1>1, RollbackInv
<1>2. CASE Proceed(r, next)
  <2>1. pc[r] = "authorize" /\ RequestInv(r)
    BY DEF Authorize, IInv
  <2>2. op[r].kind \in RosterKinds \cup {"duplicate"} /\ op[r].kind \notin MemberKinds
    BY <2>1, KindOf, KindsDiffer DEF RequestInv, MemberInv, ProjectInv
  <2>3. /\ next \in PCs \ {"idle", "commit"}
        /\ next = "insertMember" => op[r].kind = "add"
        /\ op[r].kind \in RosterKinds => next \in {"insertMember", "findProjectMember"}
        /\ op[r].kind \in ProjectKinds => next = "insertProject"
    BY <2>2 DEF PCs, RosterKinds, ProjectKinds
  <2> HIDE DEF next
  <2>4. /\ pc'[r] = next
        /\ UNCHANGED <<memberRole, primary, projectRole, created, op, holder, sharers>>
    BY <1>2 DEF Proceed, Goto, IInv, TypeOK
  <2>5. MemberInv(r)'
    BY <2>2, <2>4 DEF MemberInv
  <2>6. RosterInv(r)'
    BY <2>1, <2>3, <2>4 DEF RequestInv, RosterInv
  <2>7. ProjectInv(r)'
    BY <2>1, <2>3, <2>4 DEF RequestInv, ProjectInv
  <2> QED
    BY <1>2, <2>1, <2>3, <2>5, <2>6, <2>7, ProceedInv
<1> QED
  BY <1>1, <1>2 DEF Authorize

\* A new member of a project was not an OWNER of it.
LEMMA InsertMemberInv ==
  ASSUME IInv, NEW r \in Requests, InsertMember(r)
  PROVE  IInv'
<1>1. CASE Rollback(r)
  BY <1>1, RollbackInv
<1>2. CASE projectRole[op[r].proj][op[r].user] = None /\ Proceed(r, "commit")
  <2>1. pc[r] = "insertMember" /\ RequestInv(r)
    BY DEF InsertMember, IInv
  <2>2. op[r].kind \in RosterKinds /\ op[r].kind \notin MemberKinds \cup ProjectKinds
    BY <2>1, KindOf, KindsDiffer DEF RequestInv, MemberInv, ProjectInv
  <2>3. /\ pc'[r] = "commit"
        /\ UNCHANGED <<memberRole, primary, projectRole, created, op, holder, sharers>>
    BY <1>2 DEF Proceed, Goto, IInv, TypeOK
  <2>4. projectRole[op[r].proj][op[r].user] # "OWNER"
    BY <1>2, NoneAssumption DEF Roles
  <2>5. RosterInv(r)'
    BY <2>1, <2>3, <2>4 DEF RequestInv, RosterInv
  <2>6. MemberInv(r)' /\ ProjectInv(r)'
    BY <2>2, <2>3 DEF MemberInv, ProjectInv
  <2>7. "commit" \in PCs
    BY DEF PCs
  <2> QED
    BY <1>2, <2>1, <2>5, <2>6, <2>7, ProceedInv
<1> QED
  BY <1>1, <1>2 DEF InsertMember

\* FindProjectMember goes on only where another OWNER is left.
LEMMA FindProjectMemberInv ==
  ASSUME IInv, NEW r \in Requests, FindProjectMember(r)
  PROVE  IInv'
<1> DEFINE found  == projectRole[op[r].proj][op[r].user]
           owners == ProjectOwnersOf(op[r].proj)
<1>1. CASE Rollback(r)
  BY <1>1, RollbackInv
<1>2. CASE /\ ~ (found = "OWNER" /\ Cardinality(owners) <= 1)
           /\ Proceed(r, "commit")
  <2>1. pc[r] = "findProjectMember" /\ RequestInv(r)
    BY DEF FindProjectMember, IInv
  <2>2. op[r].kind \in RosterKinds /\ op[r].kind \notin MemberKinds \cup ProjectKinds
    BY <2>1, KindOf, KindsDiffer DEF RequestInv, MemberInv, ProjectInv
  <2>3. /\ pc'[r] = "commit"
        /\ UNCHANGED <<memberRole, primary, projectRole, created, op, holder, sharers>>
    BY <1>2 DEF Proceed, Goto, IInv, TypeOK
  <2>4. found = "OWNER" => owners \ {op[r].user} # {}
    <3> SUFFICES ASSUME found = "OWNER" PROVE owners \ {op[r].user} # {}
      OBVIOUS
    <3>1. op[r].user \in owners
      BY <2>1, <2>2 DEF RequestInv, RosterInv, ProjectOwnersOf
    <3>2. IsFiniteSet(owners)
      BY FinitelyManyOwners
    <3>3. ~ Cardinality(owners) <= 1
      BY <1>2
    <3> HIDE DEF owners
    <3> QED
      BY <3>1, <3>2, <3>3, AnotherMember
  <2>5. RosterInv(r)'
    BY <2>1, <2>3, <2>4 DEF RequestInv, RosterInv, ProjectOwnersOf
  <2>6. MemberInv(r)' /\ ProjectInv(r)'
    BY <2>2, <2>3 DEF MemberInv, ProjectInv
  <2>7. "commit" \in PCs
    BY DEF PCs
  <2> QED
    BY <1>2, <2>1, <2>5, <2>6, <2>7, ProceedInv
<1> QED
  BY <1>1, <1>2 DEF FindProjectMember

\* The commit of a change of a roster leaves an OWNER, and touches no project
\* that another request has locked.
LEMMA CommitRosterInv ==
  ASSUME IInv, NEW r \in Requests, CommitRoster(r)
  PROVE  IInv'
<1> DEFINE p == op[r].proj
           u == op[r].user
<1>1. /\ TypeOK /\ RequestInv(r) /\ pc[r] = "commit" /\ op[r].kind \in RosterKinds
      /\ End(r) /\ UNCHANGED <<memberRole, primary, created>>
      /\ projectRole' = [projectRole EXCEPT ![p][u] = op[r].role]
  BY DEF IInv, CommitRoster
<1>2. /\ p \in created /\ p \in Projects /\ u \in Users
      /\ holder[<<"Project", p>>] = r
      /\ projectRole[p][u] = "OWNER" => op[r].role = "OWNER" \/ ProjectOwnersOf(p) \ {u} # {}
  BY <1>1 DEF RequestInv, RosterInv, TypeOK
<1>3. op[r].role \in Roles \cup {None}
  BY <1>1 DEF TypeOK, Op
<1>4. /\ \A x \in Projects \ {p} : projectRole'[x] = projectRole[x]
      /\ projectRole'[p][u] = op[r].role
      /\ \A v \in Users \ {u} : projectRole'[p][v] = projectRole[p][v]
  BY <1>1, <1>2 DEF TypeOK
<1>5. TypeOK'
  <2>1. projectRole' \in [Projects -> [Users -> Roles \cup {None}]]
    BY <1>1, <1>2, <1>3 DEF TypeOK
  <2>2. \A x \in Projects \ created, v \in Users : projectRole'[x][v] = None
    BY <1>1, <1>2, <1>4 DEF TypeOK
  <2> QED
    BY <1>1, <2>1, <2>2, EndInv DEF TypeOK
<1>6. PrimaryIsOwner'
  BY <1>1 DEF IInv, PrimaryIsOwner, OwnersOf
<1>7. EveryProjectHasOwner'
  <2> SUFFICES ASSUME NEW x \in created PROVE ProjectOwnersOf(x)' # {}
    BY <1>1 DEF EveryProjectHasOwner
  <2>1. PICK w \in Users : projectRole[x][w] = "OWNER"
    BY DEF IInv, EveryProjectHasOwner, ProjectOwnersOf
  <2>2. x \in Projects
    BY <1>1 DEF TypeOK
  <2> HIDE DEF p, u
  <2>3. CASE x # p
    BY <2>1, <2>2, <2>3, <1>4 DEF ProjectOwnersOf
  <2>4. CASE x = p /\ op[r].role = "OWNER"
    BY <2>4, <1>2, <1>4 DEF ProjectOwnersOf
  <2>5. CASE x = p /\ op[r].role # "OWNER"
    <3>1. PICK v \in Users \ {u} : projectRole[p][v] = "OWNER"
      BY <2>1, <2>5, <1>2 DEF ProjectOwnersOf
    <3> QED
      BY <3>1, <2>5, <1>4 DEF ProjectOwnersOf
  <2> QED
    BY <2>3, <2>4, <2>5
<1>8. ASSUME NEW q \in Requests \ {r} PROVE RequestInv(q)'
  <2>1. RequestInv(q)
    BY DEF IInv
  <2>2. /\ pc'[q] = pc[q] /\ op'[q] = op[q] /\ op'[r] = NoOp
        /\ \A x \in LockRows : holder[x] = q => holder'[x] = q
        /\ \A x \in LockRows : q \in sharers[x] => q \in sharers'[x]
        /\ \A s \in Requests \ {r} : op'[s] = op[s]
    BY <1>1, EndInv
  <2>3. MemberInv(q)'
    BY <2>1, <2>2, <1>1, Rows DEF RequestInv, MemberInv, OwnersOf, ProjectsOf
  <2>4. RosterInv(q)'
    <3> SUFFICES ASSUME op[q].kind \in RosterKinds
                 PROVE  RosterInv(q)'
      BY <2>2 DEF RosterInv
    <3>1. /\ op[q].proj \in created /\ op[q].proj \in Projects
          /\ holder[<<"Project", op[q].proj>>] = q
      BY <2>1, <1>1 DEF RequestInv, RosterInv, TypeOK
    <3>2. op[q].proj # p
      BY <3>1, <1>2
    <3>3. /\ projectRole'[op[q].proj] = projectRole[op[q].proj]
          /\ holder'[<<"Project", op[q].proj>>] = q
      BY <3>1, <3>2, <1>4, <2>2, Rows
    <3> QED
      BY <2>1, <2>2, <3>1, <3>3, <1>1 DEF RequestInv, RosterInv, ProjectOwnersOf
  <2>5. ProjectInv(q)'
    <3> SUFFICES ASSUME op[q].kind \in ProjectKinds
                 PROVE  ProjectInv(q)'
      BY <2>2 DEF ProjectInv
    <3>1. op[q].proj \in Projects /\ OrganizationOf[op[q].proj] \in Organizations
      BY <2>1, OrganizationOfAssumption DEF RequestInv, ProjectInv
    <3>2. op'[r].proj # op[q].proj
      BY <2>2, <3>1, NoOpIsOp, NoneAssumption
    <3> QED
      BY <2>1, <2>2, <1>1, <3>1, <3>2, Rows DEF RequestInv, ProjectInv
  <2> QED
    BY <2>1, <2>2, <2>3, <2>4, <2>5 DEF RequestInv
<1> QED
  BY <1>1, <1>5, <1>6, <1>7, <1>8, EndInv DEF IInv

-----------------------------------------------------------------------------
(* ProjectsService.                                                        *)

\* A new Project has an id that no open request speaks of.
LEMMA CreateProjectInv ==
  ASSUME IInv, NEW r \in Requests, CreateProject(r)
  PROVE  IInv'
<1>1. PICK p \in Projects, actor \in Users :
        /\ Fresh(p)
        /\ Start(r, "insertProject",
                 [NoOp EXCEPT !.kind = "create", !.actor = actor, !.proj = p])
        /\ UNCHANGED holder
  BY DEF CreateProject
<1> DEFINE request == [NoOp EXCEPT !.kind = "create", !.actor = actor, !.proj = p]
<1>2. /\ request \in Op /\ request.kind = "create"
      /\ request.actor = actor /\ request.proj = p
  BY NoneAssumption DEF Op, NoOp, Kinds, ProjectKinds
<1> HIDE DEF request
<1>3. Start(r, "insertProject", request) /\ UNCHANGED holder
  BY <1>1 DEF request
<1>4. UNCHANGED tables /\ UNCHANGED sharers
  BY <1>3 DEF Start, tables
<1>5. /\ LocksTypeOK(LockRows, Requests)' /\ Exclusive'
      /\ \A x \in LockRows, q \in Requests : holder[x] = q => holder'[x] = q
  BY <1>3, <1>4 DEF IInv, TypeOK, LocksTypeOK, Exclusive
<1>6. /\ op'[r] = request /\ pc'[r] = "insertProject"
      /\ \A q \in Requests \ {r} : op'[q] = op[q]
  BY <1>3 DEF Start, Goto, IInv, TypeOK
<1>7. p \notin created /\ \A q \in Requests : op[q].proj # p
  BY <1>1 DEF Fresh
<1>8. RequestInv(r)'
  <2>1. request.kind \in ProjectKinds
    BY <1>2 DEF ProjectKinds
  <2> QED
    BY <1>2, <1>4, <1>6, <1>7, <2>1, NoOpIsOp, KindsDiffer
       DEF RequestInv, MemberInv, RosterInv, ProjectInv, tables
<1>9. "insertProject" \in PCs
  BY DEF PCs
<1> QED
  BY <1>2, <1>3, <1>5, <1>7, <1>8, <1>9, StartInv

\* The copy of a Project is a new one, and the Project it copies is locked.
LEMMA DuplicateProjectInv ==
  ASSUME IInv, NEW r \in Requests, DuplicateProject(r)
  PROVE  IInv'
<1>1. PICK p \in Projects, source \in Projects, actor \in Users :
        /\ Fresh(p)
        /\ LockProject(r, [NoOp EXCEPT !.kind = "duplicate", !.actor = actor,
                                       !.proj = p, !.source = source], source)
  BY DEF DuplicateProject
<1> DEFINE request == [NoOp EXCEPT !.kind = "duplicate", !.actor = actor,
                                   !.proj = p, !.source = source]
<1>2. /\ request \in Op /\ request.kind = "duplicate"
      /\ request.actor = actor /\ request.proj = p
  BY NoneAssumption DEF Op, NoOp, Kinds, ProjectKinds
<1> HIDE DEF request
<1>3. Start(r, "authorize", request) /\ ForUpdate(r, {<<"Project", source>>})
  BY <1>1 DEF LockProject, request
<1>4. UNCHANGED tables /\ UNCHANGED sharers
  BY <1>3 DEF Start, tables
<1>5. /\ LocksTypeOK(LockRows, Requests)' /\ Exclusive'
      /\ \A x \in LockRows, q \in Requests : holder[x] = q => holder'[x] = q
  <2>1. {<<"Project", source>>} \in SUBSET LockRows
    BY Rows
  <2> QED
    BY <1>3, <1>4, <2>1, ForUpdateKeeps DEF IInv
<1>6. /\ op'[r] = request /\ pc'[r] = "authorize"
      /\ \A q \in Requests \ {r} : op'[q] = op[q]
  BY <1>3 DEF Start, Goto, IInv, TypeOK
<1>7. p \notin created /\ \A q \in Requests : op[q].proj # p
  BY <1>1 DEF Fresh
<1>8. RequestInv(r)'
  <2>1. request.kind \in ProjectKinds
    BY <1>2 DEF ProjectKinds
  <2> QED
    BY <1>2, <1>4, <1>6, <1>7, <2>1, NoOpIsOp, KindsDiffer
       DEF RequestInv, MemberInv, RosterInv, ProjectInv, tables
<1>9. "authorize" \in PCs
  BY DEF PCs
<1> QED
  BY <1>2, <1>3, <1>5, <1>7, <1>8, <1>9, StartInv

\* The INSERT refers to the Organization row until the commit.
LEMMA InsertProjectInv ==
  ASSUME IInv, NEW r \in Requests, InsertProject(r)
  PROVE  IInv'
<1> DEFINE row == <<"Organization", OrganizationOf[op[r].proj]>>
<1>1. pc[r] = "insertProject" /\ RequestInv(r) /\ TypeOK
  BY DEF InsertProject, IInv
<1>2. op[r].kind \in ProjectKinds /\ op[r].kind \notin MemberKinds \cup RosterKinds
  BY <1>1, KindOf, KindsDiffer DEF RequestInv, MemberInv, RosterInv
<1>3. row \in LockRows
  BY <1>1, <1>2, OrganizationOfAssumption, Rows DEF RequestInv, ProjectInv
<1>4. KeyShare(r, {row}) /\ UNCHANGED tables /\ UNCHANGED <<op, holder>>
  BY DEF InsertProject, tables
<1>5. /\ pc' \in [Requests -> PCs] /\ pc'[r] = "commit"
      /\ \A q \in Requests \ {r} : pc'[q] = pc[q]
  BY <1>1 DEF InsertProject, Goto, TypeOK, PCs
<1> HIDE DEF row
<1>6. /\ LocksTypeOK(LockRows, Requests)' /\ Exclusive'
      /\ \A x \in LockRows : sharers[x] \subseteq sharers'[x]
      /\ r \in sharers'[row]
  <2>1. {row} \in SUBSET LockRows
    BY <1>3
  <2> QED
    BY <1>4, <2>1, KeyShareKeeps DEF IInv
<1>7. TypeOK'
  BY <1>1, <1>4, <1>5, <1>6 DEF TypeOK, tables
<1>8. RequestInv(r)'
  <2>1. r \in sharers'[<<"Organization", OrganizationOf[op[r].proj]>>]
    BY <1>6 DEF row
  <2>2. ProjectInv(r)'
    BY <1>1, <1>2, <1>4, <1>5, <2>1 DEF RequestInv, ProjectInv, tables
  <2> QED
    BY <1>1, <1>2, <1>4, <1>5, <2>2 DEF RequestInv, MemberInv, RosterInv
<1>9. \A q \in Requests \ {r} : op[q].kind \in ProjectKinds => op'[r].proj # op[q].proj
  BY <1>4 DEF IInv, RequestInv, ProjectInv
<1> QED
  BY <1>4, <1>5, <1>6, <1>7, <1>8, <1>9, QuietInv

\* The commit of a new Project: whoever lists the Projects of its organization
\* to remove a member has the Organization row, so this commit is not between.
LEMMA CommitProjectInv ==
  ASSUME IInv, NEW r \in Requests, CommitProject(r)
  PROVE  IInv'
<1> DEFINE p == op[r].proj
           u == op[r].actor
<1>1. /\ TypeOK /\ RequestInv(r) /\ pc[r] = "commit" /\ op[r].kind \in ProjectKinds
      /\ End(r) /\ UNCHANGED <<memberRole, primary>>
      /\ created' = created \cup {p}
      /\ projectRole' = [projectRole EXCEPT ![p][u] = "OWNER"]
  BY DEF IInv, CommitProject
<1>2. /\ p \in Projects \ created /\ u \in Users
      /\ \A q \in Requests \ {r} : op[q].proj # p
      /\ r \in sharers[<<"Organization", OrganizationOf[p]>>]
  BY <1>1 DEF RequestInv, ProjectInv
<1>3. /\ \A x \in Projects \ {p} : projectRole'[x] = projectRole[x]
      /\ projectRole'[p][u] = "OWNER"
  BY <1>1, <1>2 DEF TypeOK
<1>4. TypeOK'
  <2>1. projectRole' \in [Projects -> [Users -> Roles \cup {None}]]
    BY <1>1, <1>2 DEF TypeOK, Roles
  <2>2. \A x \in Projects \ created', v \in Users : projectRole'[x][v] = None
    BY <1>1, <1>2, <1>3 DEF TypeOK
  <2> QED
    BY <1>1, <1>2, <2>1, <2>2, EndInv DEF TypeOK
<1>5. PrimaryIsOwner'
  BY <1>1 DEF IInv, PrimaryIsOwner, OwnersOf
<1>6. EveryProjectHasOwner'
  <2> SUFFICES ASSUME NEW x \in created' PROVE ProjectOwnersOf(x)' # {}
    BY DEF EveryProjectHasOwner
  <2>1. CASE x = p
    BY <2>1, <1>2, <1>3 DEF ProjectOwnersOf
  <2>2. CASE x \in created
    BY <2>2, <1>1, <1>2, <1>3 DEF IInv, TypeOK, EveryProjectHasOwner, ProjectOwnersOf
  <2> QED
    BY <1>1, <2>1, <2>2
<1>7. ASSUME NEW q \in Requests \ {r} PROVE RequestInv(q)'
  <2>1. RequestInv(q)
    BY DEF IInv
  <2>2. /\ pc'[q] = pc[q] /\ op'[q] = op[q] /\ op'[r] = NoOp
        /\ \A x \in LockRows : holder[x] = q => holder'[x] = q
        /\ \A x \in LockRows : q \in sharers[x] => q \in sharers'[x]
        /\ \A s \in Requests \ {r} : op'[s] = op[s]
    BY <1>1, EndInv
  <2>3. MemberInv(q)'
    <3> SUFFICES ASSUME op[q].kind \in MemberKinds
                 PROVE  MemberInv(q)'
      BY <2>2 DEF MemberInv
    <3>1. op[q].org \in Organizations /\ holder[<<"Organization", op[q].org>>] = q
      BY <2>1 DEF RequestInv, MemberInv
    <3>2. OrganizationOf[p] # op[q].org
      <4> SUFFICES ASSUME OrganizationOf[p] = op[q].org PROVE FALSE
        OBVIOUS
      <4>1. q # None
        BY NoneAssumption
      <4>2. r \in sharers[<<"Organization", op[q].org>>]
        BY <1>2
      <4>3. <<"Organization", op[q].org>> \in LockRows
        BY <3>1, Rows
      <4> QED
        BY <3>1, <4>1, <4>2, <4>3 DEF IInv, Exclusive
    <3>3. \A x : x = op[q].org => ProjectsOf(x)' = ProjectsOf(x)
      BY <1>1, <3>2 DEF ProjectsOf
    <3>4. holder'[<<"Organization", op[q].org>>] = q
      BY <3>1, <2>2, Rows
    <3> QED
      BY <2>1, <2>2, <3>3, <3>4, <1>1 DEF RequestInv, MemberInv, OwnersOf
  <2>4. RosterInv(q)'
    <3> SUFFICES ASSUME op[q].kind \in RosterKinds
                 PROVE  RosterInv(q)'
      BY <2>2 DEF RosterInv
    <3>1. /\ op[q].proj \in created /\ op[q].proj \in Projects \ {p}
          /\ holder[<<"Project", op[q].proj>>] = q
      BY <2>1, <1>1, <1>2 DEF RequestInv, RosterInv, TypeOK
    <3>2. /\ projectRole'[op[q].proj] = projectRole[op[q].proj]
          /\ holder'[<<"Project", op[q].proj>>] = q
      BY <3>1, <1>3, <2>2, Rows
    <3> QED
      BY <2>1, <2>2, <3>1, <3>2, <1>1 DEF RequestInv, RosterInv, ProjectOwnersOf
  <2>5. ProjectInv(q)'
    <3> SUFFICES ASSUME op[q].kind \in ProjectKinds
                 PROVE  ProjectInv(q)'
      BY <2>2 DEF ProjectInv
    <3>1. /\ op[q].proj \in Projects /\ op[q].proj # p
          /\ OrganizationOf[op[q].proj] \in Organizations
      BY <2>1, <1>2, OrganizationOfAssumption DEF RequestInv, ProjectInv
    <3>2. op'[r].proj # op[q].proj
      BY <2>2, <3>1, NoOpIsOp, NoneAssumption
    <3> QED
      BY <2>1, <2>2, <1>1, <3>1, <3>2, Rows DEF RequestInv, ProjectInv
  <2> QED
    BY <2>1, <2>2, <2>3, <2>4, <2>5 DEF RequestInv
<1> QED
  BY <1>1, <1>4, <1>5, <1>6, <1>7, EndInv DEF IInv

-----------------------------------------------------------------------------
(* The theorems.                                                           *)

\* Nothing exists at first.
LEMMA InitInv == Init => IInv
<1> SUFFICES ASSUME Init PROVE IInv
  OBVIOUS
<1>1. TypeOK
  <2>1. "idle" \in PCs
    BY DEF PCs
  <2> QED
    BY <2>1, NoOpIsOp DEF Init, TypeOK, LocksInit, LocksTypeOK
<1>2. Exclusive
  BY DEF Init, LocksInit, Exclusive
<1>3. \A r \in Requests : RequestInv(r)
  BY NoOpIsOp DEF Init, RequestInv, MemberInv, RosterInv, ProjectInv
<1>4. PrimaryIsOwner /\ EveryProjectHasOwner
  BY DEF Init, PrimaryIsOwner, EveryProjectHasOwner
<1> QED
  BY <1>1, <1>2, <1>3, <1>4 DEF IInv

\* Every step keeps the invariant.
LEMMA NextInv == IInv /\ [Next]_vars => IInv'
<1> SUFFICES ASSUME IInv, [Next]_vars PROVE IInv'
  OBVIOUS
<1>1. ASSUME NEW o \in Organizations, NEW u \in Users, CreateOrganization(o, u) PROVE IInv'
  BY <1>1, CreateOrganizationInv
<1>2. ASSUME NEW r \in Requests, ChangeMembers(r) \/ CheckOwner(r) \/ FindMember(r)
             \/ ListProjects(r) \/ CommitMember(r)
      PROVE  IInv'
  BY <1>2, ChangeMembersInv, CheckOwnerInv, FindMemberInv, ListProjectsInv, CommitMemberInv
<1>3. ASSUME NEW r \in Requests, ChangeRoster(r) \/ Authorize(r) \/ InsertMember(r)
             \/ FindProjectMember(r) \/ CommitRoster(r)
      PROVE  IInv'
  BY <1>3, ChangeRosterInv, AuthorizeInv, InsertMemberInv, FindProjectMemberInv, CommitRosterInv
<1>4. ASSUME NEW r \in Requests, CreateProject(r) \/ DuplicateProject(r) \/ InsertProject(r)
             \/ CommitProject(r)
      PROVE  IInv'
  BY <1>4, CreateProjectInv, DuplicateProjectInv, InsertProjectInv, CommitProjectInv
<1>5. ASSUME NEW r \in Requests, Fail(r) PROVE IInv'
  BY <1>5, RollbackInv DEF Fail
<1>6. CASE UNCHANGED vars
  <2>1. /\ UNCHANGED <<memberRole, primary, projectRole, created, pc, op, holder, sharers>>
    BY <1>6 DEF vars
  <2>2. TypeOK' /\ Exclusive' /\ PrimaryIsOwner' /\ EveryProjectHasOwner'
    BY <2>1 DEF IInv, TypeOK, LocksTypeOK, Exclusive, PrimaryIsOwner, OwnersOf,
                EveryProjectHasOwner, ProjectOwnersOf
  <2>3. ASSUME NEW r \in Requests PROVE RequestInv(r)'
    BY <2>1 DEF IInv, RequestInv, MemberInv, RosterInv, ProjectInv, OwnersOf,
                ProjectOwnersOf, ProjectsOf
  <2> QED
    BY <2>2, <2>3 DEF IInv
<1> QED
  BY <1>1, <1>2, <1>3, <1>4, <1>5, <1>6 DEF Next

\* The inductive invariant: what every open request has found out still holds,
\* because the row lock it took keeps the others from changing it.
THEOREM Invariance == Spec => []IInv
BY InitInv, NextInv, PTL DEF Spec

\* Every variable has its type, and no roster is kept for a Project that is not
\* there.
THEOREM TypeCorrect == Spec => []TypeOK
<1>1. IInv => TypeOK
  BY DEF IInv
<1> QED
  BY <1>1, Invariance, PTL

\* updateMemberRole and removeMember never leave an organization without an
\* OWNER, and its ownerId always names one of them.
THEOREM OrganizationsAreOwned == Spec => []PrimaryIsOwner
<1>1. IInv => PrimaryIsOwner
  BY DEF IInv
<1> QED
  BY <1>1, Invariance, PTL

\* updateRole and remove never leave a project without an explicit OWNER.
THEOREM ProjectsAreOwned == Spec => []EveryProjectHasOwner
<1>1. IInv => EveryProjectHasOwner
  BY DEF IInv
<1> QED
  BY <1>1, Invariance, PTL

-----------------------------------------------------------------------------
\* Only the creation of an organization and CommitMember write member rows.
LEMMA MembersWritten ==
  ASSUME IInv, [Next]_vars, memberRole' # memberRole
  PROVE  \/ \E o \in Organizations, u \in Users : CreateOrganization(o, u)
         \/ \E r \in Requests : CommitMember(r)
<1>1. ASSUME NEW r \in Requests,
             ChangeMembers(r) \/ ChangeRoster(r) \/ CreateProject(r) \/ DuplicateProject(r)
      PROVE  FALSE
  BY <1>1 DEF ChangeMembers, LockOrganization, ChangeRoster, LockProject, CreateProject,
              DuplicateProject, Start
<1>2. ASSUME NEW r \in Requests, Rollback(r) PROVE FALSE
  BY <1>2 DEF Rollback, tables
<1>3. ASSUME NEW r \in Requests, CheckOwner(r) \/ FindMember(r) \/ ListProjects(r) PROVE FALSE
  BY <1>2, <1>3 DEF CheckOwner, FindMember, ListProjects, Proceed
<1>4. ASSUME NEW r \in Requests, Authorize(r) \/ InsertMember(r) \/ FindProjectMember(r)
      PROVE  FALSE
  BY <1>2, <1>4 DEF Authorize, InsertMember, FindProjectMember, Proceed
<1>5. ASSUME NEW r \in Requests, CommitRoster(r) \/ InsertProject(r) \/ CommitProject(r)
      PROVE  FALSE
  BY <1>5 DEF CommitRoster, InsertProject, CommitProject
<1>6. ASSUME NEW r \in Requests, Fail(r) PROVE FALSE
  BY <1>2, <1>6 DEF Fail
<1>7. ~ UNCHANGED vars
  BY DEF vars
<1> QED
  BY <1>1, <1>3, <1>4, <1>5, <1>6, <1>7 DEF Next

\* A change of members commits while its actor is an OWNER, and a removal
\* while its list has every Project of the organization.
LEMMA CommitMemberFacts ==
  ASSUME IInv, NEW r \in Requests, CommitMember(r)
  PROVE  /\ op[r].org \in Organizations /\ op[r].actor \in OwnersOf(op[r].org)
         /\ op[r].kind = "removeMember" => ProjectsOf(op[r].org) \subseteq op[r].listed
         /\ op'[r] # op[r]
         /\ \A q \in Requests \ {r} : op'[q] = op[q]
         /\ \A o \in Organizations \ {op[r].org} : memberRole'[o] = memberRole[o]
<1>1. /\ MemberInv(r) /\ TypeOK /\ pc[r] = "commit" /\ op[r].kind \in MemberKinds /\ End(r)
      /\ memberRole' = [memberRole EXCEPT ![op[r].org][op[r].user] = op[r].role]
  BY DEF CommitMember, IInv, RequestInv
<1>2. /\ op[r].org \in Organizations /\ op[r].actor \in OwnersOf(op[r].org)
      /\ op[r].kind = "removeMember" => ProjectsOf(op[r].org) \subseteq op[r].listed
  BY <1>1 DEF MemberInv
<1>3. op'[r] = NoOp /\ \A q \in Requests \ {r} : op'[q] = op[q]
  BY <1>1, EndInv
<1>4. op'[r] # op[r]
  BY <1>1, <1>3, NoOpIsOp
<1>5. \A o \in Organizations \ {op[r].org} : memberRole'[o] = memberRole[o]
  BY <1>1 DEF TypeOK
<1> QED
  BY <1>2, <1>3, <1>4, <1>5

\* A new organization changes no other and no request.
LEMMA CreateOrganizationFacts ==
  ASSUME IInv, NEW x \in Organizations, NEW u \in Users, CreateOrganization(x, u)
  PROVE  /\ primary[x] = None /\ op' = op
         /\ \A o \in Organizations \ {x} : memberRole'[o] = memberRole[o]
BY DEF CreateOrganization, IInv, TypeOK

\* Whoever changes the members of an organization is its OWNER at the commit:
\* an OWNER removed meanwhile cannot finish what it had begun.
THEOREM OnlyOwnersChangeMembers == Spec => OwnersChangeMembers
<1> DEFINE Changed(o) ==
      memberRole'[o] # memberRole[o] /\ primary[o] # None
      => \E r \in Requests : /\ op[r].org = o /\ op'[r] # op[r]
                             /\ op[r].actor \in OwnersOf(o)
<1>1. ASSUME IInv, [Next]_vars, NEW o \in Organizations PROVE Changed(o)
  <2> SUFFICES ASSUME memberRole'[o] # memberRole[o], primary[o] # None
               PROVE  \E r \in Requests : /\ op[r].org = o /\ op'[r] # op[r]
                                          /\ op[r].actor \in OwnersOf(o)
    OBVIOUS
  <2>1. memberRole' # memberRole
    OBVIOUS
  <2>2. ASSUME NEW x \in Organizations, NEW u \in Users, CreateOrganization(x, u) PROVE FALSE
    BY <1>1, <2>2, CreateOrganizationFacts
  <2>3. PICK r \in Requests : CommitMember(r)
    BY <1>1, <2>1, <2>2, MembersWritten
  <2> QED
    BY <1>1, <2>3, CommitMemberFacts
<1>2. IInv /\ [Next]_vars => [\A o \in Organizations : Changed(o)]_vars
  BY <1>1
<1> QED
  BY <1>2, Invariance, PTL DEF Spec, OwnersChangeMembers

\* The Projects that are reauthorized after a removal are all the
\* organization's Projects of that moment, because a Project cannot be
\* inserted while the Organization row is locked.
THEOREM RemovalReachesEveryProject == Spec => RemovalCoversProjects
<1> DEFINE Covered(r) ==
      op[r].kind = "removeMember" /\ memberRole' # memberRole /\ op'[r] # op[r]
      => ProjectsOf(op[r].org) \subseteq op[r].listed
<1>1. ASSUME IInv, [Next]_vars, NEW r \in Requests PROVE Covered(r)
  <2> SUFFICES ASSUME op[r].kind = "removeMember", memberRole' # memberRole, op'[r] # op[r]
               PROVE  ProjectsOf(op[r].org) \subseteq op[r].listed
    OBVIOUS
  <2>1. ASSUME NEW x \in Organizations, NEW u \in Users, CreateOrganization(x, u) PROVE FALSE
    BY <1>1, <2>1, CreateOrganizationFacts
  <2>2. PICK s \in Requests : CommitMember(s)
    BY <1>1, <2>1, MembersWritten
  <2> QED
    BY <1>1, <2>2, CommitMemberFacts
<1>2. IInv /\ [Next]_vars => [\A r \in Requests : Covered(r)]_vars
  BY <1>1
<1> QED
  BY <1>2, Invariance, PTL DEF Spec, RemovalCoversProjects

-----------------------------------------------------------------------------
(* The entitlement of roster changes, over the history of authority.       *)

\* A roster request past its check is entitled, or is someone leaving; only
\* the one who leaves gives up a row.
EntitledInv ==
  /\ Entitled \subseteq entitled
  /\ \A r \in Requests :
       op[r].kind \in RosterKinds =>
         /\ op[r].kind = "remove" => op[r].role = None
         /\ pc[r] # "authorize" => \/ r \in entitled
                                   \/ op[r].kind = "remove" /\ op[r].user = op[r].actor

\* What a step does with a roster request: it starts it, checks its actor, or
\* leaves what it asks for alone.
RosterStep(r) ==
  \/ op'[r] = op[r] /\ pc'[r] = pc[r]
  \/ op'[r] = op[r] /\ pc[r] # "authorize"
  \/ pc'[r] = "authorize" /\ (op'[r].kind = "remove" => op'[r].role = None)
  \/ /\ op'[r] = op[r]
     /\ \/ OwnerAuthority(op[r].actor, op[r].proj)
        \/ op[r].kind = "remove" /\ op[r].user = op[r].actor

\* Each statement of a request does to a roster request what RosterStep says.
LEMMA RosterSteps ==
  ASSUME IInv, [Next]_vars, NEW r \in Requests, op'[r].kind \in RosterKinds
  PROVE  RosterStep(r)
<1>1. TypeOK /\ pc \in [Requests -> PCs] /\ op \in [Requests -> Op]
  BY DEF IInv, TypeOK
<1>2. ASSUME NEW q \in Requests, End(q) PROVE RosterStep(r)
  <2>1. CASE q = r
    <3>1. op'[r] = NoOp
      BY <1>2, <2>1, EndInv
    <3> QED
      BY <3>1, NoOpIsOp
  <2>2. CASE q # r
    BY <1>2, <2>2, EndInv DEF RosterStep
  <2> QED
    BY <2>1, <2>2
<1>3. ASSUME NEW q \in Requests, NEW next, Proceed(q, next), q = r => pc[r] # "authorize"
      PROVE  RosterStep(r)
  BY <1>1, <1>3 DEF Proceed, Goto, RosterStep
<1>4. ASSUME NEW q \in Requests, NEW first, NEW request, Start(q, first, request),
             q = r => first = "authorize" /\ (request.kind = "remove" => request.role = None)
      PROVE  RosterStep(r)
  BY <1>1, <1>4 DEF Start, Goto, RosterStep
<1>5. ASSUME NEW q \in Requests, Rollback(q) PROVE RosterStep(r)
  BY <1>2, <1>5 DEF Rollback
<1>6. ASSUME NEW o \in Organizations, NEW u \in Users, CreateOrganization(o, u)
      PROVE  RosterStep(r)
  BY <1>6 DEF CreateOrganization, RosterStep
<1>7. ASSUME NEW q \in Requests, ChangeMembers(q) PROVE RosterStep(r)
  <2>1. PICK o \in Organizations, actor \in Users, user \in Users, kind \in MemberKinds,
             role \in Roles \cup {None} :
          LockOrganization(q, [NoOp EXCEPT !.kind = kind, !.actor = actor, !.org = o,
                                           !.user = user, !.role = role])
    BY <1>7 DEF ChangeMembers, MemberKinds, Roles
  <2> DEFINE request == [NoOp EXCEPT !.kind = kind, !.actor = actor, !.org = o,
                                     !.user = user, !.role = role]
  <2>2. request.kind = kind
    BY DEF NoOp
  <2>3. Start(q, "checkOwner", request)
    BY <2>1 DEF LockOrganization
  <2> HIDE DEF request
  <2>4. q # r
    BY <1>1, <2>2, <2>3, KindsDiffer DEF Start
  <2> QED
    BY <1>4, <2>3, <2>4
<1>8. ASSUME NEW q \in Requests, ChangeRoster(q) PROVE RosterStep(r)
  <2>1. PICK p \in Projects, actor \in Users, user \in Users, kind \in RosterKinds :
          \E role \in IF kind = "remove" THEN {None} ELSE Roles :
            LockProject(q, [NoOp EXCEPT !.kind = kind, !.actor = actor, !.proj = p,
                                        !.user = user, !.role = role], p)
    BY <1>8 DEF ChangeRoster
  <2>2. PICK role \in IF kind = "remove" THEN {None} ELSE Roles :
          LockProject(q, [NoOp EXCEPT !.kind = kind, !.actor = actor, !.proj = p,
                                      !.user = user, !.role = role], p)
    BY <2>1
  <2> DEFINE request == [NoOp EXCEPT !.kind = kind, !.actor = actor, !.proj = p,
                                     !.user = user, !.role = role]
  <2>3. request.kind = kind /\ request.role = role
    BY DEF NoOp
  <2>4. Start(q, "authorize", request)
    BY <2>2 DEF LockProject
  <2>5. request.kind = "remove" => request.role = None
    BY <2>2, <2>3
  <2> HIDE DEF request
  <2> QED
    BY <1>4, <2>4, <2>5
<1>9. ASSUME NEW q \in Requests, CreateProject(q) \/ DuplicateProject(q) PROVE RosterStep(r)
  <2>1. PICK first, request :
          Start(q, first, request) /\ request.kind \in ProjectKinds
    <3>1. CASE CreateProject(q)
      <4>1. PICK p \in Projects, actor \in Users :
              Start(q, "insertProject",
                    [NoOp EXCEPT !.kind = "create", !.actor = actor, !.proj = p])
        BY <3>1 DEF CreateProject
      <4>2. [NoOp EXCEPT !.kind = "create", !.actor = actor, !.proj = p].kind \in ProjectKinds
        BY DEF NoOp, ProjectKinds
      <4> QED
        BY <4>1, <4>2
    <3>2. CASE DuplicateProject(q)
      <4>1. PICK p \in Projects, source \in Projects, actor \in Users :
              Start(q, "authorize",
                    [NoOp EXCEPT !.kind = "duplicate", !.actor = actor,
                                 !.proj = p, !.source = source])
        BY <3>2 DEF DuplicateProject, LockProject
      <4>2. [NoOp EXCEPT !.kind = "duplicate", !.actor = actor,
                         !.proj = p, !.source = source].kind \in ProjectKinds
        BY DEF NoOp, ProjectKinds
      <4> QED
        BY <4>1, <4>2
    <3> QED
      BY <1>9, <3>1, <3>2
  <2>2. q # r
    BY <1>1, <2>1, KindsDiffer DEF Start
  <2> QED
    BY <1>4, <2>1, <2>2
<1>10. ASSUME NEW q \in Requests, CheckOwner(q) \/ InsertMember(q) \/ FindProjectMember(q)
       PROVE  RosterStep(r)
  BY <1>3, <1>5, <1>10 DEF CheckOwner, InsertMember, FindProjectMember
<1>11. ASSUME NEW q \in Requests, FindMember(q) PROVE RosterStep(r)
  <2>1. CASE \E next : Proceed(q, next)
    BY <1>3, <1>11, <2>1 DEF FindMember
  <2>2. CASE \E heir, next : op' = [op EXCEPT ![q].heir = heir] /\ Goto(q, next)
    <3>1. PICK heir, next : op' = [op EXCEPT ![q].heir = heir] /\ Goto(q, next)
      BY <2>2
    <3>2. pc[q] # "idle" /\ pc[q] = "findMember" /\ RosterInv(q)
      BY <1>11 DEF FindMember, IInv, RequestInv
    <3>3. op[q].kind \notin RosterKinds
      BY <3>2 DEF RosterInv
    <3>4. op'[q].kind = op[q].kind
      BY <1>1, <3>1 DEF Op
    <3>5. q # r
      BY <3>3, <3>4
    <3> QED
      BY <1>1, <3>1, <3>5 DEF Goto, RosterStep
  <2> QED
    BY <1>5, <1>11, <2>1, <2>2 DEF FindMember
<1>12. ASSUME NEW q \in Requests, ListProjects(q) PROVE RosterStep(r)
  <2>1. /\ op' = [op EXCEPT ![q].listed = ProjectsOf(op[q].org)]
        /\ pc' = [pc EXCEPT ![q] = "commit"] /\ pc[q] = "listProjects" /\ RosterInv(q)
    BY <1>12 DEF ListProjects, Goto, IInv, RequestInv
  <2>2. op[q].kind \notin RosterKinds
    BY <2>1 DEF RosterInv
  <2>3. op'[q].kind = op[q].kind
    BY <1>1, <2>1 DEF Op
  <2>4. q # r
    BY <2>2, <2>3
  <2> QED
    BY <1>1, <2>1, <2>4 DEF RosterStep
<1>13. ASSUME NEW q \in Requests, CommitMember(q) \/ CommitRoster(q) \/ CommitProject(q)
       PROVE  RosterStep(r)
  BY <1>2, <1>13 DEF CommitMember, CommitRoster, CommitProject
<1>14. ASSUME NEW q \in Requests, Authorize(q) PROVE RosterStep(r)
  <2>1. CASE Rollback(q)
    BY <1>5, <2>1
  <2>2. CASE q # r /\ \E next : Proceed(q, next)
    BY <1>3, <2>2
  <2>3. CASE q = r /\ \E next : Proceed(r, next)
    <3>1. op' = op
      BY <2>3 DEF Proceed
    <3>2. op[r].kind # "duplicate"
      BY <3>1 DEF RosterKinds
    <3>3. \/ Rollback(r)
          \/ OwnerAuthority(op[r].actor, op[r].proj)
          \/ op[r].kind = "remove" /\ op[r].user = op[r].actor
      BY <1>14, <2>3, <3>2 DEF Authorize
    <3> QED
      BY <1>5, <3>1, <3>3 DEF RosterStep
  <2> QED
    BY <1>14, <2>1, <2>2, <2>3 DEF Authorize
<1>15. ASSUME NEW q \in Requests, InsertProject(q) PROVE RosterStep(r)
  <2>1. op' = op /\ pc' = [pc EXCEPT ![q] = "commit"] /\ pc[q] = "insertProject"
    BY <1>15 DEF InsertProject, Goto
  <2> QED
    BY <1>1, <2>1 DEF RosterStep
<1>16. ASSUME NEW q \in Requests, Fail(q) PROVE RosterStep(r)
  BY <1>5, <1>16 DEF Fail
<1>17. CASE UNCHANGED vars
  BY <1>17 DEF vars, RosterStep
<1> QED
  BY <1>6, <1>7, <1>8, <1>9, <1>10, <1>11, <1>12, <1>13, <1>14, <1>15, <1>16, <1>17 DEF Next

\* A step with its history: entitlement lasts as long as the request.
LEMMA HistoryStep ==
  ASSUME Entitled \subseteq entitled, [HNext]_<<vars, entitled>>
  PROVE  /\ [Next]_vars
         /\ (Entitled \subseteq entitled)'
         /\ \A r \in Requests : op'[r].kind \in RosterKinds /\ r \in entitled => r \in entitled'
<1>1. CASE HNext
  BY <1>1, NoOpIsOp DEF HNext
<1>2. CASE UNCHANGED <<vars, entitled>>
  <2>1. Entitled' = Entitled
    BY <1>2 DEF Entitled, vars
  <2> QED
    BY <1>2, <2>1
<1> QED
  BY <1>1, <1>2

\* Nobody has asked for anything at first.
LEMMA InitEntitled == HInit => EntitledInv
BY NoOpIsOp DEF HInit, Init, EntitledInv, Entitled

\* Every step keeps the entitlement of those past their check.
LEMMA NextEntitled ==
  IInv /\ EntitledInv /\ [HNext]_<<vars, entitled>> => EntitledInv'
<1> SUFFICES ASSUME IInv, EntitledInv, [HNext]_<<vars, entitled>> PROVE EntitledInv'
  OBVIOUS
<1>1. /\ [Next]_vars
      /\ (Entitled \subseteq entitled)'
      /\ \A r \in Requests : op'[r].kind \in RosterKinds /\ r \in entitled => r \in entitled'
  BY HistoryStep DEF EntitledInv
<1>2. ASSUME NEW r \in Requests, op'[r].kind \in RosterKinds
      PROVE  /\ op'[r].kind = "remove" => op'[r].role = None
             /\ pc'[r] # "authorize" => \/ r \in entitled'
                                        \/ op'[r].kind = "remove" /\ op'[r].user = op'[r].actor
  <2>1. RosterStep(r)
    BY <1>1, <1>2, RosterSteps
  <2>2. CASE pc'[r] = "authorize" /\ (op'[r].kind = "remove" => op'[r].role = None)
    BY <2>2
  <2>3. CASE op'[r] = op[r] /\ (pc[r] # "authorize" \/ pc'[r] = pc[r])
    BY <1>1, <1>2, <2>3 DEF EntitledInv
  <2>4. CASE /\ op'[r] = op[r]
             /\ \/ OwnerAuthority(op[r].actor, op[r].proj)
                \/ op[r].kind = "remove" /\ op[r].user = op[r].actor
    <3>1. OwnerAuthority(op[r].actor, op[r].proj) => r \in Entitled
      BY <1>2, <2>4 DEF Entitled, OwnerAuthority, OwnersOf, ProjectOwnersOf
    <3> QED
      BY <1>1, <1>2, <2>4, <3>1 DEF EntitledInv
  <2> QED
    BY <2>1, <2>2, <2>3, <2>4 DEF RosterStep
<1> QED
  BY <1>1, <1>2 DEF EntitledInv

\* Only the commits of roster changes write the rosters of Projects there are.
LEMMA RosterWritten ==
  ASSUME IInv, [Next]_vars, NEW p \in created, projectRole'[p] # projectRole[p]
  PROVE  \E r \in Requests : CommitRoster(r) /\ op[r].proj = p
<1>1. p \in Projects /\ TypeOK
  BY DEF IInv, TypeOK
<1>2. ASSUME NEW r \in Requests,
             ChangeMembers(r) \/ ChangeRoster(r) \/ CreateProject(r) \/ DuplicateProject(r)
      PROVE  FALSE
  BY <1>2 DEF ChangeMembers, LockOrganization, ChangeRoster, LockProject, CreateProject,
              DuplicateProject, Start
<1>3. ASSUME NEW r \in Requests, Rollback(r) PROVE FALSE
  BY <1>3 DEF Rollback, tables
<1>4. ASSUME NEW r \in Requests, CheckOwner(r) \/ FindMember(r) \/ ListProjects(r) PROVE FALSE
  BY <1>3, <1>4 DEF CheckOwner, FindMember, ListProjects, Proceed
<1>5. ASSUME NEW r \in Requests, Authorize(r) \/ InsertMember(r) \/ FindProjectMember(r)
      PROVE  FALSE
  BY <1>3, <1>5 DEF Authorize, InsertMember, FindProjectMember, Proceed
<1>6. ASSUME NEW r \in Requests, CommitMember(r) \/ InsertProject(r) PROVE FALSE
  BY <1>6 DEF CommitMember, InsertProject
<1>7. ASSUME NEW r \in Requests, CommitProject(r) PROVE FALSE
  <2>1. op[r].proj \in Projects \ created
    BY <1>7 DEF CommitProject, IInv, RequestInv, ProjectInv
  <2> QED
    BY <1>1, <1>7, <2>1 DEF CommitProject, TypeOK
<1>8. ASSUME NEW r \in Requests, CommitRoster(r) PROVE op[r].proj = p
  BY <1>1, <1>8 DEF CommitRoster, TypeOK
<1>9. ASSUME NEW r \in Requests, Fail(r) PROVE FALSE
  BY <1>3, <1>9 DEF Fail
<1>10. ASSUME NEW o \in Organizations, NEW u \in Users, CreateOrganization(o, u) PROVE FALSE
  BY <1>10 DEF CreateOrganization
<1>11. ~ UNCHANGED vars
  BY DEF vars
<1> QED
  BY <1>2, <1>4, <1>5, <1>6, <1>7, <1>8, <1>9, <1>10, <1>11 DEF Next

\* The roster of a project is changed by someone who has had owner authority
\* over it during the request, or by the member who leaves: add, updateRole and
\* remove check the actor under the Project's lock, though not under the
\* Organization's, where the authority may come from.
THEOREM RosterChangesAreEntitled == HSpec => RosterChangesEntitled
<1> DEFINE Changed(p) ==
      projectRole'[p] # projectRole[p]
      => \E r \in Requests :
           /\ op[r].proj = p /\ op'[r] # op[r]
           /\ \/ r \in entitled
              \/ op[r].role = None /\ op[r].user = op[r].actor
<1>1. ASSUME IInv, EntitledInv, [HNext]_<<vars, entitled>>, NEW p \in created
      PROVE  Changed(p)
  <2> SUFFICES ASSUME projectRole'[p] # projectRole[p]
               PROVE  \E r \in Requests :
                        /\ op[r].proj = p /\ op'[r] # op[r]
                        /\ \/ r \in entitled
                           \/ op[r].role = None /\ op[r].user = op[r].actor
    OBVIOUS
  <2>1. [Next]_vars
    BY <1>1, HistoryStep DEF EntitledInv
  <2>2. PICK r \in Requests : CommitRoster(r) /\ op[r].proj = p
    BY <1>1, <2>1, RosterWritten
  <2>3. op'[r] = NoOp /\ op[r].kind \in RosterKinds /\ pc[r] = "commit"
    BY <1>1, <2>2, EndInv DEF CommitRoster
  <2>4. op'[r] # op[r]
    BY <2>3, NoOpIsOp
  <2> QED
    BY <1>1, <2>2, <2>3, <2>4 DEF EntitledInv
<1>2. IInv /\ EntitledInv /\ [HNext]_<<vars, entitled>>
      => [\A p \in created : Changed(p)]_<<vars, entitled>>
  BY <1>1
<1>3. HInit => IInv
  BY InitInv DEF HInit
<1>4. IInv /\ EntitledInv /\ [HNext]_<<vars, entitled>> => IInv'
  BY NextInv, HistoryStep DEF EntitledInv
<1>5. HSpec => [](IInv /\ EntitledInv)
  BY <1>3, <1>4, InitEntitled, NextEntitled, PTL DEF HSpec
<1> QED
  BY <1>2, <1>5, PTL DEF HSpec, RosterChangesEntitled
=============================================================================
