------------------------ MODULE RealtimeClientProofs ------------------------
(***************************************************************************)
(* Theorems about realtime delivery and the browsers behind it: Realtime   *)
(* and its history, for any number of users, Projects, sockets, handlers   *)
(* and deliveries at the same time; ClientCache with the tables of Panels, *)
(* for any number of changes; KanbanMove, for any board; and Drafts, for   *)
(* any fields and texts.                                                   *)
(*                                                                         *)
(* HInv says what a delivery has found out about a socket by the stage to  *)
(* which it has come, and that whoever is in a room without access is      *)
(* about to be looked up.  A delivery, a handler and a commit that changes *)
(* memberships can each step between any two steps of another.             *)
(*                                                                         *)
(* CacheInv says that a query covers what this browser has handled: the    *)
(* data has it, a fetch is to be read or has read it, or a request is      *)
(* bound to refresh the query.  KanbanInv relates the request of a drop to *)
(* the board that is shown, and DraftsInv a form to what was typed.        *)
(***************************************************************************)
EXTENDS RealtimeHistory, ClientCache, KanbanMove, Drafts,
        SequenceTheorems, FiniteSetTheorems, TLAPS

-----------------------------------------------------------------------------
(* The inductive invariant of Realtime.                                    *)

\* What a handler of a socket holds between two of its steps.
Handler == {Idle} \cup [socket : Sockets, project : Projects, pc : {"access", "join"}]

\* A delivery under way.
Delivery == [kind : Kinds, room : Projects \cup {"user"}, stage : [Sockets -> Stages]]

\* How far a delivery can have come for a socket, by its kind.
StagesFit(k, s) ==
  /\ publication[k].stage[s] = "access" => publication[k].kind # "notification:event"
  /\ publication[k].stage[s] \in {"emit", "sent"} => publication[k].kind # "reauthorize"

\* What has been found out about a socket by the stage that it has come to.
FoundOut(k, s) ==
  /\ publication[k].stage[s] \in {"access", "emit", "sent"} => <<"session", s>> \in authorized[k]
  /\ publication[k].stage[s] \in {"emit", "sent"} => <<"access", s>> \in authorized[k]
  /\ publication[k].stage[s] \in {"refused", "error", "left"} => s \in doubted[k]

\* The inductive invariant of Realtime and its history.
HInv ==
  /\ TypeOK
  /\ \A k \in Publications, s \in Sockets : StagesFit(k, s) /\ FoundOut(k, s)
  /\ RoomsFollowAccess

-----------------------------------------------------------------------------
(* Deliveries.                                                             *)

\* A delivery is quiet, or under way.
LEMMA DeliveryIs ==
  ASSUME TypeOK, NEW k \in Publications
  PROVE  /\ publication[k] = Quiet \/ publication[k] \in Delivery
         /\ publication[k].stage \in [Sockets -> Stages]
<1>1. publication[k] = Quiet \/ publication[k] \in Delivery
  BY DEF TypeOK, Delivery
<1>2. Quiet.stage \in [Sockets -> Stages]
  BY DEF Quiet, Stages
<1> QED
  BY <1>1, <1>2 DEF Delivery

\* The two are apart: a quiet delivery has nothing to do for any socket.
LEMMA QuietIs ==
  /\ \A s \in Sockets : Quiet.stage[s] = "out"
  /\ Quiet.kind = "none"
  /\ \A d \in Delivery : d # Quiet
BY DEF Quiet, Delivery, Kinds

\* The history of a delivery that is under way grows.
LEMMA HistoryGrows ==
  ASSUME HNext, NEW k \in Publications, publication'[k] # Quiet
  PROVE  /\ authorized'[k] = authorized[k] \cup Seen(k)'
         /\ doubted'[k] = doubted[k] \cup Doubts(k)'
BY DEF HNext

\* Where a delivery is not touched, what has been found out stays.
LEMMA StageStays ==
  ASSUME HInv, HNext, NEW k \in Publications, NEW s \in Sockets,
         publication'[k].kind = publication[k].kind,
         publication'[k].stage[s] = publication[k].stage[s],
         publication'[k] = Quiet => publication[k] = Quiet
  PROVE  StagesFit(k, s)' /\ FoundOut(k, s)'
<1>1. StagesFit(k, s) /\ FoundOut(k, s)
  BY DEF HInv
<1>0. /\ publication'[k].kind = publication[k].kind
      /\ publication'[k].stage[s] = publication[k].stage[s]
  OBVIOUS
<1>2. StagesFit(k, s)'
  BY <1>0, <1>1 DEF StagesFit
<1>3. FoundOut(k, s)'
  <2>1. CASE publication'[k] = Quiet
    <3>1. publication'[k].stage[s] = "out"
      BY <2>1, QuietIs
    <3> QED
      BY <3>1 DEF FoundOut
  <2>2. CASE publication'[k] # Quiet
    BY <1>0, <1>1, <2>2, HistoryGrows DEF FoundOut
  <2> QED
    BY <2>1, <2>2
<1> QED
  BY <1>2, <1>3

\* A step of delivery k for socket s, and what else it leaves alone.
LEMMA BecomesIs ==
  ASSUME TypeOK, NEW k \in Publications, NEW s \in Sockets, NEW stage \in Stages,
         publication[k].stage[s] \notin Done,
         publication' = [publication EXCEPT ![k].stage[s] = stage]
  PROVE  /\ publication' \in [Publications -> {Quiet} \cup Delivery]
         /\ publication[k] \in Delivery /\ publication'[k] \in Delivery
         /\ publication'[k].kind = publication[k].kind
         /\ publication'[k].room = publication[k].room
         /\ publication'[k].stage[s] = stage
         /\ \A t \in Sockets \ {s} : publication'[k].stage[t] = publication[k].stage[t]
         /\ \A j \in Publications \ {k} : publication'[j] = publication[j]
<1>1. publication \in [Publications -> {Quiet} \cup Delivery]
  BY DEF TypeOK, Delivery
<1>2. publication[k] \in Delivery
  <2>1. publication[k] # Quiet
    BY QuietIs DEF Done
  <2> QED
    BY <1>1, <2>1
<1> DEFINE d == [publication[k] EXCEPT !.stage[s] = stage]
<1>3. /\ d \in Delivery /\ d.kind = publication[k].kind /\ d.room = publication[k].room
      /\ d.stage[s] = stage
      /\ \A t \in Sockets \ {s} : d.stage[t] = publication[k].stage[t]
  BY <1>2 DEF Delivery
<1>4. publication' = [publication EXCEPT ![k] = d]
  BY <1>1, <1>2
<1> HIDE DEF d
<1>5. /\ publication' \in [Publications -> {Quiet} \cup Delivery] /\ publication'[k] = d
      /\ \A j \in Publications \ {k} : publication'[j] = publication[j]
  BY <1>1, <1>3, <1>4
<1> QED
  BY <1>2, <1>3, <1>5

-----------------------------------------------------------------------------
(* Rooms.                                                                  *)

\* A step keeps RoomsFollowAccess if it looks up whoever loses access by it, and
\* does not call off a lookup of a socket that stays in the room without access.
LEMMA RoomsKeep ==
  ASSUME HInv, HNext,
         \A s \in Sockets, p \in Projects :
           p \in rooms[s] /\ HasAccess(UserOf[s], p) /\ ~ HasAccess(UserOf[s], p)' => Pending(s, p)',
         \A s \in Sockets, p \in Projects :
           p \in rooms[s] /\ p \in rooms'[s] /\ ~ HasAccess(UserOf[s], p)' /\ Pending(s, p)
             => Pending(s, p)'
  PROVE  RoomsFollowAccess'
<1> SUFFICES ASSUME NEW x \in Strangers', x \notin late'
             PROVE  Pending(x[1], x[2])'
  BY DEF RoomsFollowAccess
<1> DEFINE s == x[1]
           p == x[2]
<1>1. /\ s \in Sockets /\ p \in Projects /\ x \in Sockets \X Projects
      /\ p \in rooms'[s] /\ ~ HasAccess(UserOf[s], p)'
  BY DEF Strangers
<1>2. x \notin late /\ p \in rooms[s]
  BY DEF HNext
<1>3. CASE HasAccess(UserOf[s], p)
  BY <1>1, <1>2, <1>3
<1>4. CASE ~ HasAccess(UserOf[s], p)
  <2>1. x \in Strangers
    BY <1>1, <1>2, <1>4 DEF Strangers
  <2>2. Pending(s, p)
    BY <1>2, <2>1 DEF HInv, RoomsFollowAccess
  <2> QED
    BY <1>1, <1>2, <2>2
<1> QED
  BY <1>3, <1>4

\* Access is what memberships say.
LEMMA SameAccess ==
  ASSUME UNCHANGED <<members, explicit>>, NEW u, NEW p
  PROVE  HasAccess(u, p)' <=> HasAccess(u, p)
BY DEF HasAccess

-----------------------------------------------------------------------------
(* Steps that leave the deliveries alone.                                  *)

\* They keep the invariant if they keep the types, and announce a loss of access.
LEMMA QuietStepInv ==
  ASSUME HInv, HNext, TypeOK', UNCHANGED publication, due \subseteq due',
         \A s \in Sockets, p \in Projects :
           HasAccess(UserOf[s], p) /\ ~ HasAccess(UserOf[s], p)' => p \in due'
  PROVE  HInv'
<1>1. \A k \in Publications, s \in Sockets : StagesFit(k, s)' /\ FoundOut(k, s)'
  BY StageStays
<1>2. \A s \in Sockets, p \in Projects : Pending(s, p) => Pending(s, p)'
  BY DEF Pending
<1>3. \A s \in Sockets, p \in Projects : p \in due' => Pending(s, p)'
  BY DEF Pending
<1>4. RoomsFollowAccess'
  BY <1>2, <1>3, RoomsKeep
<1> QED
  BY <1>1, <1>4 DEF HInv

\* The types of what a step writes.
LEMMA ConnectionsInv ==
  ASSUME HInv, HNext, NEW s \in Sockets, Connect(s) \/ Disconnect(s) \/ EndSession(s)
  PROVE  HInv'
<1>1. TypeOK /\ UNCHANGED <<members, explicit, due, publication, handler>>
  BY DEF HInv, Connect, Disconnect, EndSession, access
<1>2. TypeOK'
  <2>1. /\ rooms \in [Sockets -> SUBSET (OwnRooms \cup Projects)]
        /\ wanted \in [Sockets -> SUBSET Projects] /\ sessions \subseteq Sockets
        /\ \A t \in Sockets : rooms[t] # {} => "self" \in rooms[t]
    BY <1>1 DEF TypeOK, Connected
  <2>2. /\ rooms' \in [Sockets -> SUBSET (OwnRooms \cup Projects)]
        /\ wanted' \in [Sockets -> SUBSET Projects] /\ sessions' \subseteq Sockets
        /\ \A t \in Sockets : rooms'[t] # {} => "self" \in rooms'[t]
    BY <2>1 DEF Connect, Disconnect, EndSession, OwnRooms
  <2> QED
    BY <1>1, <2>2 DEF TypeOK, Connected
<1> QED
  BY <1>1, <1>2, QuietStepInv, SameAccess

\* The steps of a subscribe handler.
LEMMA HandlersInv ==
  ASSUME HInv, HNext, NEW h \in Subscribes,
         \/ \E s \in Sockets, p \in Projects : Subscribe(h, s, p)
         \/ AuthorizeSubscribe(h) \/ Join(h)
  PROVE  HInv'
<1>1. TypeOK /\ UNCHANGED <<members, explicit, due, publication, sessions>>
  BY DEF HInv, Subscribe, AuthorizeSubscribe, Join, access
<1>2. /\ rooms \in [Sockets -> SUBSET (OwnRooms \cup Projects)]
      /\ wanted \in [Sockets -> SUBSET Projects]
      /\ \A t \in Sockets : rooms[t] # {} => "self" \in rooms[t]
      /\ handler \in [Subscribes -> Handler]
  BY <1>1 DEF TypeOK, Connected, Handler
<1>3. Idle \in Handler /\ Idle.pc = "idle"
  BY DEF Handler, Idle
<1>4. CASE \E s \in Sockets, p \in Projects : Subscribe(h, s, p)
  <2>1. PICK s \in Sockets, p \in Projects : Subscribe(h, s, p)
    BY <1>4
  <2>2. [socket |-> s, project |-> p, pc |-> "access"] \in Handler
    BY DEF Handler
  <2>3. handler' \in [Subscribes -> Handler] /\ wanted' \in [Sockets -> SUBSET Projects]
        /\ rooms' = rooms
    BY <1>2, <2>1, <2>2 DEF Subscribe
  <2>4. TypeOK'
    BY <1>1, <1>2, <2>3 DEF TypeOK, Connected, Handler
  <2> QED
    BY <1>1, <2>4, QuietStepInv, SameAccess
<1>5. CASE AuthorizeSubscribe(h)
  <2>1. handler[h].pc = "access" /\ rooms' = rooms /\ wanted' = wanted
    BY <1>5 DEF AuthorizeSubscribe
  <2>2. [handler[h] EXCEPT !.pc = "join"] \in Handler
    BY <1>2, <1>3, <2>1 DEF Handler
  <2>3. handler' \in [Subscribes -> Handler]
    BY <1>2, <1>3, <1>5, <2>2 DEF AuthorizeSubscribe
  <2>4. TypeOK'
    BY <1>1, <1>2, <2>1, <2>3 DEF TypeOK, Connected, Handler
  <2> QED
    BY <1>1, <2>4, QuietStepInv, SameAccess
<1>6. CASE Join(h)
  <2> DEFINE s == handler[h].socket
             p == handler[h].project
  <2>1. handler[h].pc = "join" /\ wanted' = wanted /\ handler' = [handler EXCEPT ![h] = Idle]
        /\ rooms' = IF Connected(s) THEN [rooms EXCEPT ![s] = @ \cup {p}] ELSE rooms
    BY <1>6 DEF Join
  <2>2. s \in Sockets /\ p \in Projects
    BY <1>2, <1>3, <2>1 DEF Handler
  <2> HIDE DEF s, p
  <2>3. /\ rooms' \in [Sockets -> SUBSET (OwnRooms \cup Projects)]
        /\ \A t \in Sockets : rooms'[t] # {} => "self" \in rooms'[t]
        /\ handler' \in [Subscribes -> Handler]
    BY <1>2, <1>3, <2>1, <2>2 DEF Connected
  <2>4. TypeOK'
    BY <1>1, <1>2, <2>1, <2>3 DEF TypeOK, Connected, Handler
  <2> QED
    BY <1>1, <2>4, QuietStepInv, SameAccess
<1> QED
  BY <1>4, <1>5, <1>6

\* Leaving a room takes no event from anybody who may have it.
LEMMA UnsubscribeInv ==
  ASSUME HInv, HNext, NEW s \in Sockets, NEW p \in Projects, Unsubscribe(s, p)
  PROVE  HInv'
<1>1. TypeOK /\ UNCHANGED <<members, explicit, due, publication, sessions, handler>>
  BY DEF HInv, Unsubscribe, access
<1>2. /\ rooms \in [Sockets -> SUBSET (OwnRooms \cup Projects)]
      /\ wanted \in [Sockets -> SUBSET Projects]
      /\ \A t \in Sockets : rooms[t] # {} => "self" \in rooms[t]
  BY <1>1 DEF TypeOK, Connected
<1>3. p # "self"
  BY RoomsAssumption DEF OwnRooms
<1>4. /\ rooms' \in [Sockets -> SUBSET (OwnRooms \cup Projects)]
      /\ wanted' \in [Sockets -> SUBSET Projects]
      /\ \A t \in Sockets : rooms'[t] # {} => "self" \in rooms'[t]
  BY <1>2, <1>3 DEF Unsubscribe
<1>5. TypeOK'
  BY <1>1, <1>4 DEF TypeOK, Connected
<1> QED
  BY <1>1, <1>5, QuietStepInv, SameAccess

\* Who joins gets access; who is removed, or loses a Project, is looked up.
LEMMA MembersInv ==
  ASSUME HInv, HNext, NEW u \in Users,
         \/ AddMember(u) \/ RemoveMember(u)
         \/ \E p \in Projects : AddProjectMember(u, p) \/ RemoveProjectMember(u, p)
  PROVE  HInv'
<1>1. TypeOK /\ UNCHANGED <<sessions, rooms, wanted, handler, publication>>
  BY DEF HInv, AddMember, RemoveMember, AddProjectMember, RemoveProjectMember
<1>2. /\ members' \subseteq Users /\ explicit' \subseteq Users \X Projects
      /\ due' \subseteq Projects /\ due \subseteq due'
  <2>1. members \subseteq Users /\ explicit \subseteq Users \X Projects /\ due \subseteq Projects
    BY <1>1 DEF TypeOK
  <2>2. CASE AddMember(u) \/ RemoveMember(u)
    BY <2>1, <2>2 DEF AddMember, RemoveMember
  <2>3. ASSUME NEW p \in Projects, AddProjectMember(u, p) \/ RemoveProjectMember(u, p)
        PROVE  /\ members' = members /\ explicit' \subseteq explicit \cup {<<u, p>>}
               /\ due' \subseteq due \cup {p} /\ due \subseteq due'
    BY <2>3 DEF AddProjectMember, RemoveProjectMember
  <2> QED
    BY <2>1, <2>2, <2>3
<1>3. TypeOK'
  BY <1>1, <1>2 DEF TypeOK, Connected
<1>4. \A s \in Sockets, p \in Projects :
        HasAccess(UserOf[s], p) /\ ~ HasAccess(UserOf[s], p)' => p \in due'
  BY DEF HasAccess, AddMember, RemoveMember, AddProjectMember, RemoveProjectMember
<1> QED
  BY <1>1, <1>2, <1>3, <1>4, QuietStepInv

-----------------------------------------------------------------------------
(* Steps of deliveries.                                                    *)

\* A delivery begins: every socket of the room is going to be looked up.
LEMMA FetchInv ==
  ASSUME HInv, HNext, NEW k \in Publications, NEW what \in Kinds,
         NEW place \in Projects \cup {"user"}, NEW recipients,
         Fetch(k, what, place, recipients), due' \subseteq due,
         \A p \in due \ due' : what = "reauthorize" /\ place = p /\ recipients = InRoom(p)
  PROVE  HInv'
<1> DEFINE d == [kind |-> what, room |-> place,
                 stage |-> [s \in Sockets |-> IF s \in recipients THEN "session" ELSE "out"]]
<1>1. /\ publication[k] = Quiet /\ publication' = [publication EXCEPT ![k] = d]
      /\ UNCHANGED <<members, explicit, sessions, rooms, wanted, handler>> /\ TypeOK
  BY DEF Fetch, HInv
<1>2. /\ d \in Delivery /\ d.kind = what /\ d.room = place
      /\ \A s \in Sockets : d.stage[s] = IF s \in recipients THEN "session" ELSE "out"
  BY DEF Delivery, Stages
<1> HIDE DEF d
<1>3. /\ publication \in [Publications -> {Quiet} \cup Delivery]
      /\ publication' \in [Publications -> {Quiet} \cup Delivery]
      /\ publication'[k] = d /\ \A j \in Publications \ {k} : publication'[j] = publication[j]
  BY <1>1, <1>2 DEF TypeOK, Delivery
<1>4. TypeOK'
  BY <1>1, <1>3 DEF TypeOK, Connected, Delivery
<1>5. ASSUME NEW j \in Publications, NEW s \in Sockets
      PROVE  StagesFit(j, s)' /\ FoundOut(j, s)'
  <2>1. CASE j = k
    BY <1>2, <1>3, <2>1 DEF StagesFit, FoundOut
  <2>2. CASE j # k
    BY <1>3, <2>2, StageStays
  <2> QED
    BY <2>1, <2>2
<1>6. ASSUME NEW s \in Sockets, NEW p \in Projects, p \in rooms[s], Pending(s, p)
      PROVE  Pending(s, p)'
  <2>1. CASE p \in due'
    BY <2>1 DEF Pending
  <2>2. CASE p \in due /\ p \notin due'
    <3>1. what = "reauthorize" /\ place = p /\ s \in recipients
      BY <1>6, <2>2 DEF InRoom
    <3>2. /\ publication'[k].kind = "reauthorize" /\ publication'[k].room = p
          /\ publication'[k].stage[s] \notin Done
      BY <1>2, <1>3, <3>1 DEF Done
    <3> QED
      BY <3>2 DEF Pending
  <2>3. CASE p \notin due
    <3>1. PICK j \in Publications : /\ publication[j].kind = "reauthorize" /\ publication[j].room = p
                                    /\ publication[j].stage[s] \notin Done
      BY <1>6, <2>3 DEF Pending
    <3>2. j # k
      BY <1>1, <3>1, QuietIs
    <3> QED
      BY <1>3, <3>1, <3>2 DEF Pending
  <2> QED
    BY <2>1, <2>2, <2>3
<1>7. RoomsFollowAccess'
  BY <1>1, <1>6, SameAccess, RoomsKeep
<1> QED
  BY <1>4, <1>5, <1>7 DEF HInv

\* A delivery goes on for one socket.
LEMMA BecomesInv ==
  ASSUME HInv, HNext, NEW k \in Publications, NEW s \in Sockets, NEW stage \in Stages,
         publication[k].stage[s] \notin Done, Becomes(k, s, stage), TypeOK',
         StagesFit(k, s)', FoundOut(k, s)',
         publication[k].room \in rooms'[s] /\ ~ HasAccess(UserOf[s], publication[k].room)
           /\ publication[k].kind = "reauthorize" => stage \notin Done
  PROVE  HInv'
<1>1. /\ TypeOK /\ UNCHANGED <<members, explicit, due>>
      /\ publication' = [publication EXCEPT ![k].stage[s] = stage]
  BY DEF Becomes, HInv, access
<1>2. /\ publication[k] \in Delivery /\ publication'[k] \in Delivery
      /\ publication'[k].kind = publication[k].kind
      /\ publication'[k].room = publication[k].room
      /\ publication'[k].stage[s] = stage
      /\ \A t \in Sockets \ {s} : publication'[k].stage[t] = publication[k].stage[t]
      /\ \A j \in Publications \ {k} : publication'[j] = publication[j]
  BY <1>1, BecomesIs
<1>3. ASSUME NEW j \in Publications, NEW t \in Sockets
      PROVE  StagesFit(j, t)' /\ FoundOut(j, t)'
  <2>1. CASE j = k /\ t = s
    BY <2>1
  <2>2. CASE j # k
    BY <1>2, <2>2, StageStays
  <2>3. CASE j = k /\ t # s
    BY <1>2, <2>3, QuietIs, StageStays
  <2> QED
    BY <2>1, <2>2, <2>3
<1>4. ASSUME NEW t \in Sockets, NEW p \in Projects, p \in rooms'[t], ~ HasAccess(UserOf[t], p)',
             Pending(t, p)
      PROVE  Pending(t, p)'
  <2>1. CASE p \in due
    BY <1>1, <2>1 DEF Pending
  <2>2. CASE p \notin due
    <3>1. PICK j \in Publications : /\ publication[j].kind = "reauthorize" /\ publication[j].room = p
                                    /\ publication[j].stage[t] \notin Done
      BY <1>4, <2>2 DEF Pending
    <3>2. publication'[j].kind = "reauthorize" /\ publication'[j].room = p
      BY <1>2, <3>1
    <3>3. publication'[j].stage[t] \notin Done
      <4>1. CASE j = k /\ t = s
        <5>1. ~ HasAccess(UserOf[s], p)
          BY <1>1, <1>4, <4>1, SameAccess
        <5> QED
          BY <1>2, <1>4, <3>1, <4>1, <5>1
      <4>2. CASE j # k \/ t # s
        BY <1>2, <3>1, <4>2
      <4> QED
        BY <4>1, <4>2
    <3> QED
      BY <3>2, <3>3 DEF Pending
  <2> QED
    BY <2>1, <2>2
<1>5. RoomsFollowAccess'
  BY <1>1, <1>4, SameAccess, RoomsKeep
<1> QED
  BY <1>3, <1>5 DEF HInv

\* Types after a step that leaves the rooms alone.
LEMMA BecomesTypes ==
  ASSUME TypeOK, NEW k \in Publications, NEW s \in Sockets, NEW stage \in Stages,
         publication[k].stage[s] \notin Done, Becomes(k, s, stage), UNCHANGED rooms
  PROVE  TypeOK'
<1>1. /\ UNCHANGED <<members, explicit, due, sessions, wanted, handler>>
      /\ publication' = [publication EXCEPT ![k].stage[s] = stage]
  BY DEF Becomes, access
<1>2. publication' \in [Publications -> {Quiet} \cup Delivery]
  BY <1>1, BecomesIs
<1> QED
  BY <1>1, <1>2 DEF TypeOK, Connected, Delivery

\* What the history of a delivery has of the socket that it has just come to.
LEMMA HistoryHas ==
  ASSUME HInv, HNext, NEW k \in Publications, NEW s \in Sockets, NEW stage \in Stages,
         publication[k].stage[s] \notin Done, Becomes(k, s, stage)
  PROVE  /\ s \in sessions => <<"session", s>> \in authorized'[k]
         /\ s \notin sessions => s \in doubted'[k]
         /\ Accessible(k, s) => <<"access", s>> \in authorized'[k]
         /\ ~ Accessible(k, s) => s \in doubted'[k]
         /\ stage = "error" => s \in doubted'[k]
         /\ authorized[k] \subseteq authorized'[k] /\ doubted[k] \subseteq doubted'[k]
<1>1. /\ UNCHANGED <<members, explicit, sessions>> /\ TypeOK
      /\ publication' = [publication EXCEPT ![k].stage[s] = stage]
  BY DEF Becomes, access, HInv
<1>2. /\ publication'[k] \in Delivery /\ publication'[k].kind = publication[k].kind
      /\ publication'[k].room = publication[k].room /\ publication'[k].stage[s] = stage
  BY <1>1, BecomesIs
<1>3. publication'[k] # Quiet
  BY <1>2, QuietIs
<1>4. /\ authorized'[k] = authorized[k] \cup Seen(k)'
      /\ doubted'[k] = doubted[k] \cup Doubts(k)'
  BY <1>3, HistoryGrows
<1>5. Accessible(k, s)' <=> Accessible(k, s)
  BY <1>1, <1>2 DEF Accessible, HasAccess
<1>6. /\ s \in sessions => <<"session", s>> \in Seen(k)'
      /\ Accessible(k, s) => <<"access", s>> \in Seen(k)'
  BY <1>1, <1>3, <1>5 DEF Seen
<1>7. /\ s \notin sessions => s \in Doubts(k)'
      /\ ~ Accessible(k, s) => s \in Doubts(k)'
      /\ stage = "error" => s \in Doubts(k)'
  BY <1>1, <1>2, <1>3, <1>5 DEF Doubts
<1> QED
  BY <1>4, <1>6, <1>7

\* A lookup of the session says whether there is one at that moment.
LEMMA CheckSessionInv ==
  ASSUME HInv, HNext, NEW k \in Publications, NEW s \in Sockets, CheckSession(k, s)
  PROVE  HInv'
<1>1. TypeOK /\ publication[k].stage[s] = "session" /\ rooms' = rooms
  BY DEF CheckSession, HInv
<1>2. publication[k].stage[s] \notin Done
  BY <1>1 DEF Done
<1>3. ASSUME NEW stage \in {"access", "emit", "refused", "error"}, Becomes(k, s, stage),
             stage = "access" => s \in sessions /\ publication[k].kind # "notification:event",
             stage = "emit" => s \in sessions /\ publication[k].kind = "notification:event",
             stage = "refused" => s \notin sessions
      PROVE  HInv'
  <2>1. stage \in Stages /\ stage \notin Done
    BY DEF Stages, Done
  <2>2. TypeOK'
    BY <1>1, <1>2, <1>3, <2>1, BecomesTypes
  <2>3. publication'[k].kind = publication[k].kind /\ publication'[k].stage[s] = stage
    BY <1>1, <1>2, <1>3, <2>1, BecomesIs DEF Becomes
  <2>4. StagesFit(k, s)'
    BY <1>3, <2>3 DEF StagesFit
  <2>5. FoundOut(k, s)'
    <3>1. stage = "emit" => Accessible(k, s)
      BY <1>3 DEF Accessible
    <3> QED
      BY <1>2, <1>3, <2>1, <2>3, <3>1, HistoryHas DEF FoundOut
  <2> QED
    BY <1>2, <1>3, <2>1, <2>2, <2>4, <2>5, BecomesInv
<1>4. CASE s \in sessions /\ publication[k].kind = "notification:event" /\ Becomes(k, s, "emit")
  BY <1>3, <1>4
<1>5. CASE s \in sessions /\ publication[k].kind # "notification:event" /\ Becomes(k, s, "access")
  BY <1>3, <1>5
<1>6. CASE s \notin sessions /\ Becomes(k, s, "refused")
  BY <1>3, <1>6
<1>7. CASE Becomes(k, s, "error")
  BY <1>3, <1>7
<1> QED
  BY <1>4, <1>5, <1>6, <1>7 DEF CheckSession

\* A lookup of access: a socket that a reauthorization keeps is not a stranger.
LEMMA CheckAccessInv ==
  ASSUME HInv, HNext, NEW k \in Publications, NEW s \in Sockets, CheckAccess(k, s)
  PROVE  HInv'
<1>1. TypeOK /\ publication[k].stage[s] = "access" /\ rooms' = rooms
  BY DEF CheckAccess, HInv
<1>2. publication[k].stage[s] \notin Done
  BY <1>1 DEF Done
<1>3. <<"session", s>> \in authorized[k] /\ publication[k].kind # "notification:event"
  BY <1>1 DEF HInv, StagesFit, FoundOut
<1>4. Accessible(k, s) <=> HasAccess(UserOf[s], publication[k].room)
  BY <1>3 DEF Accessible
<1>5. ASSUME NEW stage \in {"kept", "emit", "refused", "error"}, Becomes(k, s, stage),
             stage = "kept" => Accessible(k, s),
             stage = "emit" => Accessible(k, s) /\ publication[k].kind # "reauthorize",
             stage = "refused" => ~ Accessible(k, s)
      PROVE  HInv'
  <2>1. stage \in Stages /\ (stage \in Done => stage = "kept")
    BY DEF Stages, Done
  <2>2. TypeOK'
    BY <1>1, <1>2, <1>5, <2>1, BecomesTypes
  <2>3. publication'[k].kind = publication[k].kind /\ publication'[k].stage[s] = stage
    BY <1>1, <1>2, <1>5, <2>1, BecomesIs DEF Becomes
  <2>4. StagesFit(k, s)'
    BY <1>5, <2>3 DEF StagesFit
  <2>5. FoundOut(k, s)'
    BY <1>2, <1>3, <1>5, <2>1, <2>3, HistoryHas DEF FoundOut
  <2> QED
    BY <1>2, <1>4, <1>5, <2>1, <2>2, <2>4, <2>5, BecomesInv
<1>6. CASE /\ HasAccess(UserOf[s], publication[k].room) /\ publication[k].kind = "reauthorize"
           /\ Becomes(k, s, "kept")
  BY <1>4, <1>5, <1>6
<1>7. CASE /\ HasAccess(UserOf[s], publication[k].room) /\ publication[k].kind # "reauthorize"
           /\ Becomes(k, s, "emit")
  BY <1>4, <1>5, <1>7
<1>8. CASE ~ HasAccess(UserOf[s], publication[k].room) /\ Becomes(k, s, "refused")
  BY <1>4, <1>5, <1>8
<1>9. CASE Becomes(k, s, "error")
  BY <1>5, <1>9
<1> QED
  BY <1>6, <1>7, <1>8, <1>9 DEF CheckAccess

\* Whoever is sent an event had been found to be authorized.
LEMMA EmitInv ==
  ASSUME HInv, HNext, NEW k \in Publications, NEW s \in Sockets, Emit(k, s)
  PROVE  HInv'
<1>1. TypeOK /\ publication[k].stage[s] = "emit" /\ rooms' = rooms
  BY DEF Emit, HInv
<1>2. publication[k].stage[s] \notin Done
  BY <1>1 DEF Done
<1>3. /\ <<"session", s>> \in authorized[k] /\ <<"access", s>> \in authorized[k]
      /\ publication[k].kind # "reauthorize"
  BY <1>1 DEF HInv, StagesFit, FoundOut
<1>4. PICK stage \in {"sent", "kept"} : Becomes(k, s, stage)
  BY DEF Emit
<1>5. stage \in Stages
  BY DEF Stages
<1>6. TypeOK'
  BY <1>1, <1>2, <1>4, <1>5, BecomesTypes
<1>7. publication'[k].kind = publication[k].kind /\ publication'[k].stage[s] = stage
  BY <1>1, <1>2, <1>4, <1>5, BecomesIs DEF Becomes
<1>8. StagesFit(k, s)'
  BY <1>3, <1>7 DEF StagesFit
<1>9. FoundOut(k, s)'
  <2>1. <<"session", s>> \in authorized'[k] /\ <<"access", s>> \in authorized'[k]
    BY <1>2, <1>3, <1>4, <1>5, HistoryHas
  <2> QED
    BY <1>4, <1>7, <2>1 DEF FoundOut
<1> QED
  BY <1>2, <1>3, <1>4, <1>5, <1>6, <1>8, <1>9, BecomesInv

\* Whoever is put out had been doubted, and is no longer in the room.
LEMMA LeaveInv ==
  ASSUME HInv, HNext, NEW k \in Publications, NEW s \in Sockets, Leave(k, s)
  PROVE  HInv'
<1>1. /\ TypeOK /\ publication[k].stage[s] \in {"refused", "error"}
      /\ Becomes(k, s, "left") /\ "left" \in Stages
      /\ rooms' = [rooms EXCEPT ![s] = @ \ {publication[k].room}]
  BY DEF Leave, HInv, Stages
<1>2. publication[k].stage[s] \notin Done
  BY <1>1 DEF Done
<1>3. s \in doubted[k]
  BY <1>1 DEF HInv, FoundOut
<1>4. /\ UNCHANGED <<members, explicit, due, sessions, wanted, handler>>
      /\ publication' = [publication EXCEPT ![k].stage[s] = "left"]
  BY <1>1 DEF Becomes, access
<1>5. /\ publication' \in [Publications -> {Quiet} \cup Delivery]
      /\ publication[k] \in Delivery
      /\ publication'[k].kind = publication[k].kind /\ publication'[k].stage[s] = "left"
  BY <1>1, <1>2, <1>4, BecomesIs
<1>6. publication[k].room # "self"
  BY <1>5, RoomsAssumption DEF Delivery, OwnRooms
<1>7. /\ rooms \in [Sockets -> SUBSET (OwnRooms \cup Projects)]
      /\ \A t \in Sockets : rooms[t] # {} => "self" \in rooms[t]
  BY <1>1 DEF TypeOK, Connected
<1>8. /\ rooms' \in [Sockets -> SUBSET (OwnRooms \cup Projects)]
      /\ \A t \in Sockets : rooms'[t] # {} => "self" \in rooms'[t]
      /\ publication[k].room \notin rooms'[s]
  BY <1>1, <1>6, <1>7
<1>9. TypeOK'
  BY <1>1, <1>4, <1>5, <1>8 DEF TypeOK, Connected, Delivery
<1>10. StagesFit(k, s)'
  BY <1>5 DEF StagesFit
<1>11. FoundOut(k, s)'
  <2>1. s \in doubted'[k]
    BY <1>1, <1>2, <1>3, HistoryHas
  <2> QED
    BY <1>5, <2>1 DEF FoundOut
<1> QED
  BY <1>1, <1>2, <1>8, <1>9, <1>10, <1>11, BecomesInv

\* A delivery that has come to an end had nothing left to look up.
LEMMA SettleInv ==
  ASSUME HInv, HNext, NEW k \in Publications, Settle(k)
  PROVE  HInv'
<1>1. /\ TypeOK /\ UNCHANGED <<members, explicit, due, sessions, rooms, wanted, handler>>
      /\ \A s \in Sockets : publication[k].stage[s] \in Done
      /\ publication' = [publication EXCEPT ![k] = Quiet]
  BY DEF Settle, access, HInv
<1>2. publication \in [Publications -> {Quiet} \cup Delivery]
  BY <1>1 DEF TypeOK, Delivery
<1>3. /\ publication' \in [Publications -> {Quiet} \cup Delivery]
      /\ publication'[k] = Quiet
      /\ \A j \in Publications \ {k} : publication'[j] = publication[j]
  BY <1>1, <1>2
<1>4. TypeOK'
  BY <1>1, <1>3 DEF TypeOK, Connected, Delivery
<1>5. ASSUME NEW j \in Publications, NEW s \in Sockets
      PROVE  StagesFit(j, s)' /\ FoundOut(j, s)'
  <2>1. CASE j = k
    <3>1. publication'[j].kind = "none" /\ publication'[j].stage[s] = "out"
      BY <1>3, <2>1, QuietIs
    <3> QED
      BY <3>1 DEF StagesFit, FoundOut
  <2>2. CASE j # k
    BY <1>3, <2>2, StageStays
  <2> QED
    BY <2>1, <2>2
<1>6. ASSUME NEW s \in Sockets, NEW p \in Projects, Pending(s, p)
      PROVE  Pending(s, p)'
  <2>1. CASE p \in due
    BY <1>1, <2>1 DEF Pending
  <2>2. CASE p \notin due
    <3>1. PICK j \in Publications : /\ publication[j].kind = "reauthorize" /\ publication[j].room = p
                                    /\ publication[j].stage[s] \notin Done
      BY <1>6, <2>2 DEF Pending
    <3> QED
      BY <1>1, <1>3, <3>1 DEF Pending
  <2> QED
    BY <2>1, <2>2
<1>7. RoomsFollowAccess'
  BY <1>1, <1>6, SameAccess, RoomsKeep
<1> QED
  BY <1>4, <1>5, <1>7 DEF HInv

\* A commit's reauthorization takes the place of its announcement.
LEMMA PublishInv ==
  ASSUME HInv, HNext, NEW k \in Publications,
         \/ \E p \in Projects : Publish(k, p) \/ Reauthorize(k, p)
         \/ \E u \in Users : PublishNotification(k, u)
  PROVE  HInv'
<1>1. ASSUME NEW p \in Projects, Publish(k, p)
      PROVE  HInv'
  BY <1>1, FetchInv DEF Publish, Kinds
<1>2. ASSUME NEW p \in Projects, Reauthorize(k, p)
      PROVE  HInv'
  <2>1. /\ Fetch(k, "reauthorize", p, InRoom(p)) /\ due' \subseteq due
        /\ \A q \in due \ due' : q = p
    BY <1>2 DEF Reauthorize
  <2>2. "reauthorize" \in Kinds
    BY DEF Kinds
  <2> QED
    BY <2>1, <2>2, FetchInv
<1>3. ASSUME NEW u \in Users, PublishNotification(k, u)
      PROVE  HInv'
  BY <1>3, FetchInv DEF PublishNotification, Kinds
<1> QED
  BY <1>1, <1>2, <1>3

-----------------------------------------------------------------------------
(* The invariant.                                                          *)

\* At the start nobody is connected.
LEMMA InitInv == HInit => HInv
<1> SUFFICES ASSUME HInit PROVE HInv
  OBVIOUS
<1>1. TypeOK
  BY DEF HInit, Init, TypeOK, Connected
<1>2. ASSUME NEW k \in Publications, NEW s \in Sockets
      PROVE  StagesFit(k, s) /\ FoundOut(k, s)
  <2>1. publication[k].kind = "none" /\ publication[k].stage[s] = "out"
    BY QuietIs DEF HInit, Init
  <2> QED
    BY <2>1 DEF StagesFit, FoundOut
<1>3. Strangers = {}
  BY DEF HInit, Init, Strangers
<1> QED
  BY <1>1, <1>2, <1>3 DEF HInv, RoomsFollowAccess

\* Nothing in it changes while nothing happens.
LEMMA StutterInv ==
  ASSUME HInv, UNCHANGED <<vars, history>>
  PROVE  HInv'
<1>1. /\ UNCHANGED <<members, explicit, due, sessions, rooms, wanted, handler, publication>>
      /\ UNCHANGED <<authorized, doubted, late>>
  BY DEF vars, history
<1>2. TypeOK'
  BY <1>1 DEF HInv, TypeOK, Connected
<1>3. \A k \in Publications, s \in Sockets : StagesFit(k, s)' /\ FoundOut(k, s)'
  BY <1>1 DEF HInv, StagesFit, FoundOut
<1>4. RoomsFollowAccess'
  BY <1>1 DEF HInv, RoomsFollowAccess, Strangers, HasAccess, Pending
<1> QED
  BY <1>2, <1>3, <1>4 DEF HInv

\* Every step keeps the invariant.
LEMMA NextInv ==
  ASSUME HInv, [HNext]_<<vars, history>>
  PROVE  HInv'
<1>1. CASE HNext
  <2>1. Next
    BY <1>1 DEF HNext
  <2>2. ASSUME NEW s \in Sockets, Connect(s) \/ Disconnect(s) \/ EndSession(s)
        PROVE  HInv'
    BY <1>1, <2>2, ConnectionsInv
  <2>3. ASSUME NEW s \in Sockets, NEW p \in Projects, Unsubscribe(s, p)
        PROVE  HInv'
    BY <1>1, <2>3, UnsubscribeInv
  <2>4. ASSUME NEW h \in Subscribes,
               \/ \E s \in Sockets, p \in Projects : Subscribe(h, s, p)
               \/ AuthorizeSubscribe(h) \/ Join(h)
        PROVE  HInv'
    BY <1>1, <2>4, HandlersInv
  <2>5. ASSUME NEW k \in Publications,
               \/ \E p \in Projects : Publish(k, p) \/ Reauthorize(k, p)
               \/ \E u \in Users : PublishNotification(k, u)
        PROVE  HInv'
    BY <1>1, <2>5, PublishInv
  <2>6. ASSUME NEW k \in Publications, Handle(k)
        PROVE  HInv'
    BY <1>1, <2>6, CheckSessionInv, CheckAccessInv, EmitInv, LeaveInv, SettleInv DEF Handle
  <2>7. ASSUME NEW u \in Users,
               \/ AddMember(u) \/ RemoveMember(u)
               \/ \E p \in Projects : AddProjectMember(u, p) \/ RemoveProjectMember(u, p)
        PROVE  HInv'
    BY <1>1, <2>7, MembersInv
  <2> QED
    BY <2>1, <2>2, <2>3, <2>4, <2>5, <2>6, <2>7 DEF Next
<1>2. CASE UNCHANGED <<vars, history>>
  BY <1>2, StutterInv
<1> QED
  BY <1>1, <1>2

\* What a delivery has found out, and who is about to be looked up, at every
\* moment of every behaviour.
THEOREM Invariance == HSpec => []HInv
<1>1. HInit => HInv
  BY InitInv
<1>2. HInv /\ [HNext]_<<vars, history>> => HInv'
  BY NextInv
<1> QED
  BY <1>1, <1>2, PTL DEF HSpec

\* Every variable keeps its type: a connected socket keeps its own room,
\* whatever it is put out of.
THEOREM TypeCorrect == HSpec => []TypeOK
<1>1. HInv => TypeOK
  BY DEF HInv
<1> QED
  BY <1>1, Invariance, PTL

\* emitToAuthorizedSockets sends an event only to sockets that have had a
\* session and access since its delivery began.
THEOREM DeliveriesAreAuthorized == HSpec => []SentToAuthorized
<1>1. HInv => SentToAuthorized
  BY DEF HInv, FoundOut, SentToAuthorized
<1> QED
  BY <1>1, Invariance, PTL

\* A socket is put out of a room only for a lookup that failed, or that could
\* have found no session or no access.
THEOREM EvictionsHaveCause == HSpec => []EvictedForCause
<1>1. HInv => EvictedForCause
  BY DEF HInv, FoundOut, EvictedForCause
<1> QED
  BY <1>1, Invariance, PTL

\* Whoever has lost access while in the room of a Project is about to be looked
\* up by a reauthorization.
THEOREM LossOfAccessReachesRooms == HSpec => []RoomsFollowAccess
<1>1. HInv => RoomsFollowAccess
  BY DEF HInv
<1> QED
  BY <1>1, Invariance, PTL

-----------------------------------------------------------------------------
(***************************************************************************)
(* The tables of Panels.  What an event, and a panel, refreshes is read    *)
(* off the tables arm by arm; that together they refresh whatever a change *)
(* shows, the known gaps aside, is then a case for each query.             *)
(***************************************************************************)

\* The queries that the event of op refreshes, one way or another.
EventKeys(op) ==
  LET r == EventRefresh(op) IN r.tombstones \cup r.edits \cup r.refetches \cup r.invalidates

\* The queries that the panel refreshes after the answer to op.
PanelKeys(op) ==
  LET r == PanelRefresh(op)
  IN r.tombstones \cup r.replaces \cup r.writes \cup r.edits \cup r.invalidates
       \cup r.follows \cup r.settles

\* The arms of the switch on an event exclude each other.
LEMMA EventValue ==
  ASSUME NEW op \in Published
  PROVE /\ op \in TaskEvents => EventRefresh(op) = OnTask(op)
        /\ op \in ProjectEvents => EventRefresh(op) = OnProject
        /\ op \in ColumnEvents => EventRefresh(op) = OnColumn
        /\ op \in MemberEvents => EventRefresh(op) = OnMember
        /\ op \in CommentEvents => EventRefresh(op) = OnComment
        /\ op \in ProjectFileEvents => EventRefresh(op) = OnAttachment(op)
        /\ op \in TaskFileEvents => EventRefresh(op) = OnAttachment(op)
        /\ op \in WikiEvents => EventRefresh(op) = OnWikiPage
        /\ op \in TimeEvents => EventRefresh(op) = OnTimeEntry
        /\ op \in RepositoryEvents => EventRefresh(op) = OnRepository
        /\ op \in LinkEvents \cup ImportEvent \cup SyncEvent => EventRefresh(op) = OnGithubIssue
        /\ op \in NotificationEvent => EventRefresh(op) = OnNotification
  BY DEF EventRefresh, TaskEvents, ProjectEvents, ColumnEvents, MemberEvents, CommentEvents,
         ProjectFileEvents, TaskFileEvents, WikiEvents, TimeEvents, RepositoryEvents,
         LinkEvents, ImportEvent, SyncEvent, NotificationEvent, TaskOps, Deletions, ProjectOps,
         ColumnOps, MemberOps, CommentOps, ProjectFileOps, TaskFileOps, WikiOps, TimeOps,
         RepositoryOps

\* The queries that each kind of event refreshes.
LEMMA EventKeysAre ==
  ASSUME NEW op \in Published
  PROVE /\ op \in TaskEvents /\ op \in Deletions => {"task", "tasks", "project",
           "projectActivities", "taskAttachments", "projectAttachments"} \subseteq EventKeys(op)
        /\ op \in TaskEvents /\ op \notin Deletions => {"tasks", "project", "projectActivities",
           "task"} \subseteq EventKeys(op)
        /\ op \in ProjectEvents => {"project", "projects"} \subseteq EventKeys(op)
        /\ op \in ColumnEvents => {"projectColumns", "project"} \subseteq EventKeys(op)
        /\ op \in MemberEvents => {"projectMembers", "project", "projectActivities"} \subseteq
           EventKeys(op)
        /\ op \in CommentEvents => {"taskComments", "projectActivities"} \subseteq EventKeys(op)
        /\ op \in ProjectFileEvents => {"projectAttachments", "projectActivities"} \subseteq
           EventKeys(op)
        /\ op \in TaskFileEvents => {"projectAttachments", "projectActivities",
           "taskAttachments"} \subseteq EventKeys(op)
        /\ op \in WikiEvents => {"wikiPages", "wikiPage", "projectActivities"} \subseteq
           EventKeys(op)
        /\ op \in TimeEvents => {"projectTime", "activeTimer", "taskTime"} \subseteq
           EventKeys(op)
        /\ op \in RepositoryEvents => {"githubIssues", "taskGithubIssue", "projectRepository",
           "projectActivities"} \subseteq EventKeys(op)
        /\ op \in LinkEvents \cup ImportEvent \cup SyncEvent => {"task", "githubIssues",
           "taskGithubIssue", "tasks", "projectActivities"} \subseteq EventKeys(op)
        /\ op \in NotificationEvent => {"notifications", "notificationUnreadCount"} \subseteq
           EventKeys(op)
<1> USE EventValue DEF EventKeys, Untouched
<1>1. op \in TaskEvents /\ op \in Deletions => {"task", "tasks", "project", "projectActivities",
      "taskAttachments", "projectAttachments"} \subseteq EventKeys(op)
  <2> SUFFICES ASSUME op \in TaskEvents /\ op \in Deletions
               PROVE {"task", "tasks", "project", "projectActivities", "taskAttachments",
                     "projectAttachments"} \subseteq EventKeys(op)
    OBVIOUS
  <2>1. /\ EventRefresh(op).tombstones = {"task"}
        /\ EventRefresh(op).edits = {"tasks"}
        /\ EventRefresh(op).invalidates =
             {"tasks", "project", "projectActivities", "taskAttachments", "projectAttachments"}
    BY DEF OnTask
  <2> QED
    BY <2>1
<1>2. op \in TaskEvents /\ op \notin Deletions => {"tasks", "project", "projectActivities",
      "task"} \subseteq EventKeys(op)
  BY DEF OnTask, Invalidating
<1>3. op \in ProjectEvents => {"project", "projects"} \subseteq EventKeys(op)
  BY DEF OnProject, Invalidating
<1>4. op \in ColumnEvents => {"projectColumns", "project"} \subseteq EventKeys(op)
  BY DEF OnColumn, Invalidating
<1>5. op \in MemberEvents => {"projectMembers", "project", "projectActivities"} \subseteq
      EventKeys(op)
  <2> SUFFICES ASSUME op \in MemberEvents
               PROVE {"projectMembers", "project", "projectActivities"} \subseteq EventKeys(op)
    OBVIOUS
  <2>1. /\ EventRefresh(op).refetches = {"projectMembers", "project"}
        /\ EventRefresh(op).invalidates = {"projectActivities"}
    BY DEF OnMember
  <2> QED
    BY <2>1
<1>6. op \in CommentEvents => {"taskComments", "projectActivities"} \subseteq EventKeys(op)
  BY DEF OnComment, Invalidating
<1>7. op \in ProjectFileEvents => {"projectAttachments", "projectActivities"} \subseteq
      EventKeys(op)
  BY DEF OnAttachment, Invalidating
<1>8. op \in TaskFileEvents => {"projectAttachments", "projectActivities", "taskAttachments"}
      \subseteq EventKeys(op)
  BY DEF OnAttachment, Invalidating, TaskFileEvents
<1>9. op \in WikiEvents => {"wikiPages", "wikiPage", "projectActivities"} \subseteq
      EventKeys(op)
  BY DEF OnWikiPage, Invalidating
<1>10. op \in TimeEvents => {"projectTime", "activeTimer", "taskTime"} \subseteq EventKeys(op)
  BY DEF OnTimeEntry, Invalidating
<1>11. op \in RepositoryEvents => {"githubIssues", "taskGithubIssue", "projectRepository",
       "projectActivities"} \subseteq EventKeys(op)
  BY DEF OnRepository, Invalidating, GithubResources
<1>12. op \in LinkEvents \cup ImportEvent \cup SyncEvent => {"task", "githubIssues",
       "taskGithubIssue", "tasks", "projectActivities"} \subseteq EventKeys(op)
  BY DEF OnGithubIssue, Invalidating
<1>13. op \in NotificationEvent => {"notifications", "notificationUnreadCount"} \subseteq
       EventKeys(op)
  BY DEF OnNotification, Invalidating
<1> QED
  BY <1>1, <1>2, <1>3, <1>4, <1>5, <1>6, <1>7, <1>8, <1>9, <1>10, <1>11, <1>12, <1>13

\* An event refreshes every query that shows its operation, the gaps aside.
LEMMA EventsRefresh ==
  ASSUME NEW k \in Keys, NEW op \in ShownIn[k], op \in Published, op \notin EventGaps[k]
  PROVE  k \in EventKeys(op)
<1> USE EventKeysAre DEF TaskOps, Deletions, ProjectOps, ColumnOps, MemberOps, CommentOps,
                         ProjectFileOps, TaskFileOps, WikiOps, TimeOps, RepositoryOps, IssueOps,
                         BellOps, OrganizationOps, TaskEvents, ProjectEvents, ColumnEvents,
                         MemberEvents, CommentEvents, ProjectFileEvents, TaskFileEvents,
                         WikiEvents, TimeEvents, RepositoryEvents, LinkEvents, ImportEvent,
                         SyncEvent, NotificationEvent, ShownIn, ProjectShows, ProjectsShow,
                         TasksShow, TaskShows, ActivitiesShow, ProjectFilesShow, TaskTimeShows,
                         ProjectTimeShows, ActiveTimerShows, IssuesShow, TaskIssueShows,
                         EventGaps, NoGaps, Published, Keys
<1>1. CASE k = "project"
  BY <1>1
<1>2. CASE k = "projects"
  BY <1>2
<1>3. CASE k = "projectColumns"
  BY <1>3
<1>4. CASE k = "projectMembers"
  BY <1>4
<1>5. CASE k = "projectActivities"
  BY <1>5
<1>6. CASE k = "tasks"
  BY <1>6
<1>7. CASE k = "task"
  BY <1>7
<1>8. CASE k = "taskComments"
  BY <1>8
<1>9. CASE k = "projectAttachments"
  BY <1>9
<1>10. CASE k = "taskAttachments"
  BY <1>10
<1>11. CASE k = "wikiPages"
  BY <1>11
<1>12. CASE k = "wikiPage"
  BY <1>12
<1>13. CASE k = "taskTime"
  BY <1>13
<1>14. CASE k = "projectTime"
  BY <1>14
<1>15. CASE k = "activeTimer"
  BY <1>15
<1>16. CASE k = "projectRepository"
  BY <1>16
<1>17. CASE k = "githubIssues"
  BY <1>17
<1>18. CASE k = "taskGithubIssue"
  BY <1>18
<1>19. CASE k = "notifications"
  BY <1>19
<1>20. CASE k = "notificationUnreadCount"
  BY <1>20
<1>21. CASE k = "organizationMembers"
  BY <1>21
<1>22. CASE k = "organization"
  BY <1>22
<1>23. CASE k = "organizations"
  BY <1>23
<1> QED
  BY <1>1, <1>2, <1>3, <1>4, <1>5, <1>6, <1>7, <1>8, <1>9, <1>10, <1>11, <1>12, <1>13, <1>14,
     <1>15, <1>16, <1>17, <1>18, <1>19, <1>20, <1>21, <1>22, <1>23

\* So do the arms of the table of panels.
LEMMA PanelValue ==
  ASSUME NEW op \in PanelOps
  PROVE /\ op = "createTask" => PanelRefresh(op) = CreateTask
        /\ op = "updateTask" => PanelRefresh(op) = UpdateTask
        /\ op = "changeColumn" => PanelRefresh(op) = ChangeColumn
        /\ op = "moveTask" => PanelRefresh(op) = MoveTask
        /\ op = "deleteTask" => PanelRefresh(op) = DeleteTask
        /\ op = "removeRow" => PanelRefresh(op) = RemoveRow
        /\ op \in ColumnOps => PanelRefresh(op) = ColumnsModal
        /\ op = "createComment" => PanelRefresh(op) = CreateComment
        /\ op = "updateComment" => PanelRefresh(op) = UpdateComment
        /\ op = "deleteComment" => PanelRefresh(op) = DeleteComment
        /\ op \in MemberOps => PanelRefresh(op) = MembersPanel
        /\ op = "updateProject" => PanelRefresh(op) = EditProject
        /\ op = "archive" => PanelRefresh(op) = ArchiveProject
        /\ op = "restore" => PanelRefresh(op) = RestoreProject
        /\ op = "duplicate" => PanelRefresh(op) = DuplicateProject
        /\ op = "createProject" => PanelRefresh(op) = CreateProject
        /\ op \in RepositoryOps => PanelRefresh(op) = ConnectRepository
        /\ op \in {"link", "unlink"} => PanelRefresh(op) = LinkIssue
        /\ op = "createFromIssue" => PanelRefresh(op) = CreateFromIssue
        /\ op \in ProjectFileOps => PanelRefresh(op) = AttachmentsPanel(op)
        /\ op \in TaskFileOps => PanelRefresh(op) = AttachmentsPanel(op)
        /\ op = "updatePage" => PanelRefresh(op) = UpdatePage
        /\ op \in {"createPage", "movePage"} => PanelRefresh(op) = WikiRefresh(op)
        /\ op = "removePage" => PanelRefresh(op) = WikiRefresh(op)
        /\ op \in TimeOps => PanelRefresh(op) = TimePanel
        /\ op \in BellOps \ {"notify"} => PanelRefresh(op) = Bell
        /\ op \in OrganizationOps => PanelRefresh(op) = OrganizationMembers
        /\ op = "createOrganization" => PanelRefresh(op) = CreateOrganization
  BY DEF PanelRefresh, ColumnOps, MemberOps, ProjectFileOps, TaskFileOps, WikiOps, TimeOps,
         BellOps, OrganizationOps, RepositoryOps, DisconnectRepository

\* The queries that each panel refreshes.
LEMMA PanelKeysAre ==
  ASSUME NEW op \in PanelOps
  PROVE /\ op = "createTask" => {"tasks", "project", "projects", "projectActivities"} \subseteq
           PanelKeys(op)
        /\ op = "updateTask" => {"task", "tasks", "project", "projectActivities"} \subseteq
           PanelKeys(op)
        /\ op = "changeColumn" => {"task", "tasks", "project", "projectActivities"} \subseteq
           PanelKeys(op)
        /\ op = "moveTask" => {"tasks", "projectActivities"} \subseteq PanelKeys(op)
        /\ op = "deleteTask" => {"task", "tasks", "projects", "projectAttachments", "project",
           "projectActivities"} \subseteq PanelKeys(op)
        /\ op = "removeRow" => {"task", "tasks", "project", "projects"} \subseteq PanelKeys(op)
        /\ op \in ColumnOps => {"projectColumns", "project", "tasks"} \subseteq PanelKeys(op)
        /\ op = "createComment" => {"taskComments", "projectActivities"} \subseteq PanelKeys(op)
        /\ op = "updateComment" => {"taskComments", "projectActivities"} \subseteq PanelKeys(op)
        /\ op = "deleteComment" => {"taskComments", "projectActivities"} \subseteq PanelKeys(op)
        /\ op \in MemberOps => {"projectMembers", "project", "projectActivities"} \subseteq
           PanelKeys(op)
        /\ op = "updateProject" => {"project", "projects", "projectActivities"} \subseteq
           PanelKeys(op)
        /\ op = "archive" => {"projects"} \subseteq PanelKeys(op)
        /\ op = "restore" => {"project", "projects"} \subseteq PanelKeys(op)
        /\ op = "duplicate" => {"projects"} \subseteq PanelKeys(op)
        /\ op = "createProject" => {"projects"} \subseteq PanelKeys(op)
        /\ op \in RepositoryOps => {"projectRepository", "githubIssues", "taskGithubIssue",
           "projectActivities"} \subseteq PanelKeys(op)
        /\ op \in {"link", "unlink"} => {"taskGithubIssue", "githubIssues", "projectActivities"}
           \subseteq PanelKeys(op)
        /\ op = "createFromIssue" => {"tasks", "githubIssues", "projectActivities"} \subseteq
           PanelKeys(op)
        /\ op \in ProjectFileOps => {"projectActivities", "projectAttachments"} \subseteq
           PanelKeys(op)
        /\ op \in TaskFileOps => {"projectActivities", "taskAttachments"} \subseteq
           PanelKeys(op)
        /\ op = "updatePage" => {"wikiPage", "wikiPages", "projectActivities"} \subseteq
           PanelKeys(op)
        /\ op \in {"createPage", "movePage"} => {"wikiPage", "wikiPages", "projectActivities"}
           \subseteq PanelKeys(op)
        /\ op = "removePage" => {"wikiPages", "projectActivities"} \subseteq PanelKeys(op)
        /\ op \in TimeOps => {"taskTime", "activeTimer", "projectTime"} \subseteq PanelKeys(op)
        /\ op \in BellOps \ {"notify"} => {"notifications", "notificationUnreadCount"} \subseteq
           PanelKeys(op)
        /\ op \in OrganizationOps => {"organizationMembers", "organization", "organizations",
           "projects"} \subseteq PanelKeys(op)
        /\ op = "createOrganization" => {"organizations", "organization"} \subseteq
           PanelKeys(op)
<1> USE PanelValue DEF PanelKeys, Nothing
<1>1. op = "createTask" => {"tasks", "project", "projects", "projectActivities"} \subseteq
      PanelKeys(op)
  <2> SUFFICES ASSUME op = "createTask"
               PROVE {"tasks", "project", "projects", "projectActivities"} \subseteq
                     PanelKeys(op)
    OBVIOUS
  <2>1. /\ PanelRefresh(op).writes = {"tasks"}
        /\ PanelRefresh(op).invalidates = {"project", "projects", "projectActivities"}
    BY DEF CreateTask
  <2> QED
    BY <2>1
<1>2. op = "updateTask" => {"task", "tasks", "project", "projectActivities"} \subseteq
      PanelKeys(op)
  <2> SUFFICES ASSUME op = "updateTask"
               PROVE {"task", "tasks", "project", "projectActivities"} \subseteq PanelKeys(op)
    OBVIOUS
  <2>1. /\ PanelRefresh(op).replaces = {"task"}
        /\ PanelRefresh(op).writes = {"tasks"}
        /\ PanelRefresh(op).settles = {"tasks", "project", "projectActivities"}
    BY DEF UpdateTask, TaskSettled
  <2> QED
    BY <2>1
<1>3. op = "changeColumn" => {"task", "tasks", "project", "projectActivities"} \subseteq
      PanelKeys(op)
  <2> SUFFICES ASSUME op = "changeColumn"
               PROVE {"task", "tasks", "project", "projectActivities"} \subseteq PanelKeys(op)
    OBVIOUS
  <2>1. /\ PanelRefresh(op).replaces = {"task"}
        /\ PanelRefresh(op).writes = {"tasks"}
        /\ PanelRefresh(op).settles = {"tasks", "project", "projectActivities"}
    BY DEF ChangeColumn, UpdateTask, TaskSettled
  <2> QED
    BY <2>1
<1>4. op = "moveTask" => {"tasks", "projectActivities"} \subseteq PanelKeys(op)
  <2> SUFFICES ASSUME op = "moveTask"
               PROVE {"tasks", "projectActivities"} \subseteq PanelKeys(op)
    OBVIOUS
  <2>1. /\ PanelRefresh(op).writes = {"tasks"}
        /\ PanelRefresh(op).settles = {"tasks", "projectActivities"}
    BY DEF MoveTask
  <2> QED
    BY <2>1
<1>5. op = "deleteTask" => {"task", "tasks", "projects", "projectAttachments", "project",
      "projectActivities"} \subseteq PanelKeys(op)
  <2> SUFFICES ASSUME op = "deleteTask"
               PROVE {"task", "tasks", "projects", "projectAttachments", "project",
                     "projectActivities"} \subseteq PanelKeys(op)
    OBVIOUS
  <2>1. /\ PanelRefresh(op).tombstones = {"task"}
        /\ PanelRefresh(op).edits = {"tasks"}
        /\ PanelRefresh(op).invalidates = {"projects", "projectAttachments"}
        /\ PanelRefresh(op).settles = {"tasks", "project", "projectActivities"}
    BY DEF DeleteTask, TaskSettled
  <2> QED
    BY <2>1
<1>6. op = "removeRow" => {"task", "tasks", "project", "projects"} \subseteq PanelKeys(op)
  <2> SUFFICES ASSUME op = "removeRow"
               PROVE {"task", "tasks", "project", "projects"} \subseteq PanelKeys(op)
    OBVIOUS
  <2>1. /\ PanelRefresh(op).tombstones = {"task"}
        /\ PanelRefresh(op).edits = {"tasks"}
        /\ PanelRefresh(op).invalidates = {"tasks", "project", "projects"}
    BY DEF RemoveRow
  <2> QED
    BY <2>1
<1>7. op \in ColumnOps => {"projectColumns", "project", "tasks"} \subseteq PanelKeys(op)
  <2> SUFFICES ASSUME op \in ColumnOps
               PROVE {"projectColumns", "project", "tasks"} \subseteq PanelKeys(op)
    OBVIOUS
  <2>1. /\ PanelRefresh(op).writes = {"projectColumns"}
        /\ PanelRefresh(op).invalidates = {"projectColumns", "project", "tasks"}
    BY DEF ColumnsModal
  <2> QED
    BY <2>1
<1>8. op = "createComment" => {"taskComments", "projectActivities"} \subseteq PanelKeys(op)
  <2> SUFFICES ASSUME op = "createComment"
               PROVE {"taskComments", "projectActivities"} \subseteq PanelKeys(op)
    OBVIOUS
  <2>1. /\ PanelRefresh(op).writes = {"taskComments"}
        /\ PanelRefresh(op).invalidates = {"projectActivities"}
    BY DEF CreateComment
  <2> QED
    BY <2>1
<1>9. op = "updateComment" => {"taskComments", "projectActivities"} \subseteq PanelKeys(op)
  <2> SUFFICES ASSUME op = "updateComment"
               PROVE {"taskComments", "projectActivities"} \subseteq PanelKeys(op)
    OBVIOUS
  <2>1. /\ PanelRefresh(op).edits = {"taskComments"}
        /\ PanelRefresh(op).invalidates = {"projectActivities"}
    BY DEF UpdateComment
  <2> QED
    BY <2>1
<1>10. op = "deleteComment" => {"taskComments", "projectActivities"} \subseteq PanelKeys(op)
  <2> SUFFICES ASSUME op = "deleteComment"
               PROVE {"taskComments", "projectActivities"} \subseteq PanelKeys(op)
    OBVIOUS
  <2>1. /\ PanelRefresh(op).edits = {"taskComments"}
        /\ PanelRefresh(op).invalidates = {"taskComments", "projectActivities"}
    BY DEF DeleteComment
  <2> QED
    BY <2>1
<1>11. op \in MemberOps => {"projectMembers", "project", "projectActivities"} \subseteq
       PanelKeys(op)
  <2> SUFFICES ASSUME op \in MemberOps
               PROVE {"projectMembers", "project", "projectActivities"} \subseteq PanelKeys(op)
    OBVIOUS
  <2>1. /\ PanelRefresh(op).writes = {"projectMembers"}
        /\ PanelRefresh(op).invalidates = {"projectMembers", "project", "projectActivities"}
    BY DEF MembersPanel
  <2> QED
    BY <2>1
<1>12. op = "updateProject" => {"project", "projects", "projectActivities"} \subseteq
       PanelKeys(op)
  <2> SUFFICES ASSUME op = "updateProject"
               PROVE {"project", "projects", "projectActivities"} \subseteq PanelKeys(op)
    OBVIOUS
  <2>1. /\ PanelRefresh(op).replaces = {"project"}
        /\ PanelRefresh(op).invalidates = {"projects", "projectActivities"}
    BY DEF EditProject
  <2> QED
    BY <2>1
<1>13. op = "archive" => {"projects"} \subseteq PanelKeys(op)
  <2> SUFFICES ASSUME op = "archive"
               PROVE {"projects"} \subseteq PanelKeys(op)
    OBVIOUS
  <2>1. /\ PanelRefresh(op).edits = {"projects"}
        /\ PanelRefresh(op).invalidates = {"projects"}
    BY DEF ArchiveProject
  <2> QED
    BY <2>1
<1>14. op = "restore" => {"project", "projects"} \subseteq PanelKeys(op)
  <2> SUFFICES ASSUME op = "restore"
               PROVE {"project", "projects"} \subseteq PanelKeys(op)
    OBVIOUS
  <2>1. /\ PanelRefresh(op).replaces = {"project"}
        /\ PanelRefresh(op).invalidates = {"projects"}
    BY DEF RestoreProject
  <2> QED
    BY <2>1
<1>15. op = "duplicate" => {"projects"} \subseteq PanelKeys(op)
  BY DEF DuplicateProject, Refreshing
<1>16. op = "createProject" => {"projects"} \subseteq PanelKeys(op)
  BY DEF CreateProject, Refreshing
<1>17. op \in RepositoryOps => {"projectRepository", "githubIssues", "taskGithubIssue",
       "projectActivities"} \subseteq PanelKeys(op)
  <2> SUFFICES ASSUME op \in RepositoryOps
               PROVE {"projectRepository", "githubIssues", "taskGithubIssue",
                     "projectActivities"} \subseteq PanelKeys(op)
    OBVIOUS
  <2>1. /\ PanelRefresh(op).replaces = {"projectRepository"}
        /\ PanelRefresh(op).invalidates = {"githubIssues", "taskGithubIssue"}
        /\ PanelRefresh(op).follows = {"projectActivities"}
    BY DEF ConnectRepository, GithubResources
  <2> QED
    BY <2>1
<1>18. op \in {"link", "unlink"} => {"taskGithubIssue", "githubIssues", "projectActivities"}
       \subseteq PanelKeys(op)
  <2> SUFFICES ASSUME op \in {"link", "unlink"}
               PROVE {"taskGithubIssue", "githubIssues", "projectActivities"} \subseteq
                     PanelKeys(op)
    OBVIOUS
  <2>1. /\ PanelRefresh(op).replaces = {"taskGithubIssue"}
        /\ PanelRefresh(op).invalidates = {"githubIssues", "projectActivities"}
    BY DEF LinkIssue
  <2> QED
    BY <2>1
<1>19. op = "createFromIssue" => {"tasks", "githubIssues", "projectActivities"} \subseteq
       PanelKeys(op)
  <2> SUFFICES ASSUME op = "createFromIssue"
               PROVE {"tasks", "githubIssues", "projectActivities"} \subseteq PanelKeys(op)
    OBVIOUS
  <2>1. /\ PanelRefresh(op).writes = {"tasks"}
        /\ PanelRefresh(op).invalidates = {"githubIssues", "projectActivities"}
    BY DEF CreateFromIssue
  <2> QED
    BY <2>1
<1>20. op \in ProjectFileOps => {"projectActivities", "projectAttachments"} \subseteq
       PanelKeys(op)
  BY DEF AttachmentsPanel, Refreshing, ProjectFileOps, TaskFileOps
<1>21. op \in TaskFileOps => {"projectActivities", "taskAttachments"} \subseteq PanelKeys(op)
  BY DEF AttachmentsPanel, Refreshing
<1>22. op = "updatePage" => {"wikiPage", "wikiPages", "projectActivities"} \subseteq
       PanelKeys(op)
  <2> SUFFICES ASSUME op = "updatePage"
               PROVE {"wikiPage", "wikiPages", "projectActivities"} \subseteq PanelKeys(op)
    OBVIOUS
  <2>1. /\ PanelRefresh(op).replaces = {"wikiPage"}
        /\ PanelRefresh(op).invalidates = {"wikiPages", "projectActivities"} \cup {"wikiPage"}
    BY DEF UpdatePage, WikiRefresh, Refreshing
  <2> QED
    BY <2>1
<1>23. op \in {"createPage", "movePage"} => {"wikiPage", "wikiPages", "projectActivities"}
       \subseteq PanelKeys(op)
  BY DEF WikiRefresh, Refreshing
<1>24. op = "removePage" => {"wikiPages", "projectActivities"} \subseteq PanelKeys(op)
  BY DEF WikiRefresh, Refreshing
<1>25. op \in TimeOps => {"taskTime", "activeTimer", "projectTime"} \subseteq PanelKeys(op)
  BY DEF TimePanel, Refreshing
<1>26. op \in BellOps \ {"notify"} => {"notifications", "notificationUnreadCount"} \subseteq
       PanelKeys(op)
  BY DEF Bell, Refreshing
<1>27. op \in OrganizationOps => {"organizationMembers", "organization", "organizations",
       "projects"} \subseteq PanelKeys(op)
  <2> SUFFICES ASSUME op \in OrganizationOps
               PROVE {"organizationMembers", "organization", "organizations", "projects"}
                     \subseteq PanelKeys(op)
    OBVIOUS
  <2>1. /\ PanelRefresh(op).writes = {"organizationMembers"}
        /\ PanelRefresh(op).invalidates = {"organizationMembers", "organization", "organizations", "projects"}
    BY DEF OrganizationMembers
  <2> QED
    BY <2>1
<1>28. op = "createOrganization" => {"organizations", "organization"} \subseteq PanelKeys(op)
  BY DEF CreateOrganization
<1> QED
  BY <1>1, <1>2, <1>3, <1>4, <1>5, <1>6, <1>7, <1>8, <1>9, <1>10, <1>11, <1>12, <1>13, <1>14,
     <1>15, <1>16, <1>17, <1>18, <1>19, <1>20, <1>21, <1>22, <1>23, <1>24, <1>25, <1>26, <1>27,
     <1>28

\* A panel refreshes every query that shows its operation, the gaps aside.
LEMMA PanelsRefresh ==
  ASSUME NEW k \in Keys, NEW op \in ShownIn[k], op \in PanelOps, op \notin PanelGaps[k]
  PROVE  k \in PanelKeys(op)
<1> USE PanelKeysAre DEF TaskOps, Deletions, ProjectOps, ColumnOps, MemberOps, CommentOps,
                         ProjectFileOps, TaskFileOps, WikiOps, TimeOps, RepositoryOps, IssueOps,
                         BellOps, OrganizationOps, ShownIn, ProjectShows, ProjectsShow,
                         TasksShow, TaskShows, ActivitiesShow, ProjectFilesShow, TaskTimeShows,
                         ProjectTimeShows, ActiveTimerShows, IssuesShow, TaskIssueShows,
                         PanelGaps, NoGaps, PanelOps, Keys
<1>1. CASE k = "project"
  BY <1>1
<1>2. CASE k = "projects"
  BY <1>2
<1>3. CASE k = "projectColumns"
  BY <1>3
<1>4. CASE k = "projectMembers"
  BY <1>4
<1>5. CASE k = "projectActivities"
  BY <1>5
<1>6. CASE k = "tasks"
  BY <1>6
<1>7. CASE k = "task"
  BY <1>7
<1>8. CASE k = "taskComments"
  BY <1>8
<1>9. CASE k = "projectAttachments"
  BY <1>9
<1>10. CASE k = "taskAttachments"
  BY <1>10
<1>11. CASE k = "wikiPages"
  BY <1>11
<1>12. CASE k = "wikiPage"
  BY <1>12
<1>13. CASE k = "taskTime"
  BY <1>13
<1>14. CASE k = "projectTime"
  BY <1>14
<1>15. CASE k = "activeTimer"
  BY <1>15
<1>16. CASE k = "projectRepository"
  BY <1>16
<1>17. CASE k = "githubIssues"
  BY <1>17
<1>18. CASE k = "taskGithubIssue"
  BY <1>18
<1>19. CASE k = "notifications"
  BY <1>19
<1>20. CASE k = "notificationUnreadCount"
  BY <1>20
<1>21. CASE k = "organizationMembers"
  BY <1>21
<1>22. CASE k = "organization"
  BY <1>22
<1>23. CASE k = "organizations"
  BY <1>23
<1> QED
  BY <1>1, <1>2, <1>3, <1>4, <1>5, <1>6, <1>7, <1>8, <1>9, <1>10, <1>11, <1>12, <1>13, <1>14,
     <1>15, <1>16, <1>17, <1>18, <1>19, <1>20, <1>21, <1>22, <1>23

\* What a panel changes before it is answered it has kept to restore, and
\* refreshes in the end.
LEMMA OptimismSettles ==
  ASSUME NEW op \in PanelOps
  PROVE  /\ PanelRefresh(op).optimistic \subseteq PanelRefresh(op).snapshots
         /\ PanelRefresh(op).snapshots \subseteq PanelRefresh(op).settles
<1> USE PanelValue DEF Nothing
<1>1. op = "updateTask" => /\ PanelRefresh(op).optimistic = {}
                           /\ PanelRefresh(op).snapshots = {"tasks"}
                           /\ PanelRefresh(op).settles = TaskSettled
  BY DEF UpdateTask
<1>2. op = "changeColumn" => /\ PanelRefresh(op).optimistic = {"tasks"}
                             /\ PanelRefresh(op).snapshots = {"tasks"}
                             /\ PanelRefresh(op).settles = TaskSettled
  BY DEF ChangeColumn, UpdateTask
<1>3. op = "moveTask" => /\ PanelRefresh(op).optimistic = {"tasks"}
                         /\ PanelRefresh(op).snapshots = {"tasks"}
                         /\ "tasks" \in PanelRefresh(op).settles
  BY DEF MoveTask
<1>4. op \notin {"updateTask", "changeColumn", "moveTask"} =>
        PanelRefresh(op).optimistic = {} /\ PanelRefresh(op).snapshots = {}
  <2>1. op = "createTask" => PanelRefresh(op).optimistic = {} /\ PanelRefresh(op).snapshots = {}
    BY DEF CreateTask
  <2>2. op = "deleteTask" => PanelRefresh(op).optimistic = {} /\ PanelRefresh(op).snapshots = {}
    BY DEF DeleteTask
  <2>3. op = "removeRow" => PanelRefresh(op).optimistic = {} /\ PanelRefresh(op).snapshots = {}
    BY DEF RemoveRow
  <2>4. op \in ColumnOps => PanelRefresh(op).optimistic = {} /\ PanelRefresh(op).snapshots = {}
    BY DEF ColumnsModal
  <2>5. op = "createComment" => PanelRefresh(op).optimistic = {} /\ PanelRefresh(op).snapshots =
        {}
    BY DEF CreateComment
  <2>6. op = "updateComment" => PanelRefresh(op).optimistic = {} /\ PanelRefresh(op).snapshots =
        {}
    BY DEF UpdateComment
  <2>7. op = "deleteComment" => PanelRefresh(op).optimistic = {} /\ PanelRefresh(op).snapshots =
        {}
    BY DEF DeleteComment
  <2>8. op \in MemberOps => PanelRefresh(op).optimistic = {} /\ PanelRefresh(op).snapshots = {}
    BY DEF MembersPanel
  <2>9. op = "updateProject" => PanelRefresh(op).optimistic = {} /\ PanelRefresh(op).snapshots =
        {}
    BY DEF EditProject
  <2>10. op = "archive" => PanelRefresh(op).optimistic = {} /\ PanelRefresh(op).snapshots = {}
    BY DEF ArchiveProject
  <2>11. op = "restore" => PanelRefresh(op).optimistic = {} /\ PanelRefresh(op).snapshots = {}
    BY DEF RestoreProject
  <2>12. op = "duplicate" => PanelRefresh(op).optimistic = {} /\ PanelRefresh(op).snapshots = {}
    BY DEF DuplicateProject, Refreshing
  <2>13. op = "createProject" => PanelRefresh(op).optimistic = {} /\ PanelRefresh(op).snapshots
         = {}
    BY DEF CreateProject, Refreshing
  <2>14. op \in RepositoryOps => PanelRefresh(op).optimistic = {} /\ PanelRefresh(op).snapshots
         = {}
    BY DEF ConnectRepository, GithubResources
  <2>15. op \in {"link", "unlink"} => PanelRefresh(op).optimistic = {} /\
         PanelRefresh(op).snapshots = {}
    BY DEF LinkIssue
  <2>16. op = "createFromIssue" => PanelRefresh(op).optimistic = {} /\
         PanelRefresh(op).snapshots = {}
    BY DEF CreateFromIssue
  <2>17. op \in ProjectFileOps => PanelRefresh(op).optimistic = {} /\ PanelRefresh(op).snapshots
         = {}
    BY DEF AttachmentsPanel, Refreshing, ProjectFileOps, TaskFileOps
  <2>18. op \in TaskFileOps => PanelRefresh(op).optimistic = {} /\ PanelRefresh(op).snapshots =
         {}
    BY DEF AttachmentsPanel, Refreshing
  <2>19. op = "updatePage" => PanelRefresh(op).optimistic = {} /\ PanelRefresh(op).snapshots =
         {}
    BY DEF UpdatePage, WikiRefresh, Refreshing
  <2>20. op \in {"createPage", "movePage"} => PanelRefresh(op).optimistic = {} /\
         PanelRefresh(op).snapshots = {}
    BY DEF WikiRefresh, Refreshing
  <2>21. op = "removePage" => PanelRefresh(op).optimistic = {} /\ PanelRefresh(op).snapshots =
         {}
    BY DEF WikiRefresh, Refreshing
  <2>22. op \in TimeOps => PanelRefresh(op).optimistic = {} /\ PanelRefresh(op).snapshots = {}
    BY DEF TimePanel, Refreshing
  <2>23. op \in BellOps \ {"notify"} => PanelRefresh(op).optimistic = {} /\
         PanelRefresh(op).snapshots = {}
    BY DEF Bell, Refreshing
  <2>24. op \in OrganizationOps => PanelRefresh(op).optimistic = {} /\
         PanelRefresh(op).snapshots = {}
    BY DEF OrganizationMembers
  <2>25. op = "createOrganization" => PanelRefresh(op).optimistic = {} /\
         PanelRefresh(op).snapshots = {}
    BY DEF CreateOrganization
  <2> QED
    BY <2>1, <2>2, <2>3, <2>4, <2>5, <2>6, <2>7, <2>8, <2>9, <2>10, <2>11, <2>12, <2>13, <2>14,
       <2>15, <2>16, <2>17, <2>18, <2>19, <2>20, <2>21, <2>22, <2>23, <2>24, <2>25 DEF PanelOps,
       TaskOps, Deletions, ProjectOps, ColumnOps, MemberOps, CommentOps, ProjectFileOps,
       TaskFileOps, WikiOps, TimeOps, RepositoryOps, IssueOps, BellOps, OrganizationOps
<1> QED
  BY <1>1, <1>2, <1>3, <1>4 DEF TaskSettled

\* The fields of the two tables.
EventFields == {"tombstones", "edits", "refetches", "invalidates"}

\* The fields of a row of the tables: what an event, and what a panel, does to
\* the queries that it names.
PanelFields ==
  {"snapshots", "optimistic", "tombstones", "replaces", "writes", "edits", "invalidates",
   "follows", "conflicts", "settles"}

\* An entry of the tables has a set for each field, and no other.
LEMMA TableFields ==
  /\ \A op \in Published : DOMAIN EventRefresh(op) = EventFields
  /\ \A op \in PanelOps : DOMAIN PanelRefresh(op) = PanelFields
<1>1. ASSUME NEW op \in Published PROVE DOMAIN EventRefresh(op) = EventFields
  <2> USE EventValue DEF EventFields, Untouched, Invalidating
  <2>1. op \in TaskEvents => DOMAIN EventRefresh(op) = EventFields
    BY DEF OnTask
  <2>2. op \in MemberEvents => DOMAIN EventRefresh(op) = EventFields
    BY DEF OnMember
  <2>3. op \notin TaskEvents \cup MemberEvents =>
          \E keys : EventRefresh(op) = Invalidating(keys)
    BY DEF Published, OnProject, OnColumn, OnComment, OnAttachment, OnWikiPage, OnTimeEntry,
       OnRepository, OnGithubIssue, OnNotification
  <2> QED
    BY <2>1, <2>2, <2>3
<1>2. ASSUME NEW op \in PanelOps PROVE DOMAIN PanelRefresh(op) = PanelFields
  <2> USE PanelValue DEF PanelFields, Nothing, Refreshing
  <2>1. op \in TaskOps => DOMAIN PanelRefresh(op) = PanelFields
    BY DEF TaskOps, Deletions, CreateTask, UpdateTask, ChangeColumn, MoveTask, DeleteTask, RemoveRow
  <2>2. op \in ColumnOps \cup MemberOps => DOMAIN PanelRefresh(op) = PanelFields
    BY DEF ColumnsModal, MembersPanel
  <2>3. op \in CommentOps => DOMAIN PanelRefresh(op) = PanelFields
    BY DEF CommentOps, CreateComment, UpdateComment, DeleteComment
  <2>4. op \in ProjectOps \cup {"duplicate", "createProject"} =>
          DOMAIN PanelRefresh(op) = PanelFields
    BY DEF ProjectOps, EditProject, ArchiveProject, RestoreProject, DuplicateProject, CreateProject
  <2>5. op \in RepositoryOps \cup (IssueOps \ {"sync"}) => DOMAIN PanelRefresh(op) = PanelFields
    BY DEF IssueOps, ConnectRepository, LinkIssue, CreateFromIssue
  <2>6. op \in ProjectFileOps \cup TaskFileOps => DOMAIN PanelRefresh(op) = PanelFields
    BY DEF AttachmentsPanel
  <2>7. op \in WikiOps => DOMAIN PanelRefresh(op) = PanelFields
    BY DEF WikiOps, WikiRefresh, UpdatePage
  <2>8. op \in TimeOps \cup (BellOps \ {"notify"}) => DOMAIN PanelRefresh(op) = PanelFields
    BY DEF TimePanel, Bell
  <2>9. op \in OrganizationOps \cup {"createOrganization"} =>
          DOMAIN PanelRefresh(op) = PanelFields
    BY DEF OrganizationMembers, CreateOrganization
  <2> QED
    BY <2>1, <2>2, <2>3, <2>4, <2>5, <2>6, <2>7, <2>8, <2>9 DEF PanelOps
<1> QED
  BY <1>1, <1>2

\* What a panel does with the answer to its request.
AnswerFields == {"tombstones", "replaces", "writes", "edits", "invalidates"}

\* A change that shows is refreshed by its event, and by the panel that made it,
\* unless there is a gap; what is changed in advance can be restored, and is
\* refreshed in the end.
Fits(t) ==
  /\ t.event \subseteq EventFields
  /\ t.shown /\ ~t.eventGap => t.event # {}
  /\ t.shown /\ t.mine /\ ~t.panelGap =>
       t.panel \cap (AnswerFields \cup {"follows", "settles"}) # {}
  /\ "optimistic" \in t.panel => "snapshots" \in t.panel
  /\ "snapshots" \in t.panel => "settles" \in t.panel
  /\ ~t.mine => t.panel = {}

\* Every operation means that for every query.
LEMMA TraitsFit ==
  ASSUME NEW k \in Keys, NEW mine \in BOOLEAN, NEW op \in IF mine THEN PanelOps ELSE Ops
  PROVE  Fits(Traits(op, k, mine))
<1> DEFINE t == Traits(op, k, mine)
<1>1. /\ t.mine = mine /\ t.shown = (op \in ShownIn[k])
      /\ t.eventGap = (op \notin Published \/ op \in EventGaps[k])
      /\ t.panelGap = (op \in PanelGaps[k])
  BY DEF Traits
<1>2. op \in Published => t.event = {f \in EventFields : k \in EventRefresh(op)[f]}
  BY TableFields DEF Traits
<1>3. op \notin Published => t.event = {}
  BY DEF Traits, Untouched
<1>4. mine => t.panel = {f \in PanelFields : k \in PanelRefresh(op)[f]}
  BY TableFields DEF Traits
<1>5. ~mine => t.panel = {}
  BY DEF Traits, Nothing
<1> HIDE DEF t
<1>6. t.event \subseteq EventFields
  BY <1>2, <1>3
<1>7. t.shown /\ ~t.eventGap => t.event # {}
  <2> SUFFICES ASSUME t.shown, ~t.eventGap PROVE t.event # {}
    OBVIOUS
  <2>1. k \in EventKeys(op)
    BY <1>1, EventsRefresh
  <2> QED
    BY <1>1, <1>2, <2>1 DEF EventKeys, EventFields
<1>8. t.shown /\ t.mine /\ ~t.panelGap => t.panel \cap (AnswerFields \cup {"follows", "settles"}) # {}
  <2> SUFFICES ASSUME t.shown, t.mine, ~t.panelGap
               PROVE  t.panel \cap (AnswerFields \cup {"follows", "settles"}) # {}
    OBVIOUS
  <2>1. k \in PanelKeys(op)
    BY <1>1, PanelsRefresh
  <2> QED
    BY <1>1, <1>4, <2>1 DEF PanelKeys, PanelFields, AnswerFields
<1>9. mine => /\ "optimistic" \in t.panel => "snapshots" \in t.panel
              /\ "snapshots" \in t.panel => "settles" \in t.panel
  BY <1>4, OptimismSettles DEF PanelFields
<1> QED
  BY <1>1, <1>5, <1>6, <1>7, <1>8, <1>9 DEF Fits, t

-----------------------------------------------------------------------------
(***************************************************************************)
(* The query.  Each way to refresh it is described by what it does to the  *)
(* parts of the query that the invariant is about.                         *)
(***************************************************************************)

\* Every fetch, and every state of the query.
Fetches == {NoFetch, Asked} \cup {Running("read", got) : got \in SUBSET Parts}

\* What a query can be.
Queries ==
  [data : SUBSET Parts, fetch : Fetches, stale : BOOLEAN, active : BOOLEAN, error : BOOLEAN]

\* A fetch is idle, asked or read, and only one that is read has got something.
LEMMA FetchKinds ==
  /\ NoFetch.at = "idle" /\ NoFetch.got = {} /\ Asked.at = "asked" /\ Asked.got = {}
  /\ \A f \in Fetches : /\ f.at \in {"idle", "asked", "read"} /\ f.got \subseteq Parts
                        /\ f.at = "idle" => f = NoFetch
                        /\ f.at = "asked" => f = Asked
                        /\ f = [at |-> f.at, got |-> f.got]
  /\ \A got \in SUBSET Parts : /\ Running("read", got) \in Fetches
                               /\ Running("read", got).at = "read"
                               /\ Running("read", got).got = got
<1> USE DEF NoFetch, Asked, Running
<1>1. ASSUME NEW f \in Fetches
      PROVE  /\ f.at \in {"idle", "asked", "read"} /\ f.got \subseteq Parts
             /\ f.at = "idle" => f = NoFetch
             /\ f.at = "asked" => f = Asked
             /\ f = [at |-> f.at, got |-> f.got]
  <2>1. CASE f \in {NoFetch, Asked}
    BY <2>1
  <2>2. CASE \E got \in SUBSET Parts : f = Running("read", got)
    BY <2>2
  <2> QED
    BY <2>1, <2>2 DEF Fetches
<1>2. \A got \in SUBSET Parts : Running("read", got) \in Fetches
  BY DEF Fetches
<1> QED
  BY <1>1, <1>2

\* Data set by hand is fresh, and a running fetch stays.
LEMMA SetDataDoes ==
  ASSUME NEW q \in Queries, NEW D \in SUBSET Parts
  PROVE  /\ SetData(q, D) \in Queries
         /\ SetData(q, D).data = D /\ SetData(q, D).fetch = q.fetch
         /\ ~SetData(q, D).stale /\ ~SetData(q, D).error
         /\ SetData(q, D).active = q.active
BY DEF SetData, Queries

\* So is data that is edited, if there is any.
LEMMA EditDoes ==
  ASSUME NEW q \in Queries, NEW parts \in SUBSET Parts
  PROVE  /\ Edit(q, parts) \in Queries
         /\ q.data = {} => Edit(q, parts) = q
         /\ q.data # {} => ~Edit(q, parts).stale /\ ~Edit(q, parts).error
         /\ Edit(q, parts).data = IF q.data = {} THEN {} ELSE q.data \cup parts
         /\ Edit(q, parts).fetch = q.fetch /\ Edit(q, parts).active = q.active
<1>1. q.data \cup parts \in SUBSET Parts
  BY DEF Queries
<1> QED
  BY <1>1, SetDataDoes DEF Edit

\* cancelQueries: the fetch is dropped, nothing else changes.
LEMMA CancelDoes ==
  ASSUME NEW q \in Queries
  PROVE  /\ Cancel(q) \in Queries
         /\ Cancel(q).fetch = NoFetch
         /\ Cancel(q).data = q.data /\ Cancel(q).stale = q.stale
         /\ Cancel(q).active = q.active /\ Cancel(q).error = q.error
BY DEF Cancel, Queries, Fetches

\* After an attempt to fetch there is a fetch.
LEMMA StartFetchDoes ==
  ASSUME NEW q \in Queries
  PROVE  /\ StartFetch(q) \in Queries
         /\ StartFetch(q).data = q.data /\ StartFetch(q).stale = q.stale
         /\ StartFetch(q).active = q.active /\ StartFetch(q).error = q.error
         /\ StartFetch(q).fetch # NoFetch
         /\ StartFetch(q).fetch = Asked \/ StartFetch(q).fetch = q.fetch
BY FetchKinds DEF StartFetch, Queries, Fetches

\* An invalidated query is stale, and fetched if a panel shows it.
LEMMA InvalidateDoes ==
  ASSUME NEW q \in Queries
  PROVE  /\ Invalidate(q) \in Queries
         /\ Invalidate(q).data = q.data /\ Invalidate(q).stale
         /\ Invalidate(q).active = q.active /\ Invalidate(q).error = q.error
         /\ q.active => Invalidate(q).fetch # NoFetch
         /\ Invalidate(q).fetch = Asked \/ Invalidate(q).fetch = q.fetch
<1> DEFINE r == [q EXCEPT !.stale = TRUE]
<1>1. /\ r \in Queries /\ r.data = q.data /\ r.stale /\ r.active = q.active
      /\ r.error = q.error /\ r.fetch = q.fetch
  BY DEF Queries
<1>2. Invalidate(q) = IF q.active THEN StartFetch(r) ELSE r
  BY DEF Invalidate
<1> HIDE DEF r
<1> QED
  BY <1>1, <1>2, StartFetchDoes

\* A refetch begins anew, or goes on with what is already being fetched.
LEMMA RefetchDoes ==
  ASSUME NEW q \in Queries
  PROVE  /\ Refetch(q) \in Queries
         /\ Refetch(q).data = q.data /\ Refetch(q).stale = q.stale
         /\ Refetch(q).active = q.active /\ Refetch(q).error = q.error
         /\ q.active \/ q.data # {} => Refetch(q).fetch # NoFetch
         /\ Refetch(q).fetch = Asked \/ Refetch(q).fetch = q.fetch
BY StartFetchDoes DEF Refetch

\* What a refresh that does "does" has to do with the query q to be of use:
\* it leaves r, with the parts that it may write.  It starts no fetch that is
\* already read; a query that it leaves stale in view is fetched; and one that
\* it leaves fresh, if it neither wrote it nor did anything, is unchanged.
Refreshed(q, r, does, written) ==
  /\ r \in Queries /\ r.active = q.active
  /\ r.data \subseteq q.data \cup written
  /\ r.fetch \in {q.fetch, Asked, NoFetch}
  /\ r.fetch = NoFetch /\ r.stale /\ r.active => q.fetch = NoFetch /\ q.stale /\ r.error = q.error
  /\ r.fetch = NoFetch /\ ~r.stale /\ r.data # {} /\ does \cap ByHand = {} =>
       does = {} /\ r = q

\* RealtimeProvider refreshes the query as the row of the event says.
LEMMA EventRefreshes ==
  ASSUME NEW q \in Queries, NEW does \in SUBSET EventFields, NEW parts \in SUBSET Parts,
         Server \subseteq Parts, Server # {}
  PROVE  Refreshed(q, OnEvent(q, does, parts), does, Server \cup parts)
<1> DEFINE a == SetData(Cancel(q), Server)
           q1 == If(does, "tombstones", a, q)
           q2 == If(does, "edits", Edit(q1, parts), q1)
           q3 == If(does, "refetches", Refetch(q2), q2)
           r == If(does, "invalidates", Invalidate(q3), q3)
<1>1. OnEvent(q, does, parts) = r
  BY DEF OnEvent
<1>2. /\ a \in Queries /\ a.fetch = NoFetch /\ a.data = Server /\ ~a.stale /\ ~a.error
      /\ a.active = q.active
  BY CancelDoes, SetDataDoes
<1>3. /\ "tombstones" \in does => q1 = a
      /\ "tombstones" \notin does => q1 = q
  BY DEF If
<1> HIDE DEF a
<1>4. q1 \in Queries /\ q1.active = q.active
  BY <1>2, <1>3
<1> HIDE DEF q1
<1>5. /\ "edits" \in does => q2 = Edit(q1, parts)
      /\ "edits" \notin does => q2 = q1
  BY DEF If
<1> HIDE DEF q2
<1>6. q2 \in Queries /\ q2.active = q.active
  BY <1>4, <1>5, EditDoes
<1>7. /\ "refetches" \in does => q3 = Refetch(q2)
      /\ "refetches" \notin does => q3 = q2
  BY DEF If
<1> HIDE DEF q3
<1>8. q3 \in Queries /\ q3.active = q.active
  BY <1>6, <1>7, RefetchDoes
<1>9. /\ "invalidates" \in does => r = Invalidate(q3)
      /\ "invalidates" \notin does => r = q3
  BY DEF If
<1> HIDE DEF r
<1>10. r \in Queries /\ r.active = q.active
  BY <1>8, <1>9, InvalidateDoes
<1>11. r.data \subseteq q.data \cup (Server \cup parts)
  <2>1. q1.data \subseteq q.data \cup Server
    BY <1>2, <1>3
  <2>2. q2.data \subseteq q1.data \cup parts
    BY <1>4, <1>5, EditDoes
  <2>3. q3.data = q2.data
    BY <1>6, <1>7, RefetchDoes
  <2>4. r.data = q3.data
    BY <1>8, <1>9, InvalidateDoes
  <2> QED
    BY <2>1, <2>2, <2>3, <2>4
<1>12. r.fetch \in {q.fetch, Asked, NoFetch}
  <2>1. q1.fetch \in {q.fetch, NoFetch}
    BY <1>2, <1>3
  <2>2. q2.fetch = q1.fetch
    BY <1>4, <1>5, EditDoes
  <2>3. q3.fetch \in {q2.fetch, Asked}
    BY <1>6, <1>7, RefetchDoes
  <2>4. r.fetch \in {q3.fetch, Asked}
    BY <1>8, <1>9, InvalidateDoes
  <2> QED
    BY <2>1, <2>2, <2>3, <2>4
<1>13. Asked # NoFetch
  BY FetchKinds
<1>14. r.fetch = NoFetch /\ r.stale /\ r.active =>
         q.fetch = NoFetch /\ q.stale /\ r.error = q.error
  <2> SUFFICES ASSUME r.fetch = NoFetch, r.stale, r.active
               PROVE  q.fetch = NoFetch /\ q.stale /\ r.error = q.error
    OBVIOUS
  <2>1. "invalidates" \notin does /\ r = q3
    BY <1>8, <1>9, InvalidateDoes
  <2>2. "refetches" \notin does /\ q3 = q2
    BY <1>6, <1>7, <2>1, RefetchDoes
  <2>3. q2 = q1
    BY <1>4, <1>5, <2>1, <2>2, EditDoes
  <2> QED
    BY <1>2, <1>3, <2>1, <2>2, <2>3
<1>15. r.fetch = NoFetch /\ ~r.stale /\ r.data # {} /\ does \cap ByHand = {} =>
         does = {} /\ r = q
  <2> SUFFICES ASSUME r.fetch = NoFetch, ~r.stale, r.data # {}, does \cap ByHand = {}
               PROVE  does = {} /\ r = q
    OBVIOUS
  <2>1. "tombstones" \notin does /\ "edits" \notin does /\ q2 = q
    BY <1>3, <1>5 DEF ByHand
  <2>2. "invalidates" \notin does /\ r = q3
    BY <1>8, <1>9, InvalidateDoes
  <2>3. "refetches" \notin does /\ q3 = q2
    BY <1>6, <1>7, <2>2, RefetchDoes
  <2> QED
    BY <2>1, <2>2, <2>3 DEF EventFields
<1> QED
  BY <1>1, <1>10, <1>11, <1>12, <1>14, <1>15 DEF Refreshed

\* onSuccess of a panel refreshes the query as the row of the panel says.
LEMMA AnswerRefreshes ==
  ASSUME NEW q \in Queries, NEW does, NEW answer \in SUBSET Parts, NEW parts \in SUBSET Parts,
         Server \subseteq Parts, Server # {}
  PROVE  Refreshed(q, OnSuccess(q, does, answer, parts), does \cap AnswerFields,
                   Server \cup answer \cup parts)
<1> DEFINE a == SetData(Cancel(q), Server)
           q1 == If(does, "tombstones", a, q)
           q2 == If(does, "replaces", SetData(q1, answer), q1)
           q3 == If(does, "writes", SetData(q2, q2.data \cup parts), q2)
           q4 == If(does, "edits", Edit(q3, parts), q3)
           r == If(does, "invalidates", Invalidate(q4), q4)
<1>1. OnSuccess(q, does, answer, parts) = r
  BY DEF OnSuccess
<1>2. /\ a \in Queries /\ a.fetch = NoFetch /\ a.data = Server /\ ~a.stale /\ ~a.error
      /\ a.active = q.active
  BY CancelDoes, SetDataDoes
<1>3. /\ "tombstones" \in does => q1 = a
      /\ "tombstones" \notin does => q1 = q
  BY DEF If
<1> HIDE DEF a
<1>4. q1 \in Queries /\ q1.active = q.active
  BY <1>2, <1>3
<1> HIDE DEF q1
<1>5. /\ "replaces" \in does => q2 = SetData(q1, answer)
      /\ "replaces" \notin does => q2 = q1
  BY DEF If
<1> HIDE DEF q2
<1>6. q2 \in Queries /\ q2.active = q.active
  BY <1>4, <1>5, SetDataDoes
<1>7. q2.data \cup parts \in SUBSET Parts
  BY <1>6 DEF Queries
<1>8. /\ "writes" \in does => q3 = SetData(q2, q2.data \cup parts)
      /\ "writes" \notin does => q3 = q2
  BY DEF If
<1> HIDE DEF q3
<1>9. q3 \in Queries /\ q3.active = q.active
  BY <1>6, <1>7, <1>8, SetDataDoes
<1>10. /\ "edits" \in does => q4 = Edit(q3, parts)
       /\ "edits" \notin does => q4 = q3
  BY DEF If
<1> HIDE DEF q4
<1>11. q4 \in Queries /\ q4.active = q.active
  BY <1>9, <1>10, EditDoes
<1>12. /\ "invalidates" \in does => r = Invalidate(q4)
       /\ "invalidates" \notin does => r = q4
  BY DEF If
<1> HIDE DEF r
<1>13. r \in Queries /\ r.active = q.active
  BY <1>11, <1>12, InvalidateDoes
<1>14. r.data \subseteq q.data \cup (Server \cup answer \cup parts)
  <2>1. q1.data \subseteq q.data \cup Server
    BY <1>2, <1>3
  <2>2. q2.data \subseteq q1.data \cup answer
    BY <1>4, <1>5, SetDataDoes
  <2>3. q3.data \subseteq q2.data \cup parts
    BY <1>6, <1>7, <1>8, SetDataDoes
  <2>4. q4.data \subseteq q3.data \cup parts
    BY <1>9, <1>10, EditDoes
  <2>5. r.data = q4.data
    BY <1>11, <1>12, InvalidateDoes
  <2> QED
    BY <2>1, <2>2, <2>3, <2>4, <2>5
<1>15. q4.fetch = q1.fetch
  <2>1. q2.fetch = q1.fetch
    BY <1>4, <1>5, SetDataDoes
  <2>2. q3.fetch = q2.fetch
    BY <1>6, <1>7, <1>8, SetDataDoes
  <2>3. q4.fetch = q3.fetch
    BY <1>9, <1>10, EditDoes
  <2> QED
    BY <2>1, <2>2, <2>3
<1>16. r.fetch = NoFetch /\ r.stale /\ r.active =>
         q.fetch = NoFetch /\ q.stale /\ r.error = q.error
  <2> SUFFICES ASSUME r.fetch = NoFetch, r.stale, r.active
               PROVE  q.fetch = NoFetch /\ q.stale /\ r.error = q.error
    OBVIOUS
  <2>1. "invalidates" \notin does /\ r = q4
    BY <1>11, <1>12, <1>13, InvalidateDoes
  <2>2. q4 = q3
    BY <1>9, <1>10, <2>1, EditDoes
  <2>3. q3 = q2
    BY <1>6, <1>7, <1>8, <2>1, <2>2, SetDataDoes
  <2>4. q2 = q1
    BY <1>4, <1>5, <2>1, <2>2, <2>3, SetDataDoes
  <2> QED
    BY <1>2, <1>3, <2>1, <2>2, <2>3, <2>4
<1>17. r.fetch = NoFetch /\ ~r.stale /\ r.data # {} /\ does \cap AnswerFields \cap ByHand = {} =>
         does \cap AnswerFields = {} /\ r = q
  <2> SUFFICES ASSUME ~r.stale, does \cap AnswerFields \cap ByHand = {}
               PROVE  does \cap AnswerFields = {} /\ r = q
    OBVIOUS
  <2>1. /\ "tombstones" \notin does /\ "replaces" \notin does
        /\ "writes" \notin does /\ "edits" \notin does
    BY DEF ByHand, AnswerFields
  <2>2. "invalidates" \notin does
    BY <1>11, <1>12, InvalidateDoes
  <2> QED
    BY <1>3, <1>5, <1>8, <1>10, <1>12, <2>1, <2>2 DEF AnswerFields
<1> QED
  <2>1. r.fetch \in {q4.fetch, Asked}
    BY <1>11, <1>12, InvalidateDoes
  <2>2. r.fetch \in {q.fetch, Asked, NoFetch}
    BY <1>2, <1>3, <1>15, <2>1
  <2> QED
    BY <1>1, <1>13, <1>14, <1>16, <1>17, <2>2 DEF Refreshed

-----------------------------------------------------------------------------
(***************************************************************************)
(* The invariant of the cache.                                             *)
(***************************************************************************)

\* The stages of a request.
RequestStages ==
  {"new", "sent", "committed", "answered", "refused", "lost", "done", "failed", "unknown"}

\* The type of the state of ClientCache.
CacheTyped ==
  /\ \A c \in Changes : Fits(change[c])
  /\ inScope \in BOOLEAN
  /\ at \in [Changes -> RequestStages]
  /\ reply \in [Changes -> SUBSET Parts]
  /\ snapshot \in [Changes -> SUBSET Parts]
  /\ inbox \in Seq(Changes \cup {Ack})
  /\ query \in Queries

\* What is published or answered is committed, and what was read is true: a
\* change is told before it is answered, the inbox holds what was told, an
\* answer contains its change, and no answer contains more than the server has.
ToldIsTrue ==
  /\ told \subseteq Committed
  /\ \A c \in Changes : at[c] \in {"answered", "done"} => c \in told
  /\ ToSet(inbox) \subseteq told \cup {Ack}
  /\ \A c \in Shown : at[c] = "committed" /\ change[c].mine => c \in reply[c]
  /\ query.fetch.got \subseteq Server
  /\ \A c \in Changes : reply[c] \subseteq Server

\* Changes that show and whose event this browser is done with, whether it
\* received it or not, though it would refresh the query.
Noticed == {c \in told \cap Shown : ~change[c].eventGap /\ c \notin ToSet(inbox)}

\* Own changes that show and whose panel is done with refreshing the query.
Acknowledged ==
  {Base} \cup {c \in told \cap Shown :
                 /\ change[c].mine /\ ~change[c].panelGap
                 /\ \/ at[c] = "done"
                    \/ at[c] = "answered" /\ change[c].panel \cap AnswerFields # {}}

\* Requests that cancelled the fetch of the query and are bound to settle.
Snaps == {c \in Changes : "snapshots" \in change[c].panel /\ Underway(c)}

\* A fetch that is still to be read makes up for everything; one that is read
\* has got what is handled, save what is exempt; and where none is running, the
\* data has it, unless the query is stale, in error or empty, or a request is
\* bound to refresh it.  In view, a stale query is being fetched, unless that
\* failed or was cancelled by such a request.
Covered(q, events, answers, mis, over, snaps) ==
  /\ q.fetch.at = "asked" => mis = {} /\ over = {}
  /\ q.fetch.at = "read" => /\ events \subseteq q.fetch.got \cup mis \cup over
                            /\ answers \subseteq q.fetch.got \cup over
  /\ q.fetch.at = "idle" => \/ q.data = {} \/ q.stale \/ q.error \/ snaps # {}
                            \/ /\ events \subseteq q.data \cup mis \cup over
                               /\ answers \subseteq q.data \cup over
  /\ q.fetch.at = "idle" /\ q.stale /\ q.active => q.error \/ snaps # {}

\* The cover of the query as it is, by what is handled so far.
HandledIsCovered == Covered(query, Noticed, Acknowledged, missed, overtaken, Snaps)

\* The inductive invariant of a cache: types, truth of what was told, and cover.
CacheInv == CacheTyped /\ ToldIsTrue /\ HandledIsCovered

\* From one state of the query to the next.
LEMMA CoversAgain ==
  ASSUME NEW q \in Queries, NEW r \in Queries,
         NEW events, NEW answers, NEW mis, NEW over, NEW snaps,
         NEW events2, NEW answers2, NEW mis2, NEW over2, NEW snaps2,
         Covered(q, events, answers, mis, over, snaps),
         r.fetch \in {q.fetch, Asked, NoFetch},
         r.fetch.at = "asked" => mis2 = {} /\ over2 = {},
         r.fetch.at # "asked" => over \subseteq over2,
         r.fetch.at = "read" =>
           /\ answers2 \subseteq answers \cup r.fetch.got \cup over2
           /\ events2 \subseteq events \cup r.fetch.got \cup mis2 \cup over2
           /\ mis \subseteq mis2 \/ events2 \subseteq r.fetch.got \cup over2,
         r.fetch = NoFetch /\ r.stale /\ r.active => r.error \/ snaps2 # {},
         r.fetch = NoFetch /\ ~r.stale /\ ~r.error /\ r.data # {} /\ snaps2 = {} =>
           \/ answers2 \subseteq r.data \cup over2 /\ events2 \subseteq r.data \cup mis2 \cup over2
           \/ /\ q.fetch = NoFetch /\ q.data = r.data /\ ~q.stale /\ ~q.error /\ snaps = {}
              /\ answers2 \subseteq answers /\ events2 \subseteq events \cup mis2
              /\ mis \subseteq mis2
  PROVE  Covered(r, events2, answers2, mis2, over2, snaps2)
<1> USE FetchKinds
<1>0. q.fetch \in Fetches /\ r.fetch \in Fetches /\ r.stale \in BOOLEAN /\ r.error \in BOOLEAN
  BY DEF Queries
<1>1. r.fetch.at = "asked" => mis2 = {} /\ over2 = {}
  OBVIOUS
<1>2. ASSUME r.fetch.at = "read"
      PROVE  /\ events2 \subseteq r.fetch.got \cup mis2 \cup over2
             /\ answers2 \subseteq r.fetch.got \cup over2
  <2>1. r.fetch = q.fetch
    BY <1>0, <1>2
  <2>2. /\ events \subseteq r.fetch.got \cup mis \cup over
        /\ answers \subseteq r.fetch.got \cup over
    BY <1>2, <2>1 DEF Covered
  <2> QED
    BY <1>2, <2>2
<1>3. ASSUME r.fetch.at = "idle"
      PROVE  \/ r.data = {} \/ r.stale \/ r.error \/ snaps2 # {}
             \/ /\ events2 \subseteq r.data \cup mis2 \cup over2
                /\ answers2 \subseteq r.data \cup over2
  <2>1. r.fetch = NoFetch
    BY <1>0, <1>3
  <2>2. q.fetch = NoFetch /\ r.data # {} /\ q.data = r.data /\ ~q.stale /\ ~q.error /\ snaps = {} =>
          /\ events \subseteq r.data \cup mis \cup over
          /\ answers \subseteq r.data \cup over
    BY DEF Covered
  <2>3. over \subseteq over2
    BY <1>3
  <2> QED
    BY <2>1, <2>2, <2>3
<1>4. r.fetch.at = "idle" /\ r.stale /\ r.active => r.error \/ snaps2 # {}
  BY <1>0
<1> QED
  BY <1>1, <1>2, <1>3, <1>4 DEF Covered

\* What appending to an inbox, and taking its first message, does to what is in it.
LEMMA Boxes ==
  ASSUME NEW box \in Seq(Changes \cup {Ack})
  PROVE  /\ ToSet(box) \subseteq Changes \cup {Ack}
         /\ \A m \in Changes \cup {Ack} : /\ Append(box, m) \in Seq(Changes \cup {Ack})
                                          /\ ToSet(Append(box, m)) = ToSet(box) \cup {m}
         /\ box # <<>> => /\ Head(box) \in ToSet(box)
                          /\ Tail(box) \in Seq(Changes \cup {Ack})
                          /\ ToSet(box) = {Head(box)} \cup ToSet(Tail(box))
<1> USE DEF ToSet
<1>1. ToSet(box) \subseteq Changes \cup {Ack}
  OBVIOUS
<1>2. ASSUME NEW m \in Changes \cup {Ack}
      PROVE  /\ Append(box, m) \in Seq(Changes \cup {Ack})
             /\ ToSet(Append(box, m)) = ToSet(box) \cup {m}
  <2>1. Append(box, m) \in Seq(Changes \cup {Ack}) /\ Len(Append(box, m)) = Len(box) + 1
    OBVIOUS
  <2>2. \A i \in 1 .. Len(box) : Append(box, m)[i] = box[i]
    OBVIOUS
  <2>3. Append(box, m)[Len(box) + 1] = m
    OBVIOUS
  <2>4. ToSet(Append(box, m)) \subseteq ToSet(box) \cup {m}
    BY <2>1, <2>2, <2>3
  <2>5. ToSet(box) \subseteq ToSet(Append(box, m))
    BY <2>1, <2>2
  <2>6. m \in ToSet(Append(box, m))
    BY <2>1, <2>3
  <2> QED
    BY <2>1, <2>4, <2>5, <2>6
<1>3. ASSUME box # <<>>
      PROVE  /\ Head(box) \in ToSet(box)
             /\ Tail(box) \in Seq(Changes \cup {Ack})
             /\ ToSet(box) = {Head(box)} \cup ToSet(Tail(box))
  <2>1. Tail(box) \in Seq(Changes \cup {Ack}) /\ Len(Tail(box)) = Len(box) - 1 /\ Len(box) \in Nat
        /\ Len(box) > 0 /\ Head(box) = box[1]
    BY <1>3
  <2>2. \A i \in 1 .. Len(box) - 1 : Tail(box)[i] = box[i + 1]
    BY <1>3
  <2>3. ToSet(Tail(box)) \subseteq ToSet(box)
    BY <2>1, <2>2
  <2>4. \A i \in 1 .. Len(box) : i = 1 \/ (i - 1 \in 1 .. Len(box) - 1 /\ box[i] = Tail(box)[i - 1])
    BY <2>1, <2>2
  <2>5. \A i \in 1 .. Len(box) : box[i] = Head(box) \/ box[i] \in ToSet(Tail(box))
    <3> SUFFICES ASSUME NEW i \in 1 .. Len(box), i # 1 PROVE box[i] \in ToSet(Tail(box))
      BY <2>1
    <3>1. i - 1 \in 1 .. Len(Tail(box)) /\ box[i] = Tail(box)[i - 1]
      BY <2>1, <2>4
    <3>2. DOMAIN Tail(box) = 1 .. Len(Tail(box))
      BY <2>1
    <3> QED
      BY <3>1, <3>2
  <2>6. Head(box) \in ToSet(box)
    BY <2>1
  <2> QED
    BY <2>1, <2>3, <2>5, <2>6
<1> QED
  BY <1>1, <1>2, <1>3

\* What each stage of a request counts as.
LEMMA StagesKnown ==
  ASSUME CacheTyped
  PROVE  /\ \A c \in Changes : at[c] \in RequestStages
         /\ Server \subseteq Parts /\ Base \in Server /\ Server # {}
         /\ query \in Queries /\ query.fetch \in Fetches
         /\ query.data \subseteq Parts /\ query.fetch.got \subseteq Parts
         /\ \A c \in Changes : reply[c] \in SUBSET Parts /\ snapshot[c] \in SUBSET Parts
         /\ \A c : {c} \cap Shown \in SUBSET Parts /\ {c} \cap Shown \subseteq Changes
<1>1. query \in Queries
  BY DEF CacheTyped
<1>2. query.fetch \in Fetches /\ query.data \subseteq Parts
  BY <1>1 DEF Queries
<1>3. query.fetch.got \subseteq Parts
  BY <1>2, FetchKinds
<1> QED
  BY <1>1, <1>2, <1>3 DEF CacheTyped, Server, Committed, Shown, Parts

\* A handler that accounts for what it does to the query leaves that behind.
LEMMA AccountIs ==
  ASSUME NEW q, NEW refreshes \in BOOLEAN, NEW writes \in BOOLEAN, NEW parts, NEW box,
         NEW misses, Account(q, refreshes, writes, parts, box, misses)
  PROVE  /\ query' = q
         /\ q.fetch.at = "asked" => missed' = {} /\ overtaken' = {}
         /\ q.fetch.at # "asked" => missed' = misses /\ overtaken \subseteq overtaken'
         /\ q.fetch.at = "read" /\ refreshes => parts \subseteq q.fetch.got \cup overtaken'
         /\ q.fetch.at # "asked" /\ writes /\ ~q.stale =>
              {Base} \cup Handled(box) \subseteq q.data \cup overtaken'
BY DEF Account

\* The panel has just been opened: its query is asked for.
LEMMA InitOfCache == CacheInit => CacheInv
<1> SUFFICES ASSUME CacheInit PROVE CacheInv
  OBVIOUS
<1> USE DEF CacheInit
<1>1. \A c \in Changes : Fits(change[c])
  <2>1. PICK k \in Keys : change \in [Changes -> Happenings(k, TRUE) \cup Happenings(k, FALSE)]
    OBVIOUS
  <2>2. ASSUME NEW mine \in BOOLEAN, NEW t \in Happenings(k, mine) PROVE Fits(t)
    <3>1. PICK op \in IF mine THEN PanelOps ELSE Ops : t = Traits(op, k, mine)
      BY <2>2 DEF Happenings
    <3> QED
      BY <3>1, TraitsFit
  <2> QED
    BY <2>1, <2>2
<1>2. query \in Queries
  BY DEF Queries, Fetches
<1>3. inbox \in Seq(Changes \cup {Ack}) /\ ToSet(inbox) = {}
  BY DEF ToSet
<1>4. CacheTyped
  BY <1>1, <1>2, <1>3 DEF CacheTyped, RequestStages
<1>5. ToldIsTrue
  BY <1>3, FetchKinds DEF ToldIsTrue, Committed, Shown, Server
<1>6. HandledIsCovered
  BY FetchKinds DEF HandledIsCovered, Covered
<1> QED
  BY <1>4, <1>5, <1>6 DEF CacheInv

\* A panel sends its request: its snapshot cancels the fetch.
LEMMA MutatePreserves ==
  ASSUME CacheInv, NEW c \in Changes, Mutate(c)
  PROVE  CacheInv'
<1> DEFINE does == change[c].panel
           q == If(does, "snapshots", Cancel(query), query)
           r == If(does, "optimistic", Edit(q, {c} \cap Shown), q)
<1> USE StagesKnown DEF CacheInv
<1>1. /\ change[c].mine /\ at[c] = "new" /\ at' = [at EXCEPT ![c] = "sent"]
      /\ snapshot' = [snapshot EXCEPT ![c] = If(does, "snapshots", q.data, {})]
      /\ Account(r, FALSE, does \cap {"optimistic"} # {}, {}, inbox, missed)
      /\ UNCHANGED <<change, inScope, told, reply, socket, room, asked, inbox, faults>>
  BY DEF Mutate, Goes, setup, connection
<1>2. Fits(change[c])
  BY DEF CacheTyped
<1>3. IF "snapshots" \in does THEN q = Cancel(query) ELSE q = query
  BY DEF If
<1>4. IF "optimistic" \in does THEN r = Edit(q, {c} \cap Shown) ELSE r = q
  BY DEF If
<1>5. q \in Queries
  BY <1>3, CancelDoes
<1>6. q.data \subseteq Parts
  BY <1>5 DEF Queries
<1>7. If(does, "snapshots", q.data, {}) \subseteq Parts
  BY <1>6 DEF If
<1>8. r \in Queries
  BY <1>4, <1>5, EditDoes
<1>9. /\ "snapshots" \notin does => r = query
      /\ "snapshots" \in does => r.fetch = NoFetch
  <2>1. "snapshots" \notin does => "optimistic" \notin does
    BY <1>2 DEF Fits
  <2>2. r.fetch = q.fetch
    <3>1. {c} \cap Shown \in SUBSET Parts
      OBVIOUS
    <3> QED
      BY <1>4, <1>5, <3>1, EditDoes
  <2>3. "snapshots" \in does => q.fetch = NoFetch
    BY <1>3, CancelDoes
  <2> QED
    BY <1>3, <1>4, <2>1, <2>2, <2>3
<1> HIDE DEF q, r
<1>10. /\ query' = r
       /\ r.fetch.at = "asked" => missed' = {} /\ overtaken' = {}
       /\ r.fetch.at # "asked" => missed' = missed /\ overtaken \subseteq overtaken'
  BY <1>1, AccountIs
<1>11. CacheTyped'
  BY <1>1, <1>7, <1>8, <1>10 DEF CacheTyped, RequestStages
<1>12. Committed' = Committed /\ Shown' = Shown /\ Server' = Server
  BY <1>1 DEF CacheTyped, Committed, Shown, Server
<1>13. ToldIsTrue'
  <2>1. query'.fetch.got \subseteq Server
    BY <1>9, <1>10, FetchKinds DEF ToldIsTrue
  <2> QED
    BY <1>1, <1>12, <2>1 DEF ToldIsTrue, CacheTyped
<1>14. HandledIsCovered'
  <2>1. Noticed' = Noticed /\ Acknowledged' = Acknowledged
    BY <1>1, <1>12 DEF Noticed, Acknowledged, CacheTyped
  <2>2. Snaps \subseteq Snaps' /\ ("snapshots" \in does => Snaps' # {})
    BY <1>1 DEF Snaps, Underway, CacheTyped, Ended
  <2>3. Covered(r, Noticed, Acknowledged, missed', overtaken', Snaps')
    <3>1. Covered(query, Noticed, Acknowledged, missed, overtaken, Snaps)
      BY DEF HandledIsCovered
    <3>2. "snapshots" \notin does => Covered(r, Noticed, Acknowledged, missed', overtaken', Snaps')
      BY <1>9, <1>10, <2>2, <3>1 DEF Covered
    <3>3. "snapshots" \in does => Covered(r, Noticed, Acknowledged, missed', overtaken', Snaps')
      BY <1>9, <2>2, FetchKinds DEF Covered
    <3> QED
      BY <3>2, <3>3
  <2> QED
    BY <1>10, <2>1, <2>3 DEF HandledIsCovered
<1> QED
  BY <1>11, <1>13, <1>14 DEF CacheInv

\* A commit adds to what the server has; nothing about it is handled yet.
LEMMA CommitPreserves ==
  ASSUME CacheInv, NEW c \in Changes, Commit(c)
  PROVE  CacheInv'
<1> USE StagesKnown DEF CacheInv
<1>1. /\ at[c] = IF change[c].mine THEN "sent" ELSE "new"
      /\ at' = [at EXCEPT ![c] = "committed"]
      /\ reply' = IF change[c].mine THEN [reply EXCEPT ![c] = Server \cup ({c} \cap Shown)] ELSE reply
      /\ UNCHANGED <<change, inScope, told, snapshot, socket, room, asked, inbox, query,
                     missed, overtaken, faults>>
  BY DEF Commit, Goes, setup, connection
<1>2. /\ Committed' = Committed \cup {c} /\ Shown' = Shown
      /\ c \notin Committed
  BY <1>1 DEF CacheTyped, Committed, Shown
<1>3. Server' = Server \cup ({c} \cap Shown)
  BY <1>1, <1>2 DEF Server
<1>4. c \notin told
  BY <1>2 DEF ToldIsTrue
<1>5. CacheTyped'
  BY <1>1 DEF CacheTyped, RequestStages
<1>6. ToldIsTrue'
  <2>1. reply' \in [Changes -> SUBSET Parts]
    BY <1>5 DEF CacheTyped
  <2>2. \A d \in Changes : reply'[d] \subseteq Server'
    BY <1>1, <1>3 DEF ToldIsTrue, CacheTyped
  <2>3. \A d \in Changes : at'[d] \in {"answered", "done"} => d \in told'
    BY <1>1 DEF ToldIsTrue, CacheTyped
  <2>4. \A d \in Shown' : at'[d] = "committed" /\ change'[d].mine => d \in reply'[d]
    <3> SUFFICES ASSUME NEW d \in Shown, at'[d] = "committed", change[d].mine
                 PROVE  d \in reply'[d]
      BY <1>1, <1>2
    <3>1. d \in Changes
      BY DEF Shown
    <3>2. CASE d = c
      BY <1>1, <3>1, <3>2 DEF CacheTyped
    <3>3. CASE d # c
      BY <1>1, <3>1, <3>3 DEF CacheTyped, ToldIsTrue
    <3> QED
      BY <3>2, <3>3
  <2> QED
    BY <1>1, <1>2, <1>3, <2>2, <2>3, <2>4 DEF ToldIsTrue
<1>7. HandledIsCovered'
  <2>1. Noticed' = Noticed
    BY <1>1, <1>2 DEF Noticed
  <2>2. Acknowledged' = Acknowledged
    BY <1>1, <1>2, <1>4 DEF Acknowledged, CacheTyped
  <2>3. Snaps' = Snaps
    <3>1. ~change[c].mine => change[c].panel = {}
      BY DEF CacheTyped, Fits
    <3> QED
      BY <1>1, <3>1 DEF Snaps, Underway, Ended, CacheTyped
  <2> QED
    BY <1>1, <2>1, <2>2, <2>3 DEF HandledIsCovered
<1> QED
  BY <1>5, <1>6, <1>7 DEF CacheInv

\* An event enters the inbox, or is missed: then the gap is accounted for.
LEMMA PublishChangePreserves ==
  ASSUME CacheInv, NEW c \in Changes, PublishChange(c)
  PROVE  CacheInv'
<1> USE StagesKnown DEF CacheInv
<1> DEFINE arrives == IF change[c].private THEN socket ELSE room
<1>1. /\ c \in Committed \ told /\ told' = told \cup {c}
      /\ UNCHANGED <<change, inScope, at, reply, snapshot, socket, room, asked>>
  BY DEF PublishChange, setup
<1>2. PICK lost \in BOOLEAN :
        /\ inbox' = IF arrives /\ ~lost THEN Append(inbox, c) ELSE inbox
        /\ Account(query, FALSE, FALSE, {}, inbox, IF arrives /\ ~lost THEN missed ELSE missed \cup {c})
  BY Zenon DEF PublishChange
<1> DEFINE misses == IF arrives /\ ~lost THEN missed ELSE missed \cup {c}
<1>3. /\ query' = query
      /\ query.fetch.at = "asked" => missed' = {} /\ overtaken' = {}
      /\ query.fetch.at # "asked" => missed' = misses /\ overtaken \subseteq overtaken'
  BY <1>2, AccountIs
<1>4. \/ inbox' = Append(inbox, c) /\ misses = missed
      \/ inbox' = inbox /\ misses = missed \cup {c}
  <2>1. CASE arrives /\ ~lost
    BY <1>2, <2>1
  <2>2. CASE ~(arrives /\ ~lost)
    BY <1>2, <2>2
  <2> QED
    BY <2>1, <2>2
<1> HIDE DEF arrives, misses
<1>5. inbox' \in Seq(Changes \cup {Ack})
  BY <1>4, Boxes DEF CacheTyped
<1>6. CacheTyped'
  BY <1>1, <1>3, <1>5 DEF CacheTyped
<1>7. Committed' = Committed /\ Shown' = Shown /\ Server' = Server
  BY <1>1 DEF Committed, Shown, Server
<1>8. \/ ToSet(inbox') = ToSet(inbox) \cup {c} /\ misses = missed
      \/ ToSet(inbox') = ToSet(inbox) /\ misses = missed \cup {c}
  BY <1>4, Boxes DEF CacheTyped
<1>9. ToldIsTrue'
  BY <1>1, <1>3, <1>7, <1>8 DEF ToldIsTrue
<1>10. HandledIsCovered'
  <2>1. Noticed' \subseteq Noticed \cup misses /\ missed \subseteq misses
    BY <1>1, <1>7, <1>8 DEF Noticed
  <2>2. Acknowledged' = Acknowledged
    BY <1>1, <1>7 DEF Acknowledged, ToldIsTrue
  <2>3. Snaps' = Snaps
    BY <1>1 DEF Snaps, Underway
  <2>4. Covered(query, Noticed, Acknowledged, missed, overtaken, Snaps)
    BY DEF HandledIsCovered
  <2>5. Covered(query, Noticed', Acknowledged', missed', overtaken', Snaps')
    <3>1. query.fetch.at = "asked" => Covered(query, Noticed', Acknowledged', missed', overtaken', Snaps')
      BY <1>3, FetchKinds DEF Covered
    <3>2. query.fetch.at # "asked" => Covered(query, Noticed', Acknowledged', missed', overtaken', Snaps')
      BY <1>3, <2>1, <2>2, <2>3, <2>4 DEF Covered
    <3> QED
      BY <3>1, <3>2
  <2> QED
    BY <1>3, <2>5 DEF HandledIsCovered
<1> QED
  BY <1>6, <1>9, <1>10 DEF CacheInv

\* The event of a change.
LEMMA EventPreserves ==
  ASSUME CacheInv, Receive, Head(inbox) # Ack
  PROVE  CacheInv'
<1> DEFINE m == Head(inbox)
           box == Tail(inbox)
           does == change[m].event
           parts == {m} \cap Shown
           r == OnEvent(query, does, parts)
<1> USE StagesKnown DEF CacheInv
<1>1. /\ inbox # <<>> /\ inbox' = box
      /\ Account(r, does # {}, does \cap ByHand # {}, parts, box, missed)
      /\ UNCHANGED <<change, inScope, at, told, reply, snapshot, socket, room, asked, faults>>
  BY DEF Receive, setup
<1>2. /\ m \in ToSet(inbox) /\ box \in Seq(Changes \cup {Ack})
      /\ ToSet(inbox) = {m} \cup ToSet(box)
  BY <1>1, Boxes DEF CacheTyped
<1>3. m \in told /\ m \in Changes /\ m \in Committed
  BY <1>2 DEF ToldIsTrue, Committed
<1>4. Fits(change[m])
  BY <1>3 DEF CacheTyped
<1>5. parts \in SUBSET Parts /\ parts \subseteq Server
  BY <1>3 DEF Server, Parts
<1>6. Refreshed(query, r, does, Server \cup parts)
  BY <1>4, <1>5, EventRefreshes DEF Fits
<1> HIDE DEF m, box, does, parts, r
<1>7. /\ query' = r
      /\ r.fetch.at = "asked" => missed' = {} /\ overtaken' = {}
      /\ r.fetch.at # "asked" => missed' = missed /\ overtaken \subseteq overtaken'
      /\ r.fetch.at = "read" /\ does # {} => parts \subseteq r.fetch.got \cup overtaken'
      /\ r.fetch.at # "asked" /\ does \cap ByHand # {} /\ ~r.stale =>
           {Base} \cup Handled(box) \subseteq r.data \cup overtaken'
  BY <1>1, AccountIs
<1>8. CacheTyped'
  BY <1>1, <1>2, <1>6, <1>7 DEF CacheTyped, Refreshed
<1>9. Committed' = Committed /\ Shown' = Shown /\ Server' = Server
  BY <1>1 DEF Committed, Shown, Server
<1>10. ToldIsTrue'
  <2>1. r.fetch.got \subseteq Server
    BY <1>6, FetchKinds DEF ToldIsTrue, Refreshed
  <2> QED
    BY <1>1, <1>2, <1>7, <1>9, <2>1 DEF ToldIsTrue
<1>11. HandledIsCovered'
  <2>1. Acknowledged' = Acknowledged /\ Snaps' = Snaps
    BY <1>1, <1>9 DEF Acknowledged, Snaps, Underway
  <2>2. Noticed' \subseteq Noticed \cup parts /\ (does = {} => Noticed' \subseteq Noticed)
    <3>1. Noticed' \subseteq Noticed \cup {m}
      BY <1>1, <1>2, <1>9 DEF Noticed
    <3>2. m \in Noticed' => m \in Shown /\ does # {}
      BY <1>1, <1>4, <1>9 DEF Noticed, Fits, Shown, does
    <3> QED
      BY <3>1, <3>2 DEF parts
  <2>3. Noticed' \cup Acknowledged \subseteq {Base} \cup Handled(box)
    BY <1>1, <1>9 DEF Noticed, Acknowledged, Handled
  <2>4. Covered(query, Noticed, Acknowledged, missed, overtaken, Snaps)
    BY DEF HandledIsCovered
  <2>5. r.fetch.at = "read" =>
          /\ Acknowledged \subseteq Acknowledged \cup r.fetch.got \cup overtaken'
          /\ Noticed' \subseteq Noticed \cup r.fetch.got \cup missed' \cup overtaken'
          /\ missed \subseteq missed'
    BY <1>7, <2>2
  <2>6. r.fetch = NoFetch /\ r.stale /\ r.active => r.error \/ Snaps # {}
    BY <1>6, <2>4, FetchKinds DEF Refreshed, Covered
  <2>7. r.fetch = NoFetch /\ ~r.stale /\ ~r.error /\ r.data # {} /\ Snaps = {} =>
          \/ /\ Acknowledged \subseteq r.data \cup overtaken'
             /\ Noticed' \subseteq r.data \cup missed' \cup overtaken'
          \/ /\ query.fetch = NoFetch /\ query.data = r.data /\ ~query.stale /\ ~query.error
             /\ Snaps = {} /\ Noticed' \subseteq Noticed \cup missed' /\ missed \subseteq missed'
    <3> SUFFICES ASSUME r.fetch = NoFetch, ~r.stale, ~r.error, r.data # {}, Snaps = {}
                 PROVE  \/ /\ Acknowledged \subseteq r.data \cup overtaken'
                           /\ Noticed' \subseteq r.data \cup missed' \cup overtaken'
                        \/ /\ query.fetch = NoFetch /\ query.data = r.data
                           /\ ~query.stale /\ ~query.error
                           /\ Snaps = {} /\ Noticed' \subseteq Noticed \cup missed'
                           /\ missed \subseteq missed'
      OBVIOUS
    <3>1. r.fetch.at = "idle"
      BY FetchKinds
    <3>2. CASE does \cap ByHand # {}
      BY <1>7, <2>3, <3>1, <3>2
    <3>3. CASE does \cap ByHand = {}
      <4>1. does = {} /\ r = query
        BY <1>6, <3>3 DEF Refreshed
      <4> QED
        BY <1>7, <2>2, <3>1, <4>1
    <3> QED
      BY <3>2, <3>3
  <2>8. r \in Queries /\ r.fetch \in {query.fetch, Asked, NoFetch}
    BY <1>6 DEF Refreshed
  <2>9. Covered(r, Noticed', Acknowledged, missed', overtaken', Snaps)
    BY <1>7, <2>4, <2>5, <2>6, <2>7, <2>8, CoversAgain
  <2> QED
    BY <1>7, <2>1, <2>9 DEF HandledIsCovered
<1> QED
  BY <1>8, <1>10, <1>11 DEF CacheInv

\* The acknowledgement of a resubscription.
LEMMA AckPreserves ==
  ASSUME CacheInv, Receive, Head(inbox) = Ack
  PROVE  CacheInv'
<1> DEFINE box == Tail(inbox)
           r == OnAck(query)
           misses == IF inScope THEN {} ELSE missed
<1> USE StagesKnown DEF CacheInv
<1>1. /\ inbox # <<>> /\ inbox' = box
      /\ Account(r, inScope, FALSE, Handled(box), box, misses)
      /\ UNCHANGED <<change, inScope, at, told, reply, snapshot, socket, room, asked, faults>>
  BY DEF Receive, setup
<1>2. /\ box \in Seq(Changes \cup {Ack})
      /\ ToSet(inbox) = {Ack} \cup ToSet(box)
  BY <1>1, Boxes DEF CacheTyped
<1>3. inScope \in BOOLEAN
  BY DEF CacheTyped
<1>4. inScope => r = Invalidate(query)
  BY DEF OnAck
<1>5. ~inScope => r = query
  BY DEF OnAck
<1>6. inScope => misses = {}
  OBVIOUS
<1>7. ~inScope => misses = missed
  OBVIOUS
<1> HIDE DEF box, r, misses
<1>8. /\ query' = r
      /\ r.fetch.at = "asked" => missed' = {} /\ overtaken' = {}
      /\ r.fetch.at # "asked" => missed' = misses /\ overtaken \subseteq overtaken'
      /\ r.fetch.at = "read" /\ inScope => Handled(box) \subseteq r.fetch.got \cup overtaken'
  BY <1>1, <1>3, AccountIs
<1>9. /\ r \in Queries /\ r.fetch \in {query.fetch, Asked}
      /\ r.active = query.active
  BY <1>4, <1>5, InvalidateDoes
<1>10. CacheTyped'
  BY <1>1, <1>2, <1>8, <1>9 DEF CacheTyped
<1>11. Committed' = Committed /\ Shown' = Shown /\ Server' = Server
  BY <1>1 DEF Committed, Shown, Server
<1>12. ToldIsTrue'
  <2>1. r.fetch.got \subseteq Server
    BY <1>9, FetchKinds DEF ToldIsTrue
  <2> QED
    BY <1>1, <1>2, <1>8, <1>11, <2>1 DEF ToldIsTrue
<1>13. HandledIsCovered'
  <2>1. Acknowledged' = Acknowledged /\ Snaps' = Snaps
    BY <1>1, <1>11 DEF Acknowledged, Snaps, Underway
  <2>2. Noticed' = Noticed
    BY <1>1, <1>2, <1>11, ChangesAssumption DEF Noticed, Shown
  <2>3. Noticed \subseteq Handled(box)
    BY <1>2 DEF Noticed, Handled
  <2>4. Covered(query, Noticed, Acknowledged, missed, overtaken, Snaps)
    BY DEF HandledIsCovered
  <2>5. CASE inScope
    <3>1. r.fetch.at = "read" =>
            /\ Acknowledged \subseteq Acknowledged \cup r.fetch.got \cup overtaken'
            /\ Noticed \subseteq Noticed \cup r.fetch.got \cup missed' \cup overtaken'
            /\ Noticed \subseteq r.fetch.got \cup overtaken'
      BY <1>8, <2>3, <2>5
    <3>2. r.stale /\ (r.active => r.fetch # NoFetch)
      BY <1>4, <2>5, InvalidateDoes
    <3>3. Covered(r, Noticed, Acknowledged, missed', overtaken', Snaps)
      BY <1>8, <1>9, <2>4, <3>1, <3>2, CoversAgain
    <3> QED
      BY <1>8, <2>1, <2>2, <3>3 DEF HandledIsCovered
  <2>6. CASE ~inScope
    <3>1. Covered(query, Noticed, Acknowledged, missed', overtaken', Snaps)
      BY <1>5, <1>7, <1>8, <2>4, <2>6, FetchKinds DEF Covered
    <3> QED
      BY <1>5, <1>8, <2>1, <2>2, <2>6, <3>1 DEF HandledIsCovered
  <2> QED
    BY <1>3, <2>5, <2>6
<1> QED
  BY <1>10, <1>12, <1>13 DEF CacheInv

\* An answer that was written by hand shows.
LEMMA AnswerShows ==
  ASSUME NEW q \in Queries, NEW does, NEW answer \in SUBSET Parts, NEW parts \in SUBSET Parts,
         Server \subseteq Parts, parts \subseteq Server, parts \subseteq answer,
         does \cap AnswerFields \cap ByHand # {}, OnSuccess(q, does, answer, parts).data # {}
  PROVE  parts \subseteq OnSuccess(q, does, answer, parts).data
<1> DEFINE a == SetData(Cancel(q), Server)
           q1 == If(does, "tombstones", a, q)
           q2 == If(does, "replaces", SetData(q1, answer), q1)
           q3 == If(does, "writes", SetData(q2, q2.data \cup parts), q2)
           q4 == If(does, "edits", Edit(q3, parts), q3)
           r == If(does, "invalidates", Invalidate(q4), q4)
<1>1. OnSuccess(q, does, answer, parts) = r
  BY DEF OnSuccess
<1>2. a \in Queries /\ a.data = Server
  BY CancelDoes, SetDataDoes
<1>3. /\ "tombstones" \in does => q1 = a
      /\ "tombstones" \notin does => q1 = q
  BY DEF If
<1> HIDE DEF a
<1>4. q1 \in Queries /\ ("tombstones" \in does => parts \subseteq q1.data)
  BY <1>2, <1>3
<1> HIDE DEF q1
<1>5. /\ "replaces" \in does => q2 = SetData(q1, answer)
      /\ "replaces" \notin does => q2 = q1
  BY DEF If
<1> HIDE DEF q2
<1>6. /\ q2 \in Queries
      /\ "replaces" \in does \/ parts \subseteq q1.data => parts \subseteq q2.data
  BY <1>4, <1>5, SetDataDoes
<1>7. q2.data \cup parts \in SUBSET Parts
  BY <1>6 DEF Queries
<1>8. /\ "writes" \in does => q3 = SetData(q2, q2.data \cup parts)
      /\ "writes" \notin does => q3 = q2
  BY DEF If
<1> HIDE DEF q3
<1>9. /\ q3 \in Queries
      /\ "writes" \in does \/ parts \subseteq q2.data => parts \subseteq q3.data
  BY <1>6, <1>7, <1>8, SetDataDoes
<1>10. /\ "edits" \in does => q4 = Edit(q3, parts)
       /\ "edits" \notin does => q4 = q3
  BY DEF If
<1> HIDE DEF q4
<1>11. /\ q4 \in Queries
       /\ q4.data # {} /\ ("edits" \in does \/ parts \subseteq q3.data) => parts \subseteq q4.data
  <2>1. CASE "edits" \in does
    <3>1. /\ Edit(q3, parts) \in Queries
          /\ Edit(q3, parts).data = IF q3.data = {} THEN {} ELSE q3.data \cup parts
      BY <1>9, EditDoes
    <3> QED
      BY <1>10, <2>1, <3>1
  <2>2. CASE "edits" \notin does
    BY <1>9, <1>10, <2>2
  <2> QED
    BY <2>1, <2>2
<1>12. r.data = q4.data
  BY <1>11, InvalidateDoes DEF If
<1> HIDE DEF r
<1>13. {"tombstones", "replaces", "writes", "edits"} \cap does # {}
  BY DEF ByHand
<1> QED
  BY <1>1, <1>4, <1>6, <1>9, <1>11, <1>12, <1>13

\* A request is answered: the panel refreshes the query itself.
LEMMA AnswerPreserves ==
  ASSUME CacheInv, NEW c \in Changes, Answer(c)
  PROVE  CacheInv'
<1> DEFINE does == change[c].panel
           parts == {c} \cap Shown
           r == OnSuccess(query, does, reply[c], parts)
           writes == does \cap ByHand # {}
           refreshes == does \cap {"invalidates", "writes", "replaces", "edits"} # {}
<1> USE StagesKnown DEF CacheInv
<1>1. /\ change[c].mine /\ c \in told
      /\ at[c] = "committed" /\ at' = [at EXCEPT ![c] = "answered"]
      /\ Account(r, refreshes, writes, parts, inbox, missed)
      /\ UNCHANGED <<change, inScope, told, reply, snapshot, socket, room, asked, inbox, faults>>
  BY DEF Answer, Goes, setup, connection
<1>2. /\ Committed' = Committed /\ Shown' = Shown
      /\ c \in Committed
  BY <1>1 DEF CacheTyped, Committed, Shown
<1>3. Server' = Server
  BY <1>2 DEF Server
<1>4. parts \in SUBSET Parts /\ parts \subseteq Server /\ parts \subseteq reply[c]
  BY <1>1, <1>2 DEF Server, Parts, ToldIsTrue
<1>5. reply[c] \in SUBSET Parts /\ reply[c] \subseteq Server
  BY DEF ToldIsTrue
<1>6. Refreshed(query, r, does \cap AnswerFields, Server \cup reply[c] \cup parts)
  BY <1>4, <1>5, AnswerRefreshes
<1>7. does \cap AnswerFields \cap ByHand # {} /\ r.data # {} => parts \subseteq r.data
  BY <1>4, <1>5, AnswerShows
<1>8. /\ does \cap AnswerFields \cap ByHand = does \cap ByHand
      /\ does \cap AnswerFields # {} => refreshes \/ "tombstones" \in does
  BY DEF AnswerFields, ByHand
<1>9. "tombstones" \in does => writes
  BY DEF ByHand
<1> HIDE DEF does, parts, r, writes, refreshes
<1>10. writes \in BOOLEAN /\ refreshes \in BOOLEAN
  BY DEF writes, refreshes
<1>11. /\ query' = r
       /\ r.fetch.at = "asked" => missed' = {} /\ overtaken' = {}
       /\ r.fetch.at # "asked" => missed' = missed /\ overtaken \subseteq overtaken'
       /\ r.fetch.at = "read" /\ refreshes => parts \subseteq r.fetch.got \cup overtaken'
       /\ r.fetch.at # "asked" /\ writes /\ ~r.stale =>
            {Base} \cup Handled(inbox) \subseteq r.data \cup overtaken'
  BY <1>1, <1>10, AccountIs
<1>12. CacheTyped'
  BY <1>1, <1>6, <1>11 DEF CacheTyped, Refreshed, RequestStages
<1>13. ToldIsTrue'
  <2>1. r.fetch.got \subseteq Server
    BY <1>6, FetchKinds DEF ToldIsTrue, Refreshed
  <2>2. \A d \in Changes : at'[d] \in {"answered", "done"} => d \in told'
    BY <1>1 DEF ToldIsTrue, CacheTyped
  <2>3. \A d \in Shown : at'[d] = "committed" => at[d] = "committed"
    BY <1>1 DEF CacheTyped, Shown
  <2> QED
    BY <1>1, <1>2, <1>3, <1>11, <2>1, <2>2, <2>3 DEF ToldIsTrue
<1>14. HandledIsCovered'
  <2>1. Snaps' = Snaps
    BY <1>1 DEF Snaps, Underway, Ended, CacheTyped
  <2>2. Noticed' = Noticed
    BY <1>1, <1>2 DEF Noticed
  <2>3. /\ Acknowledged' \subseteq Acknowledged \cup parts
        /\ does \cap AnswerFields = {} => Acknowledged' \subseteq Acknowledged
    <3>1. ASSUME NEW d \in Acknowledged', d # Base, d # c PROVE d \in Acknowledged
      BY <1>1, <1>2, <3>1 DEF Acknowledged, CacheTyped, Shown
    <3>2. c \in Acknowledged' => c \in parts /\ does \cap AnswerFields # {}
      BY <1>1, <1>2, ChangesAssumption DEF Acknowledged, CacheTyped, parts, does
    <3>3. Base \in Acknowledged
      BY DEF Acknowledged
    <3> QED
      BY <3>1, <3>2, <3>3
  <2>4. /\ Noticed \subseteq Handled(inbox)
        /\ Acknowledged' \subseteq {Base} \cup Handled(inbox) \cup parts
    <3>1. Acknowledged \subseteq {Base} \cup Handled(inbox)
      BY DEF Acknowledged, Handled
    <3> QED
      BY <2>3, <3>1 DEF Noticed, Handled
  <2>5. Covered(query, Noticed, Acknowledged, missed, overtaken, Snaps)
    BY DEF HandledIsCovered
  <2>6. r.fetch.at = "read" =>
          /\ Acknowledged' \subseteq Acknowledged \cup r.fetch.got \cup overtaken'
          /\ Noticed \subseteq Noticed \cup r.fetch.got \cup missed' \cup overtaken'
          /\ missed \subseteq missed'
    <3> SUFFICES ASSUME r.fetch.at = "read"
                 PROVE  /\ Acknowledged' \subseteq Acknowledged \cup r.fetch.got \cup overtaken'
                        /\ missed \subseteq missed'
      OBVIOUS
    <3>1. CASE refreshes
      BY <1>11, <2>3, <3>1
    <3>2. CASE does \cap AnswerFields = {}
      BY <1>11, <2>3, <3>2
    <3>3. CASE "tombstones" \in does /\ ~refreshes
      <4>1. r.fetch = NoFetch
        BY <3>3, CancelDoes, SetDataDoes DEF OnSuccess, If, refreshes, r
      <4> QED
        BY <4>1, FetchKinds
    <3> QED
      BY <1>8, <3>1, <3>2, <3>3
  <2>7. r.fetch = NoFetch /\ r.stale /\ r.active => r.error \/ Snaps # {}
    BY <1>6, <2>5, FetchKinds DEF Refreshed, Covered
  <2>8. r.fetch = NoFetch /\ ~r.stale /\ ~r.error /\ r.data # {} /\ Snaps = {} =>
          \/ /\ Acknowledged' \subseteq r.data \cup overtaken'
             /\ Noticed \subseteq r.data \cup missed' \cup overtaken'
          \/ /\ query.fetch = NoFetch /\ query.data = r.data /\ ~query.stale /\ ~query.error
             /\ Snaps = {} /\ Acknowledged' \subseteq Acknowledged
             /\ Noticed \subseteq Noticed \cup missed' /\ missed \subseteq missed'
    <3> SUFFICES ASSUME r.fetch = NoFetch, ~r.stale, ~r.error, r.data # {}, Snaps = {}
                 PROVE  \/ /\ Acknowledged' \subseteq r.data \cup overtaken'
                           /\ Noticed \subseteq r.data \cup missed' \cup overtaken'
                        \/ /\ query.fetch = NoFetch /\ query.data = r.data
                           /\ ~query.stale /\ ~query.error
                           /\ Snaps = {} /\ Acknowledged' \subseteq Acknowledged
                           /\ missed \subseteq missed'
      OBVIOUS
    <3>1. r.fetch.at = "idle"
      BY FetchKinds
    <3>2. CASE writes
      <4>1. parts \subseteq r.data
        BY <1>7, <1>8, <3>2 DEF writes
      <4> QED
        BY <1>11, <2>4, <3>1, <3>2, <4>1
    <3>3. CASE ~writes
      <4>1. does \cap AnswerFields = {} /\ r = query
        BY <1>6, <1>8, <3>3 DEF Refreshed, writes
      <4> QED
        BY <1>11, <2>3, <3>1, <4>1
    <3> QED
      BY <3>2, <3>3
  <2>9. r \in Queries /\ r.fetch \in {query.fetch, Asked, NoFetch}
    BY <1>6 DEF Refreshed
  <2>10. Covered(r, Noticed, Acknowledged', missed', overtaken', Snaps)
    BY <1>11, <2>5, <2>6, <2>7, <2>8, <2>9, CoversAgain
  <2> QED
    BY <1>11, <2>1, <2>2, <2>10 DEF HandledIsCovered
<1> QED
  BY <1>12, <1>13, <1>14 DEF CacheInv

\* A request fails: its snapshot is restored, and its query refreshed.
LEMMA FailsPreserves ==
  ASSUME CacheInv, NEW c \in Changes, Fails(c)
  PROVE  CacheInv'
<1> DEFINE restores == "snapshots" \in change[c].panel
           r == IF restores /\ snapshot[c] # {} THEN SetData(query, snapshot[c]) ELSE query
<1> USE StagesKnown DEF CacheInv
<1>1. /\ change[c].mine
      /\ \/ at[c] = "sent" /\ at' = [at EXCEPT ![c] = "refused"]
         \/ at[c] = "committed" /\ at' = [at EXCEPT ![c] = "lost"]
      /\ Account(r, FALSE, restores, {}, inbox, missed)
      /\ UNCHANGED <<change, inScope, told, reply, snapshot, socket, room, asked, inbox>>
  BY DEF Fails, Goes, setup, connection
<1>2. restores \in BOOLEAN /\ (~restores => r = query)
  OBVIOUS
<1>3. r \in Queries /\ r.fetch = query.fetch
  BY SetDataDoes
<1>4. restores => c \in Snaps'
  BY <1>1 DEF Snaps, Underway, Ended, CacheTyped
<1> HIDE DEF restores, r
<1>5. /\ query' = r
      /\ r.fetch.at = "asked" => missed' = {} /\ overtaken' = {}
      /\ r.fetch.at # "asked" => missed' = missed /\ overtaken \subseteq overtaken'
  BY <1>1, <1>2, AccountIs
<1>6. Committed' = Committed /\ Shown' = Shown
  BY <1>1 DEF CacheTyped, Committed, Shown
<1>7. Server' = Server
  BY <1>6 DEF Server
<1>8. CacheTyped'
  BY <1>1, <1>3, <1>5 DEF CacheTyped, RequestStages
<1>9. ToldIsTrue'
  <2>1. \A d \in Changes : at'[d] \in {"answered", "done"} => at[d] = at'[d]
    BY <1>1 DEF CacheTyped
  <2>2. \A d \in Shown : at'[d] = "committed" => at[d] = "committed"
    BY <1>1 DEF CacheTyped, Shown
  <2> QED
    BY <1>1, <1>3, <1>5, <1>6, <1>7, <2>1, <2>2 DEF ToldIsTrue
<1>10. HandledIsCovered'
  <2>1. Noticed' = Noticed
    BY <1>1, <1>6 DEF Noticed
  <2>2. Acknowledged' = Acknowledged
    BY <1>1, <1>6 DEF Acknowledged, CacheTyped, Shown
  <2>3. Snaps \subseteq Snaps'
    BY <1>1 DEF Snaps, Underway, Ended, CacheTyped
  <2>4. Covered(query, Noticed, Acknowledged, missed, overtaken, Snaps)
    BY DEF HandledIsCovered
  <2>5. Covered(r, Noticed, Acknowledged, missed', overtaken', Snaps')
    <3>1. CASE restores
      BY <1>3, <1>4, <1>5, <2>4, <3>1 DEF Covered
    <3>2. CASE ~restores
      BY <1>2, <1>5, <2>3, <2>4, <3>2 DEF Covered
    <3> QED
      BY <3>1, <3>2
  <2> QED
    BY <1>5, <2>1, <2>2, <2>5 DEF HandledIsCovered
<1> QED
  BY <1>8, <1>9, <1>10 DEF CacheInv

\* onSettled: the request is no longer bound to refresh the query.
LEMMA SettleRequestPreserves ==
  ASSUME CacheInv, NEW c \in Changes, SettleRequest(c)
  PROVE  CacheInv'
<1> DEFINE parts == {c} \cap Shown
           fields(conflict) == {"settles"} \cup (IF at[c] = "answered" THEN {"follows"} ELSE {})
                                 \cup (IF conflict THEN {"conflicts"} ELSE {})
           next(stage) == CASE stage = "answered" -> "done" [] stage = "refused" -> "failed"
                            [] OTHER -> "unknown"
<1> USE StagesKnown DEF CacheInv
<1>1. /\ change[c].mine /\ at[c] \in Ended
      /\ \E conflict \in {at[c] = "refused", FALSE} :
           LET does == change[c].panel \cap fields(conflict) # {}
           IN /\ at' = [at EXCEPT ![c] = next(at[c])]
              /\ Account(IF does THEN Invalidate(query) ELSE query, does, FALSE, parts, inbox, missed)
              /\ UNCHANGED <<setup, told, reply, snapshot, connection, faults>>
  BY Zenon DEF SettleRequest
<1>2. PICK conflict \in {at[c] = "refused", FALSE} :
        LET does == change[c].panel \cap fields(conflict) # {}
        IN /\ at' = [at EXCEPT ![c] = next(at[c])]
           /\ Account(IF does THEN Invalidate(query) ELSE query, does, FALSE, parts, inbox, missed)
           /\ UNCHANGED <<setup, told, reply, snapshot, connection, faults>>
  BY <1>1, Zenon
<1> DEFINE does == change[c].panel \cap fields(conflict) # {}
           r == IF does THEN Invalidate(query) ELSE query
<1>3. /\ Account(r, does, FALSE, parts, inbox, missed)
      /\ UNCHANGED <<change, inScope, told, reply, snapshot, socket, room, asked, inbox>>
  BY <1>2 DEF setup, connection
<1>4. /\ at[c] = "answered" => at' = [at EXCEPT ![c] = "done"]
      /\ at[c] = "refused" => at' = [at EXCEPT ![c] = "failed"]
      /\ at[c] = "lost" => at' = [at EXCEPT ![c] = "unknown"]
  <2>1. at' = [at EXCEPT ![c] = next(at[c])]
    BY <1>2
  <2>2. /\ next("answered") = "done" /\ next("refused") = "failed" /\ next("lost") = "unknown"
    OBVIOUS
  <2> HIDE DEF next
  <2> QED
    BY <2>1, <2>2
<1>5. /\ "settles" \in change[c].panel => does
      /\ at[c] = "answered" /\ "follows" \in change[c].panel => does
  OBVIOUS
<1>6. does \in BOOLEAN /\ (~does => r = query) /\ (does => r = Invalidate(query))
  OBVIOUS
<1> HIDE DEF does, r, fields, next, parts
<1>7. /\ r \in Queries /\ r.fetch \in {query.fetch, Asked}
      /\ r.active = query.active
      /\ does => r.stale /\ (r.active => r.fetch # NoFetch)
  BY <1>6, InvalidateDoes
<1>8. /\ query' = r
      /\ r.fetch.at = "asked" => missed' = {} /\ overtaken' = {}
      /\ r.fetch.at # "asked" => missed' = missed /\ overtaken \subseteq overtaken'
      /\ r.fetch.at = "read" /\ does => parts \subseteq r.fetch.got \cup overtaken'
  BY <1>3, <1>6, AccountIs
<1>9. Committed' = Committed /\ Shown' = Shown
  BY <1>1, <1>3, <1>4 DEF CacheTyped, Committed, Shown, Ended
<1>10. Server' = Server
  BY <1>9 DEF Server
<1>11. CacheTyped'
  BY <1>1, <1>3, <1>4, <1>7, <1>8 DEF CacheTyped, RequestStages, Ended
<1>12. ToldIsTrue'
  <2>1. \A d \in Changes : at'[d] \in {"answered", "done"} => at[d] \in {"answered", "done"}
    BY <1>1, <1>4 DEF CacheTyped, Ended
  <2>2. \A d \in Shown : at'[d] = "committed" => at[d] = "committed"
    BY <1>1, <1>4 DEF CacheTyped, Shown, Ended
  <2>3. r.fetch.got \subseteq Server
    BY <1>7, FetchKinds DEF ToldIsTrue
  <2> QED
    BY <1>3, <1>8, <1>9, <1>10, <2>1, <2>2, <2>3 DEF ToldIsTrue
<1>13. HandledIsCovered'
  <2>1. Noticed' = Noticed
    BY <1>3, <1>9 DEF Noticed
  <2>2. Snaps \ {c} \subseteq Snaps'
    BY <1>1, <1>3, <1>4 DEF Snaps, Underway, Ended, CacheTyped
  <2>3. c \in Snaps => does
    BY <1>5 DEF Snaps, CacheTyped, Fits
  <2>4. ~does => Snaps \subseteq Snaps'
    BY <2>2, <2>3
  <2>5. Acknowledged' \subseteq Acknowledged \cup parts
    <3>1. ASSUME NEW d \in Acknowledged', d # Base, d # c PROVE d \in Acknowledged
      BY <1>1, <1>3, <1>4, <1>9, <3>1 DEF Acknowledged, CacheTyped, Shown, Ended
    <3>2. c \in Acknowledged' => c \in parts
      BY <1>9, ChangesAssumption DEF Acknowledged, parts
    <3> QED
      BY <3>1, <3>2 DEF Acknowledged
  <2>6. ~does => Acknowledged' \subseteq Acknowledged
    <3> SUFFICES ASSUME ~does, c \in Acknowledged' PROVE c \in Acknowledged
      BY <2>5 DEF parts
    <3>1. /\ c \in told \cap Shown /\ change[c].mine /\ ~change[c].panelGap
          /\ at'[c] \in {"answered", "done"}
      BY <1>3, <1>9, ChangesAssumption DEF Acknowledged
    <3>2. at[c] = "answered"
      BY <1>1, <1>4, <3>1 DEF CacheTyped, Ended
    <3>3. Fits(change[c])
      BY DEF CacheTyped
    <3>4. change[c].panel \cap AnswerFields # {}
      BY <1>5, <3>1, <3>2, <3>3 DEF Fits, Shown
    <3> QED
      BY <3>1, <3>2, <3>4 DEF Acknowledged
  <2>7. Covered(query, Noticed, Acknowledged, missed, overtaken, Snaps)
    BY DEF HandledIsCovered
  <2>8. CASE does
    <3>1. r.fetch.at = "read" =>
            /\ Acknowledged' \subseteq Acknowledged \cup r.fetch.got \cup overtaken'
            /\ Noticed \subseteq Noticed \cup r.fetch.got \cup missed' \cup overtaken'
            /\ missed \subseteq missed'
      BY <1>8, <2>5, <2>8
    <3>2. r.stale /\ (r.active => r.fetch # NoFetch)
      BY <1>7, <2>8
    <3>3. Covered(r, Noticed, Acknowledged', missed', overtaken', Snaps')
      BY <1>7, <1>8, <2>7, <3>1, <3>2, CoversAgain
    <3> QED
      BY <1>8, <2>1, <3>3 DEF HandledIsCovered
  <2>9. CASE ~does
    <3>1. Covered(query, Noticed, Acknowledged', missed', overtaken', Snaps')
      BY <1>6, <1>8, <2>4, <2>6, <2>7, <2>9, FetchKinds DEF Covered
    <3> QED
      BY <1>6, <1>8, <2>1, <2>9, <3>1 DEF HandledIsCovered
  <2> QED
    BY <1>6, <2>8, <2>9
<1> QED
  BY <1>11, <1>12, <1>13 DEF CacheInv

\* What the query alone does leaves the requests and the events as they are.
LEMMA QueryStep ==
  ASSUME CacheInv, NEW q \in Queries, UNCHANGED Browser,
         Account(q, FALSE, FALSE, {}, inbox, missed),
         q.fetch.got \subseteq Server,
         \/ /\ q.fetch \in {query.fetch, Asked, NoFetch}
            /\ q.fetch = NoFetch => \/ q.error
                                    \/ /\ q.data = query.data /\ q.stale = query.stale
                                       /\ q.error = query.error /\ query.fetch = NoFetch
                                       /\ q.active /\ ~query.active =>
                                            ~query.stale
            /\ q.fetch.at = "read" => q.fetch = query.fetch
         \/ query.fetch = Asked /\ q.fetch = Running("read", Server)
         \/ /\ query.fetch.at = "read" /\ q.fetch = NoFetch /\ ~q.stale
            /\ q.data = query.fetch.got
  PROVE  CacheInv'
<1> USE StagesKnown, FetchKinds DEF CacheInv
<1>1. /\ UNCHANGED <<change, inScope, at, told, reply, snapshot, socket, room, asked, inbox>>
      /\ query' = q
      /\ q.fetch.at = "asked" => missed' = {} /\ overtaken' = {}
      /\ q.fetch.at # "asked" => missed' = missed /\ overtaken \subseteq overtaken'
  BY AccountIs DEF Browser, setup, connection
<1>2. CacheTyped'
  BY <1>1 DEF CacheTyped
<1>3. Committed' = Committed /\ Shown' = Shown /\ Server' = Server
  BY <1>1 DEF Committed, Shown, Server
<1>4. ToldIsTrue'
  BY <1>1, <1>3 DEF ToldIsTrue
<1>5. Noticed' = Noticed /\ Acknowledged' = Acknowledged /\ Snaps' = Snaps
  BY <1>1, <1>3 DEF Noticed, Acknowledged, Snaps, Underway
<1>6. Noticed \subseteq Server /\ Acknowledged \subseteq Server
  BY DEF Noticed, Acknowledged, Server, ToldIsTrue
<1>7. Covered(query, Noticed, Acknowledged, missed, overtaken, Snaps)
  BY DEF HandledIsCovered
<1>8. Covered(q, Noticed, Acknowledged, missed', overtaken', Snaps)
  <2>1. CASE q.fetch = Asked
    BY <1>1, <2>1 DEF Covered
  <2>2. CASE q.fetch = query.fetch /\ q.fetch.at = "read"
    BY <1>1, <1>7, <2>2 DEF Covered
  <2>3. CASE q.fetch = NoFetch /\ q.error
    BY <2>3 DEF Covered
  <2>4. CASE /\ q.fetch = NoFetch /\ q.data = query.data /\ q.stale = query.stale
             /\ q.error = query.error /\ query.fetch = NoFetch
             /\ q.active /\ ~query.active => ~query.stale
    BY <1>1, <1>7, <2>4 DEF Covered, Queries
  <2>5. CASE query.fetch = Asked /\ q.fetch = Running("read", Server)
    <3>1. q.fetch.at = "read" /\ q.fetch.got = Server
      BY <2>5
    <3> QED
      BY <1>6, <3>1 DEF Covered
  <2>6. CASE /\ query.fetch.at = "read" /\ q.fetch = NoFetch /\ ~q.stale
             /\ q.data = query.fetch.got
    BY <1>1, <1>7, <2>6 DEF Covered
  <2>7. q.fetch \in Fetches
    BY DEF Queries
  <2> QED
    BY <2>1, <2>2, <2>3, <2>4, <2>5, <2>6, <2>7
<1>9. HandledIsCovered'
  BY <1>1, <1>5, <1>8 DEF HandledIsCovered
<1> QED
  BY <1>2, <1>4, <1>9 DEF CacheInv

\* A fetch is read, answered or fails; the panel is left and returned to.
LEMMA FetchPreserves ==
  ASSUME CacheInv, FetchRead \/ FetchAnswer \/ FetchFail \/ LeavePanel \/ ReturnToPanel
  PROVE  CacheInv'
<1> USE StagesKnown, FetchKinds DEF CacheInv
<1>0. query.fetch.got \subseteq Server
  BY DEF ToldIsTrue
<1>1. CASE FetchRead
  <2> DEFINE q == [query EXCEPT !.fetch = Running("read", Server)]
  <2>1. /\ q \in Queries /\ q.fetch = Running("read", Server) /\ query.fetch = Asked
    BY <1>1 DEF FetchRead, Queries
  <2>2. Account(q, FALSE, FALSE, {}, inbox, missed) /\ UNCHANGED Browser
    BY <1>1 DEF FetchRead
  <2> HIDE DEF q
  <2>3. q.fetch.got \subseteq Server
    BY <2>1
  <2> QED
    BY <2>1, <2>2, <2>3, QueryStep
<1>2. CASE FetchAnswer
  <2> DEFINE q == Cancel(SetData(query, query.fetch.got))
  <2>1. /\ query.fetch.at = "read" /\ Account(q, FALSE, FALSE, {}, inbox, missed)
        /\ UNCHANGED Browser
    BY <1>2 DEF FetchAnswer
  <2>2. /\ q \in Queries /\ q.fetch = NoFetch /\ ~q.stale /\ q.data = query.fetch.got
    BY SetDataDoes, CancelDoes
  <2> HIDE DEF q
  <2>3. q.fetch.got \subseteq Server
    BY <2>2
  <2> QED
    BY <2>1, <2>2, <2>3, QueryStep
<1>3. CASE FetchFail
  <2> DEFINE q == [Cancel(query) EXCEPT !.error = TRUE]
  <2>1. /\ Account(q, FALSE, FALSE, {}, inbox, missed)
        /\ UNCHANGED Browser
    BY <1>3 DEF FetchFail
  <2>2. Cancel(query) \in Queries /\ Cancel(query).fetch = NoFetch
    BY CancelDoes
  <2>3. q \in Queries /\ q.fetch = NoFetch /\ q.error
    BY <2>2 DEF Queries
  <2> HIDE DEF q
  <2>4. q.fetch.got \subseteq Server
    BY <2>3
  <2> QED
    BY <2>1, <2>3, <2>4, QueryStep
<1>4. CASE LeavePanel
  <2> DEFINE q == [query EXCEPT !.active = FALSE]
  <2>1. /\ Account(q, FALSE, FALSE, {}, inbox, missed)
        /\ UNCHANGED Browser
    BY <1>4 DEF LeavePanel
  <2>2. /\ q \in Queries /\ q.fetch = query.fetch /\ ~q.active /\ q.data = query.data
        /\ q.stale = query.stale /\ q.error = query.error
    BY DEF Queries
  <2> HIDE DEF q
  <2> QED
    BY <1>0, <2>1, <2>2, QueryStep
<1>5. CASE ReturnToPanel
  <2> DEFINE q == [query EXCEPT !.active = TRUE]
             r(old) == IF q.fetch = NoFetch /\ (old \/ q.stale \/ q.data = {}) THEN StartFetch(q) ELSE q
  <2>1. /\ ~query.active /\ UNCHANGED Browser
        /\ \E old \in BOOLEAN : Account(r(old), FALSE, FALSE, {}, inbox, missed)
    BY <1>5, Zenon DEF ReturnToPanel
  <2>2. PICK old \in BOOLEAN : Account(r(old), FALSE, FALSE, {}, inbox, missed)
    BY <2>1, Zenon
  <2>3. /\ q \in Queries /\ q.fetch = query.fetch /\ q.active /\ q.data = query.data
        /\ q.stale = query.stale /\ q.error = query.error
    BY DEF Queries
  <2> HIDE DEF q
  <2>4. /\ r(old) \in Queries /\ r(old).data = query.data /\ r(old).stale = query.stale
        /\ r(old).error = query.error /\ r(old).fetch \in {query.fetch, Asked}
        /\ r(old).fetch = NoFetch => ~query.stale
    BY <2>3, StartFetchDoes
  <2> DEFINE s == r(old)
  <2>5. Account(s, FALSE, FALSE, {}, inbox, missed)
    BY <2>2
  <2>6. /\ s \in Queries /\ s.data = query.data /\ s.stale = query.stale
        /\ s.error = query.error /\ s.fetch \in {query.fetch, Asked}
        /\ s.fetch = NoFetch => ~query.stale
    BY <2>4
  <2> HIDE DEF s
  <2>7. s.fetch.got \subseteq Server
    BY <1>0, <2>6
  <2> QED
    BY <2>1, <2>5, <2>6, <2>7, QueryStep
<1> QED
  BY <1>1, <1>2, <1>3, <1>4, <1>5

\* The socket is lost, reconnects and is subscribed again: what was missed
\* meanwhile is refetched.
LEMMA ConnectionPreserves ==
  ASSUME CacheInv, LoseSocket \/ Reconnect \/ EnterRoom \/ UNCHANGED cacheVars
  PROVE  CacheInv'
<1> USE StagesKnown, FetchKinds DEF CacheInv
<1>1. CASE LoseSocket
  <2>1. /\ inbox' = <<>>
        /\ Account(query, FALSE, FALSE, {}, <<>>, missed \cup Messages)
        /\ UNCHANGED <<change, inScope, at, told, reply, snapshot>>
    BY <1>1 DEF LoseSocket, setup
  <2>2. /\ query' = query
        /\ query.fetch.at = "asked" => missed' = {} /\ overtaken' = {}
        /\ query.fetch.at # "asked" => missed' = missed \cup Messages /\ overtaken \subseteq overtaken'
    BY <2>1, AccountIs
  <2>3. ToSet(inbox') = {} /\ inbox' \in Seq(Changes \cup {Ack})
    BY <2>1 DEF ToSet
  <2>4. Committed' = Committed /\ Shown' = Shown /\ Server' = Server
    BY <2>1 DEF Committed, Shown, Server
  <2>5. CacheTyped' /\ ToldIsTrue'
    BY <2>1, <2>2, <2>3, <2>4 DEF CacheTyped, ToldIsTrue
  <2>6. Acknowledged' = Acknowledged /\ Snaps' = Snaps
    BY <2>1, <2>4 DEF Acknowledged, Snaps, Underway
  <2>7. Noticed' \subseteq Noticed \cup Messages
    BY <2>1, <2>3, <2>4, ChangesAssumption DEF Noticed, Messages, Shown
  <2>8. Covered(query, Noticed, Acknowledged, missed, overtaken, Snaps)
    BY DEF HandledIsCovered
  <2>9. Covered(query, Noticed', Acknowledged, missed', overtaken', Snaps)
    <3>1. query.fetch.at = "asked" => Covered(query, Noticed', Acknowledged, missed', overtaken', Snaps)
      BY <2>2 DEF Covered
    <3>2. query.fetch.at # "asked" => Covered(query, Noticed', Acknowledged, missed', overtaken', Snaps)
      BY <2>2, <2>7, <2>8 DEF Covered
    <3> QED
      BY <3>1, <3>2
  <2> QED
    BY <2>2, <2>5, <2>6, <2>9 DEF HandledIsCovered
<1>2. CASE Reconnect \/ EnterRoom \/ UNCHANGED cacheVars
  <2>1. /\ UNCHANGED <<change, inScope, at, told, reply, snapshot, query, missed, overtaken>>
        /\ inbox' = inbox \/ inbox' = Append(inbox, Ack)
    BY <1>2 DEF Reconnect, EnterRoom, cacheVars, setup
  <2>2. /\ inbox' \in Seq(Changes \cup {Ack})
        /\ ToSet(inbox') = ToSet(inbox) \/ ToSet(inbox') = ToSet(inbox) \cup {Ack}
    <3>1. inbox \in Seq(Changes \cup {Ack}) /\ Ack \in Changes \cup {Ack}
      BY DEF CacheTyped
    <3>2. /\ Append(inbox, Ack) \in Seq(Changes \cup {Ack})
          /\ ToSet(Append(inbox, Ack)) = ToSet(inbox) \cup {Ack}
      BY <3>1, Boxes
    <3> QED
      BY <2>1, <3>1, <3>2
  <2>3. Committed' = Committed /\ Shown' = Shown /\ Server' = Server
    BY <2>1 DEF Committed, Shown, Server
  <2>4. CacheTyped' /\ ToldIsTrue'
    BY <2>1, <2>2, <2>3 DEF CacheTyped, ToldIsTrue
  <2>5. Acknowledged' = Acknowledged /\ Snaps' = Snaps
    BY <2>1, <2>3 DEF Acknowledged, Snaps, Underway
  <2>6. Noticed' = Noticed
    BY <2>1, <2>2, <2>3, ChangesAssumption DEF Noticed, Shown
  <2> QED
    BY <2>1, <2>4, <2>5, <2>6 DEF HandledIsCovered
<1> QED
  BY <1>1, <1>2

\* The invariant is kept by every step.
LEMMA CacheInvStep == CacheInv /\ [CacheNext]_cacheVars => CacheInv'
<1> SUFFICES ASSUME CacheInv, [CacheNext]_cacheVars PROVE CacheInv'
  OBVIOUS
<1>1. ASSUME NEW c \in Changes,
             \/ Mutate(c) \/ Commit(c) \/ PublishChange(c)
             \/ Answer(c) \/ Fails(c) \/ SettleRequest(c)
      PROVE  CacheInv'
  BY <1>1, MutatePreserves, CommitPreserves, PublishChangePreserves, AnswerPreserves,
     FailsPreserves, SettleRequestPreserves
<1>2. CASE Receive
  BY <1>2, EventPreserves, AckPreserves
<1>3. CASE FetchRead \/ FetchAnswer \/ FetchFail \/ LeavePanel \/ ReturnToPanel
  BY <1>3, FetchPreserves
<1>4. CASE LoseSocket \/ Reconnect \/ EnterRoom \/ UNCHANGED cacheVars
  BY <1>4, ConnectionPreserves
<1> QED
  BY <1>1, <1>2, <1>3, <1>4 DEF CacheNext

\* The inductive invariant of ClientCache holds always: what this browser has
\* handled is in its data, bound to be fetched or known to be overtaken, whatever
\* the order of answers, events, fetches and reconnections.
THEOREM CacheInvariance == CacheSpec => []CacheInv
BY InitOfCache, CacheInvStep, PTL DEF CacheSpec

\* Whoever is told that a request succeeded sees its effect, whatever the
\* realtime connection does: OwnChangesShow, with no assumption on it.
THEOREM OwnChangesAlwaysShow == CacheSpec => []OwnChangesShow
<1>1. CacheInv => OwnChangesShow
  <2> SUFFICES ASSUME CacheInv, NEW c \in Shown,
                      change[c].mine, at[c] = "done", ~change[c].panelGap,
                      \A d \in Changes : change[d].mine => ~Underway(d),
                      Visible, query.fetch = NoFetch
               PROVE  c \in query.data \cup overtaken
    BY DEF OwnChangesShow
  <2> USE FetchKinds DEF CacheInv
  <2>1. c \in Acknowledged
    BY DEF Acknowledged, ToldIsTrue, Shown
  <2>2. Snaps = {}
    BY DEF Snaps, CacheTyped, Fits
  <2> QED
    BY <2>1, <2>2 DEF HandledIsCovered, Covered, Visible
<1> QED
  BY CacheInvariance, <1>1, PTL

\* Nothing that its event or its panel is bound to refresh is missing from what
\* is shown, once everything sent has been handled.
NothingIsMissing ==
  Quiescent /\ Visible =>
    {Base} \cup {c \in Committed \cap Shown : Due(c)} \subseteq query.data \cup missed \cup overtaken

\* A connected browser that has handled everything shows every change that is
\* committed and that an event or its own panel refreshes: no interleaving of a
\* fetch, an event, an answer and a rollback loses one.
THEOREM ConnectedCacheMissesNothing == CacheSpec => []NothingIsMissing
<1>1. CacheInv => NothingIsMissing
  <2> SUFFICES ASSUME CacheInv, Quiescent, Visible
               PROVE  {Base} \cup {c \in Committed \cap Shown : Due(c)}
                        \subseteq query.data \cup missed \cup overtaken
    BY DEF NothingIsMissing
  <2> USE FetchKinds DEF CacheInv, Quiescent
  <2>1. Snaps = {}
    BY DEF Snaps, CacheTyped, Fits
  <2>2. Noticed \subseteq query.data \cup missed \cup overtaken
        /\ Acknowledged \subseteq query.data \cup overtaken
    BY <2>1 DEF HandledIsCovered, Covered, Visible
  <2>3. ToSet(inbox) = {}
    BY DEF ToSet
  <2>4. ASSUME NEW c \in Committed \cap Shown, Due(c) PROVE c \in Noticed \cup Acknowledged
    BY <2>3, <2>4 DEF Due, Noticed, Acknowledged, Committed, Shown
  <2>5. Base \in Acknowledged
    BY DEF Acknowledged
  <2> QED
    BY <2>2, <2>4, <2>5
<1> QED
  BY CacheInvariance, <1>1, PTL

-----------------------------------------------------------------------------
(***************************************************************************)
(* What is shown is also true, if the requests of this browser that change *)
(* the query in advance do not overlap.  Otherwise the snapshot of one may *)
(* contain the other, which is refused.                                    *)
(***************************************************************************)
OneOptimistic == \A c, d \in Snaps : c = d

\* What is shown and not true is an edit in advance that is still to be decided,
\* and can be restored; what it is restored to is true.
EditsAreTentative ==
  /\ \A c \in Changes : snapshot[c] \subseteq Server
  /\ \A x \in query.data \ Server :
       /\ x \in Shown /\ at[x] = "sent" /\ "snapshots" \in change[x].panel
       /\ snapshot[x] # {}

\* A step that keeps the stages and adds nothing but the truth keeps that.
LEMMA TruthIsKept ==
  ASSUME CacheInv, EditsAreTentative, UNCHANGED <<change, at, snapshot>>,
         query'.data \subseteq query.data \cup Server
  PROVE  EditsAreTentative'
<1>1. Server' = Server /\ Shown' = Shown
  BY DEF Server, Committed, Shown
<1> QED
  BY <1>1 DEF EditsAreTentative

\* Nothing is edited at first.
LEMMA EditsInit == CacheInit => EditsAreTentative
BY DEF CacheInit, EditsAreTentative, Server

\* With one request at a time that edits in advance, a step leaves nothing
\* untrue behind.
LEMMA EditsStep ==
  CacheInv /\ EditsAreTentative /\ OneOptimistic /\ OneOptimistic' /\ [CacheNext]_cacheVars =>
    EditsAreTentative'
<1> SUFFICES ASSUME CacheInv, EditsAreTentative, OneOptimistic, OneOptimistic',
                    [CacheNext]_cacheVars
             PROVE  EditsAreTentative'
  OBVIOUS
<1> USE StagesKnown, FetchKinds DEF CacheInv
<1>1. ASSUME NEW c \in Changes, Mutate(c) PROVE EditsAreTentative'
  <2> DEFINE does == change[c].panel
             q == If(does, "snapshots", Cancel(query), query)
             parts == {c} \cap Shown
             r == If(does, "optimistic", Edit(q, parts), q)
  <2>1. /\ change[c].mine /\ at[c] = "new" /\ at' = [at EXCEPT ![c] = "sent"]
        /\ snapshot' = [snapshot EXCEPT ![c] = If(does, "snapshots", q.data, {})]
        /\ query' = r
        /\ UNCHANGED change
    BY <1>1 DEF Mutate, Goes, setup, Account
  <2>2. /\ "snapshots" \in does => q = Cancel(query)
        /\ "snapshots" \notin does => q = query
        /\ "optimistic" \in does => r = Edit(q, parts)
        /\ "optimistic" \notin does => r = q
    BY DEF If
  <2>3. If(does, "snapshots", q.data, {}) = IF "snapshots" \in does THEN q.data ELSE {}
    BY DEF If
  <2>4. "optimistic" \in does => "snapshots" \in does
    BY DEF CacheTyped, Fits
  <2>5. parts \subseteq {c} /\ parts \subseteq Shown /\ parts \in SUBSET Parts
    OBVIOUS
  <2> HIDE DEF q, r, parts
  <2>6. q \in Queries /\ q.data = query.data
    BY <2>2, CancelDoes
  <2>7. Server' = Server /\ Shown' = Shown
    BY <2>1 DEF Server, Committed, Shown, CacheTyped
  <2>8. CASE "snapshots" \in does
    <3>1. c \in Snaps'
      BY <2>1, <2>8 DEF Snaps, Underway, CacheTyped
    <3>2. query.data \subseteq Server
      <4> SUFFICES ASSUME NEW x \in query.data \ Server PROVE FALSE
        OBVIOUS
      <4>1. x \in Changes /\ at[x] = "sent" /\ "snapshots" \in change[x].panel
        BY DEF EditsAreTentative, Shown
      <4>2. x # c
        BY <2>1, <4>1
      <4>3. x \in Snaps'
        BY <2>1, <4>1, <4>2 DEF Snaps, Underway, CacheTyped
      <4> QED
        BY <3>1, <4>2, <4>3 DEF OneOptimistic
    <3>3. snapshot' = [snapshot EXCEPT ![c] = query.data]
      BY <2>1, <2>3, <2>6, <2>8
    <3>4. r.data = query.data \/ (query.data # {} /\ r.data = query.data \cup parts)
      <4>1. Edit(q, parts).data = IF q.data = {} THEN {} ELSE q.data \cup parts
        BY <2>5, <2>6, EditDoes
      <4> QED
        BY <2>2, <2>6, <4>1
    <3>5. \A x \in r.data \ Server : x = c /\ x \in Shown /\ query.data # {}
      BY <2>5, <3>2, <3>4
    <3> QED
      BY <2>1, <2>7, <2>8, <3>2, <3>3, <3>5 DEF EditsAreTentative, CacheTyped
  <2>9. CASE "snapshots" \notin does
    <3>1. snapshot' = [snapshot EXCEPT ![c] = {}]
      BY <2>1, <2>3, <2>9
    <3>2. r.data = query.data
      BY <2>2, <2>4, <2>9
    <3> QED
      BY <2>1, <2>7, <3>1, <3>2 DEF EditsAreTentative, CacheTyped
  <2> QED
    BY <2>8, <2>9
<1>2. ASSUME NEW c \in Changes, Commit(c) PROVE EditsAreTentative'
  <2>1. /\ at' = [at EXCEPT ![c] = "committed"]
        /\ UNCHANGED <<change, query, snapshot>>
    BY <1>2 DEF Commit, Goes, setup
  <2>2. Server' = Server \cup ({c} \cap Shown)
    BY <2>1 DEF Server, Committed, Shown, CacheTyped
  <2>3. Shown' = Shown
    BY <2>1 DEF Shown
  <2>4. ASSUME NEW x \in query.data \ Server' PROVE x \in query.data \ Server /\ x # c
    BY <2>2, <2>4 DEF EditsAreTentative
  <2> QED
    BY <2>1, <2>2, <2>3, <2>4 DEF EditsAreTentative, CacheTyped
<1>3. ASSUME NEW c \in Changes, PublishChange(c) PROVE EditsAreTentative'
  <2>1. UNCHANGED <<change, at, snapshot, query>>
    BY <1>3 DEF PublishChange, setup, Account
  <2> QED
    BY <2>1, TruthIsKept
<1>4. ASSUME NEW c \in Changes, Answer(c) PROVE EditsAreTentative'
  <2> DEFINE parts == {c} \cap Shown
             does == change[c].panel
             r == OnSuccess(query, does, reply[c], parts)
  <2>1. /\ c \in told /\ at[c] = "committed" /\ at' = [at EXCEPT ![c] = "answered"]
        /\ query' = r
        /\ UNCHANGED <<change, snapshot>>
    BY <1>4 DEF Answer, Goes, setup, Account
  <2>2. Server' = Server /\ Shown' = Shown /\ c \in Committed
    BY <2>1 DEF Server, Committed, Shown, CacheTyped
  <2>3. parts \in SUBSET Parts /\ parts \subseteq Server
    BY <2>2 DEF Server
  <2>4. reply[c] \in SUBSET Parts /\ reply[c] \subseteq Server
    BY DEF ToldIsTrue
  <2>5. Refreshed(query, r, does \cap AnswerFields, Server \cup reply[c] \cup parts)
    BY <2>3, <2>4, AnswerRefreshes
  <2>6. r.data \subseteq query.data \cup Server
    BY <2>3, <2>4, <2>5 DEF Refreshed
  <2> HIDE DEF r
  <2> QED
    BY <2>1, <2>2, <2>6 DEF EditsAreTentative, CacheTyped, Shown
<1>5. ASSUME NEW c \in Changes, Fails(c) PROVE EditsAreTentative'
  <2> DEFINE r == IF "snapshots" \in change[c].panel /\ snapshot[c] # {}
                  THEN SetData(query, snapshot[c]) ELSE query
  <2>1. /\ \/ at[c] = "sent" /\ at' = [at EXCEPT ![c] = "refused"]
           \/ at[c] = "committed" /\ at' = [at EXCEPT ![c] = "lost"]
        /\ query' = r
        /\ UNCHANGED <<change, snapshot>>
    BY <1>5 DEF Fails, Goes, setup, Account
  <2>2. Server' = Server /\ Shown' = Shown
    BY <2>1 DEF Server, Committed, Shown, CacheTyped
  <2>3. "snapshots" \in change[c].panel /\ snapshot[c] # {} => r.data = snapshot[c]
    BY SetDataDoes
  <2>4. ~("snapshots" \in change[c].panel /\ snapshot[c] # {}) => r = query
    OBVIOUS
  <2> HIDE DEF r
  <2>5. \A x \in r.data \ Server : x \in query.data /\ x # c
    <3>1. CASE "snapshots" \in change[c].panel /\ snapshot[c] # {}
      BY <2>3, <3>1 DEF EditsAreTentative
    <3>2. CASE ~("snapshots" \in change[c].panel /\ snapshot[c] # {})
      BY <2>4, <3>2 DEF EditsAreTentative
    <3> QED
      BY <3>1, <3>2
  <2> QED
    BY <2>1, <2>2, <2>5 DEF EditsAreTentative, CacheTyped, Shown
<1>6. ASSUME NEW c \in Changes, SettleRequest(c) PROVE EditsAreTentative'
  <2>1. /\ at[c] \in Ended
        /\ \E stage \in {"done", "failed", "unknown"} : at' = [at EXCEPT ![c] = stage]
        /\ at[c] = "refused" => at' = [at EXCEPT ![c] = "failed"]
        /\ at[c] # "refused" => at'[c] # "failed"
        /\ query' \in {query, Invalidate(query)}
        /\ UNCHANGED <<change, snapshot>>
    BY <1>6 DEF SettleRequest, Account, setup, CacheTyped, Ended
  <2>2. Server' = Server /\ Shown' = Shown
    BY <2>1 DEF Server, Committed, Shown, CacheTyped, Ended
  <2>3. query'.data = query.data
    BY <2>1, InvalidateDoes
  <2> QED
    BY <2>1, <2>2, <2>3 DEF EditsAreTentative, CacheTyped, Shown, Ended
<1>7. CASE Receive
  <2>1. UNCHANGED <<change, at, snapshot>> /\ inbox # <<>>
    BY <1>7 DEF Receive, setup
  <2>2. CASE Head(inbox) = Ack
    <3>1. query' \in {query, Invalidate(query)}
      BY <1>7, <2>2 DEF Receive, Account, OnAck
    <3>2. query'.data = query.data
      BY <3>1, InvalidateDoes
    <3> QED
      BY <2>1, <3>2, TruthIsKept
  <2>3. CASE Head(inbox) # Ack
    <3> DEFINE m == Head(inbox)
               parts == {m} \cap Shown
               does == change[m].event
               r == OnEvent(query, does, parts)
    <3>1. query' = r
      BY <1>7, <2>3 DEF Receive, Account
    <3>2. m \in ToSet(inbox)
      BY <2>1, Boxes DEF CacheTyped
    <3>3. m \in Committed /\ m \in Changes
      BY <2>3, <3>2 DEF ToldIsTrue, Committed
    <3>4. parts \in SUBSET Parts /\ parts \subseteq Server /\ does \in SUBSET EventFields
      BY <3>3 DEF Server, CacheTyped, Fits
    <3>5. Refreshed(query, r, does, Server \cup parts)
      BY <3>4, EventRefreshes
    <3>6. r.data \subseteq query.data \cup Server
      BY <3>4, <3>5 DEF Refreshed
    <3> QED
      BY <2>1, <3>1, <3>6, TruthIsKept
  <2> QED
    BY <2>2, <2>3
<1>8. CASE FetchRead \/ FetchAnswer \/ FetchFail \/ LeavePanel \/ ReturnToPanel
  <2>1. UNCHANGED <<change, at, snapshot>>
    BY <1>8 DEF FetchRead, FetchAnswer, FetchFail, LeavePanel, ReturnToPanel, Browser, setup
  <2>2. query.fetch.got \subseteq Server
    BY DEF ToldIsTrue
  <2>3. CASE FetchRead
    BY <2>1, <2>3, TruthIsKept DEF FetchRead, Account, Queries
  <2>4. CASE FetchAnswer
    <3>1. query' = Cancel(SetData(query, query.fetch.got))
      BY <2>4 DEF FetchAnswer, Account
    <3>2. query'.data = query.fetch.got
      BY <3>1, SetDataDoes, CancelDoes
    <3> QED
      BY <2>1, <2>2, <3>2, TruthIsKept
  <2>5. CASE FetchFail
    <3>1. query' = [Cancel(query) EXCEPT !.error = TRUE]
      BY <2>5 DEF FetchFail, Account
    <3>2. Cancel(query) \in Queries /\ Cancel(query).data = query.data
      BY CancelDoes
    <3>3. query'.data = query.data
      BY <3>1, <3>2 DEF Queries
    <3> QED
      BY <2>1, <3>3, TruthIsKept
  <2>6. CASE LeavePanel
    BY <2>1, <2>6, TruthIsKept DEF LeavePanel, Account, Queries
  <2>7. CASE ReturnToPanel
    <3> DEFINE q == [query EXCEPT !.active = TRUE]
    <3>1. query' \in {q, StartFetch(q)}
      BY <2>7 DEF ReturnToPanel, Account
    <3>2. q \in Queries /\ q.data = query.data
      BY DEF Queries
    <3> HIDE DEF q
    <3>3. query'.data = query.data
      BY <3>1, <3>2, StartFetchDoes
    <3> QED
      BY <2>1, <3>3, TruthIsKept
  <2> QED
    BY <1>8, <2>3, <2>4, <2>5, <2>6, <2>7
<1>9. CASE LoseSocket \/ Reconnect \/ EnterRoom \/ UNCHANGED cacheVars
  <2>1. UNCHANGED <<change, at, snapshot, query>>
    BY <1>9 DEF LoseSocket, Reconnect, EnterRoom, Account, setup, cacheVars
  <2> QED
    BY <2>1, TruthIsKept
<1> QED
  BY <1>1, <1>2, <1>3, <1>4, <1>5, <1>6, <1>7, <1>8, <1>9 DEF CacheNext

\* The query converges whatever is lost, reordered or refused, if the requests
\* of this browser that edit it in advance do not overlap.
THEOREM CacheConverges == CacheSpec /\ []OneOptimistic => []ConnectedCacheConverges
<1>1. CacheSpec /\ []OneOptimistic => []EditsAreTentative
  BY CacheInvariance, EditsInit, EditsStep, PTL DEF CacheSpec
<1>2. EditsAreTentative /\ CacheInv /\ NothingIsMissing => ConnectedCacheConverges
  <2> SUFFICES ASSUME EditsAreTentative, CacheInv, NothingIsMissing, Quiescent, Visible
               PROVE  query.data \subseteq Server
    BY DEF ConnectedCacheConverges, NothingIsMissing
  <2> QED
    BY DEF EditsAreTentative, CacheInv, CacheTyped, Fits, Quiescent, Underway, Shown
<1> QED
  BY <1>1, <1>2, CacheInvariance, ConnectedCacheMissesNothing, PTL

\* What RemoveAt leaves at each index.
LEMMA RemoveAtProperties ==
  ASSUME NEW S, NEW s \in Seq(S), NEW k \in 1 .. Len(s)
  PROVE  /\ RemoveAt(s, k) \in Seq(S)
         /\ Len(RemoveAt(s, k)) = Len(s) - 1
         /\ \A i \in 1 .. Len(s) - 1 : RemoveAt(s, k)[i] = IF i < k THEN s[i] ELSE s[i + 1]
<1> DEFINE a == SubSeq(s, 1, k - 1)
           b == SubSeq(s, k + 1, Len(s))
<1>1. Len(s) \in Nat /\ \A i \in 1 .. Len(s) : s[i] \in S
  BY ElementOfSeq, LenProperties
<1>2. /\ a \in Seq(S) /\ Len(a) = k - 1
      /\ \A i \in 1 .. k - 1 : a[i] = s[i]
  <2>1. \A i \in 1 .. k - 1 : s[i] \in S
    BY <1>1
  <2>2. /\ SubSeq(s, 1, k - 1) \in Seq(S)
        /\ Len(SubSeq(s, 1, k - 1)) = IF 1 <= k - 1 THEN k - 1 - 1 + 1 ELSE 0
        /\ \A i \in 1 .. k - 1 - 1 + 1 : SubSeq(s, 1, k - 1)[i] = s[1 + i - 1]
    BY <1>1, <2>1, SubSeqProperties
  <2> QED
    BY <1>1, <2>2
<1>3. /\ b \in Seq(S) /\ Len(b) = Len(s) - k
      /\ \A i \in 1 .. Len(s) - k : b[i] = s[k + i]
  <2>1. \A i \in k + 1 .. Len(s) : s[i] \in S
    BY <1>1
  <2>2. /\ SubSeq(s, k + 1, Len(s)) \in Seq(S)
        /\ Len(SubSeq(s, k + 1, Len(s))) =
             IF k + 1 <= Len(s) THEN Len(s) - (k + 1) + 1 ELSE 0
        /\ \A i \in 1 .. Len(s) - (k + 1) + 1 : SubSeq(s, k + 1, Len(s))[i] = s[k + 1 + i - 1]
    BY <1>1, <2>1, SubSeqProperties
  <2> QED
    BY <1>1, <2>2
<1>4. RemoveAt(s, k) = a \o b
  BY DEF RemoveAt
<1> HIDE DEF a, b
<1>5. /\ a \o b \in Seq(S)
      /\ Len(a \o b) = Len(a) + Len(b)
      /\ \A i \in 1 .. Len(a) + Len(b) : (a \o b)[i] = IF i <= Len(a) THEN a[i] ELSE b[i - Len(a)]
  BY <1>2, <1>3, ConcatProperties
<1>6. ASSUME NEW i \in 1 .. Len(s) - 1
      PROVE  (a \o b)[i] = IF i < k THEN s[i] ELSE s[i + 1]
  <2>1. (a \o b)[i] = IF i <= k - 1 THEN a[i] ELSE b[i - (k - 1)]
    BY <1>1, <1>2, <1>3, <1>5
  <2>2. CASE i < k
    <3>1. i \in 1 .. k - 1
      BY <2>2
    <3> QED
      BY <1>2, <2>1, <2>2, <3>1
  <2>3. CASE ~(i < k)
    <3>1. i - (k - 1) \in 1 .. Len(s) - k /\ k + (i - (k - 1)) = i + 1
      BY <1>1, <2>3
    <3> QED
      BY <1>3, <2>1, <2>3, <3>1
  <2> QED
    BY <2>2, <2>3
<1> QED
  BY <1>1, <1>2, <1>3, <1>4, <1>5, <1>6

\* And what InsertAt does.
LEMMA InsertAtProperties ==
  ASSUME NEW S, NEW s \in Seq(S), NEW k \in 1 .. Len(s) + 1, NEW e \in S
  PROVE  /\ InsertAt(s, k, e) \in Seq(S)
         /\ Len(InsertAt(s, k, e)) = Len(s) + 1
         /\ \A i \in 1 .. k - 1 : InsertAt(s, k, e)[i] = s[i]
         /\ InsertAt(s, k, e)[k] = e
         /\ \A i \in k + 1 .. Len(s) + 1 : InsertAt(s, k, e)[i] = s[i - 1]
<1> DEFINE a == SubSeq(s, 1, k - 1)
           m == a \o <<e>>
           b == SubSeq(s, k, Len(s))
<1>1. Len(s) \in Nat /\ \A i \in 1 .. Len(s) : s[i] \in S
  BY ElementOfSeq, LenProperties
<1>2. /\ a \in Seq(S) /\ Len(a) = k - 1
      /\ \A i \in 1 .. k - 1 : a[i] = s[i]
  <2>1. \A i \in 1 .. k - 1 : s[i] \in S
    BY <1>1
  <2>2. /\ SubSeq(s, 1, k - 1) \in Seq(S)
        /\ Len(SubSeq(s, 1, k - 1)) = IF 1 <= k - 1 THEN k - 1 - 1 + 1 ELSE 0
        /\ \A i \in 1 .. k - 1 - 1 + 1 : SubSeq(s, 1, k - 1)[i] = s[1 + i - 1]
    BY <1>1, <2>1, SubSeqProperties
  <2> QED
    BY <1>1, <2>2
<1>3. /\ b \in Seq(S) /\ Len(b) = Len(s) - k + 1
      /\ \A i \in 1 .. Len(s) - k + 1 : b[i] = s[k + i - 1]
  <2>1. \A i \in k .. Len(s) : s[i] \in S
    BY <1>1
  <2>2. /\ SubSeq(s, k, Len(s)) \in Seq(S)
        /\ Len(SubSeq(s, k, Len(s))) = IF k <= Len(s) THEN Len(s) - k + 1 ELSE 0
        /\ \A i \in 1 .. Len(s) - k + 1 : SubSeq(s, k, Len(s))[i] = s[k + i - 1]
    BY <1>1, <2>1, SubSeqProperties
  <2> QED
    BY <1>1, <2>2
<1>4. InsertAt(s, k, e) = m \o b
  BY DEF InsertAt
<1>5. /\ m \in Seq(S) /\ Len(m) = k
      /\ \A i \in 1 .. k : m[i] = IF i < k THEN s[i] ELSE e
  <2>1. <<e>> \in Seq(S) /\ Len(<<e>>) = 1 /\ <<e>>[1] = e
    OBVIOUS
  <2> DEFINE w == <<e>>
  <2> HIDE DEF a, w
  <2>2. w \in Seq(S) /\ Len(w) = 1 /\ w[1] = e
    BY <2>1 DEF w
  <2>3. /\ a \o w \in Seq(S)
        /\ Len(a \o w) = Len(a) + Len(w)
        /\ \A i \in 1 .. Len(a) + Len(w) : (a \o w)[i] = IF i <= Len(a) THEN a[i] ELSE w[i - Len(a)]
    BY <1>2, <2>2, ConcatProperties
  <2>4. m = a \o w
    BY DEF w
  <2> HIDE DEF m
  <2>5. ASSUME NEW i \in 1 .. k PROVE m[i] = IF i < k THEN s[i] ELSE e
    <3>1. m[i] = IF i <= k - 1 THEN a[i] ELSE w[i - (k - 1)]
      BY <1>1, <1>2, <2>2, <2>3, <2>4
    <3>2. CASE i < k
      <4>1. i \in 1 .. k - 1
        BY <3>2
      <4> QED
        BY <1>2, <3>1, <3>2, <4>1
    <3>3. CASE ~(i < k)
      <4>1. i - (k - 1) = 1
        BY <1>1, <3>3
      <4> QED
        BY <2>2, <3>1, <3>3, <4>1
    <3> QED
      BY <3>2, <3>3
  <2> QED
    BY <1>1, <1>2, <2>2, <2>3, <2>4, <2>5
<1> HIDE DEF a, b, m
<1>6. /\ m \o b \in Seq(S)
      /\ Len(m \o b) = Len(m) + Len(b)
      /\ \A i \in 1 .. Len(m) + Len(b) : (m \o b)[i] = IF i <= Len(m) THEN m[i] ELSE b[i - Len(m)]
  BY <1>3, <1>5, ConcatProperties
<1>7. ASSUME NEW i \in 1 .. k
      PROVE  (m \o b)[i] = IF i < k THEN s[i] ELSE e
  <2>1. i \in 1 .. Len(m) + Len(b) /\ i <= Len(m)
    BY <1>1, <1>3, <1>5
  <2> QED
    BY <1>5, <1>6, <2>1
<1>8. ASSUME NEW i \in k + 1 .. Len(s) + 1
      PROVE  (m \o b)[i] = s[i - 1]
  <2>1. i \in 1 .. Len(m) + Len(b) /\ ~(i <= Len(m))
    BY <1>1, <1>3, <1>5
  <2>2. (m \o b)[i] = b[i - k]
    BY <1>5, <1>6, <2>1
  <2>3. i - k \in 1 .. Len(s) - k + 1 /\ k + (i - k) - 1 = i - 1
    BY <1>1
  <2> QED
    BY <1>3, <2>2, <2>3
<1>9. \A i \in 1 .. k - 1 : i \in 1 .. k /\ i < k
  BY <1>1
<1>10. k \in 1 .. k /\ ~(k < k)
  BY <1>1
<1>11. InsertAt(s, k, e) \in Seq(S)
  BY <1>4, <1>6
<1>12. Len(InsertAt(s, k, e)) = Len(s) + 1
  <2>1. Len(InsertAt(s, k, e)) = k + (Len(s) - k + 1)
    BY <1>3, <1>4, <1>5, <1>6
  <2> QED
    BY <1>1, <2>1
<1>13. \A i \in 1 .. k - 1 : InsertAt(s, k, e)[i] = s[i]
  BY <1>4, <1>7, <1>9
<1>14. InsertAt(s, k, e)[k] = e
  BY <1>4, <1>7, <1>10
<1>15. \A i \in k + 1 .. Len(s) + 1 : InsertAt(s, k, e)[i] = s[i - 1]
  BY <1>4, <1>8
<1> QED
  BY <1>11, <1>12, <1>13, <1>14, <1>15

-----------------------------------------------------------------------------
(* Sequences without repetition.                                           *)

\* The lists that a board is made of.
Lists == {s \in Seq(Tasks) : \A i, j \in 1 .. Len(s) : s[i] = s[j] => i = j}

\* In a list, findIndex is the inverse of indexing.
LEMMA IndexOfElement ==
  ASSUME NEW s \in Lists
  PROVE  /\ \A t \in ToSet(s) : IndexOf(s, t) \in 0 .. Len(s) - 1 /\ s[IndexOf(s, t) + 1] = t
         /\ \A k \in 1 .. Len(s) : IndexOf(s, s[k]) = k - 1
         /\ \A t : t \notin ToSet(s) => IndexOf(s, t) = -1
         /\ \A t : t \in ToSet(s) <=> \E k \in 1 .. Len(s) : s[k] = t
<1>1. s \in Seq(Tasks) /\ Len(s) \in Nat /\ DOMAIN s = 1 .. Len(s)
  BY LenProperties DEF Lists
<1>2. \A t : t \in ToSet(s) <=> \E k \in 1 .. Len(s) : s[k] = t
  BY <1>1 DEF ToSet
<1>3. ASSUME NEW k \in 1 .. Len(s)
      PROVE  IndexOf(s, s[k]) = k - 1
  <2>1. s[k] \in ToSet(s)
    BY <1>2
  <2>2. IndexOf(s, s[k]) = (CHOOSE i \in DOMAIN s : s[i] = s[k]) - 1
    BY <2>1 DEF IndexOf
  <2>3. (CHOOSE i \in DOMAIN s : s[i] = s[k]) = k
    BY <1>1 DEF Lists
  <2> QED
    BY <2>2, <2>3
<1>4. ASSUME NEW t \in ToSet(s)
      PROVE  IndexOf(s, t) \in 0 .. Len(s) - 1 /\ s[IndexOf(s, t) + 1] = t
  <2>1. PICK k \in 1 .. Len(s) : s[k] = t
    BY <1>2
  <2>2. IndexOf(s, t) = k - 1 /\ k - 1 \in 0 .. Len(s) - 1 /\ k - 1 + 1 = k
    BY <1>1, <1>3, <2>1
  <2> QED
    BY <2>1, <2>2
<1>5. \A t : t \notin ToSet(s) => IndexOf(s, t) = -1
  BY DEF IndexOf
<1> QED
  BY <1>2, <1>3, <1>4, <1>5

\* Taking a Task out of a list leaves a list of the others.
LEMMA ListWithout ==
  ASSUME NEW s \in Lists, NEW k \in 1 .. Len(s)
  PROVE  /\ RemoveAt(s, k) \in Lists
         /\ Len(RemoveAt(s, k)) = Len(s) - 1
         /\ \A i \in 1 .. Len(s) - 1 : RemoveAt(s, k)[i] = IF i < k THEN s[i] ELSE s[i + 1]
         /\ \A u : u \in ToSet(RemoveAt(s, k)) <=> u \in ToSet(s) /\ u # s[k]
<1> DEFINE r == RemoveAt(s, k)
<1>1. s \in Seq(Tasks) /\ Len(s) \in Nat /\ DOMAIN s = 1 .. Len(s)
  BY LenProperties DEF Lists
<1>2. /\ r \in Seq(Tasks) /\ Len(r) = Len(s) - 1
      /\ \A i \in 1 .. Len(s) - 1 : r[i] = IF i < k THEN s[i] ELSE s[i + 1]
  BY <1>1, RemoveAtProperties
<1> HIDE DEF r
<1>3. ASSUME NEW i \in 1 .. Len(r), NEW j \in 1 .. Len(r), r[i] = r[j] PROVE i = j
  <2>1. /\ i \in Int /\ j \in Int /\ k \in Int
        /\ i \in 1 .. Len(s) - 1 /\ j \in 1 .. Len(s) - 1
    BY <1>1, <1>2
  <2>2. i \in 1 .. Len(s) /\ j \in 1 .. Len(s) /\ i + 1 \in 1 .. Len(s) /\ j + 1 \in 1 .. Len(s)
    BY <1>1, <2>1
  <2>3. \A x, y \in 1 .. Len(s) : s[x] = s[y] => x = y
    BY DEF Lists
  <2>4. r[i] = (IF i < k THEN s[i] ELSE s[i + 1]) /\ r[j] = (IF j < k THEN s[j] ELSE s[j + 1])
    BY <1>2, <2>1
  <2>5. CASE i < k /\ j < k
    BY <1>3, <2>2, <2>3, <2>4, <2>5
  <2>6. CASE i < k /\ ~(j < k)
    <3>1. i = j + 1
      BY <1>3, <2>2, <2>3, <2>4, <2>6
    <3> QED
      BY <2>1, <2>6, <3>1
  <2>7. CASE ~(i < k) /\ j < k
    <3>1. i + 1 = j
      BY <1>3, <2>2, <2>3, <2>4, <2>7
    <3> QED
      BY <2>1, <2>7, <3>1
  <2>8. CASE ~(i < k) /\ ~(j < k)
    <3>1. i + 1 = j + 1
      BY <1>3, <2>2, <2>3, <2>4, <2>8
    <3> QED
      BY <2>1, <3>1
  <2> QED
    BY <2>5, <2>6, <2>7, <2>8
<1>4. r \in Lists
  BY <1>2, <1>3 DEF Lists
<1>5. \A u : u \in ToSet(s) <=> \E i \in 1 .. Len(s) : s[i] = u
  BY IndexOfElement
<1>6. \A u : u \in ToSet(r) <=> \E i \in 1 .. Len(r) : r[i] = u
  BY <1>4, IndexOfElement
<1>7. ASSUME NEW u, u \in ToSet(r) PROVE u \in ToSet(s) /\ u # s[k]
  <2>1. PICK i \in 1 .. Len(r) : r[i] = u
    BY <1>6, <1>7
  <2>2. i \in 1 .. Len(s) - 1 /\ i \in Int /\ i \in 1 .. Len(s) /\ i + 1 \in 1 .. Len(s)
    BY <1>1, <1>2
  <2>3. \A x, y \in 1 .. Len(s) : s[x] = s[y] => x = y
    BY DEF Lists
  <2>4. u = IF i < k THEN s[i] ELSE s[i + 1]
    BY <1>2, <2>1, <2>2
  <2>5. k \in Int
    OBVIOUS
  <2>6. CASE i < k
    BY <1>5, <2>2, <2>3, <2>4, <2>5, <2>6
  <2>7. CASE ~(i < k)
    <3>1. u = s[i + 1] /\ i + 1 # k
      BY <2>2, <2>4, <2>5, <2>7
    <3> QED
      BY <1>5, <2>2, <2>3, <3>1
  <2> QED
    BY <2>6, <2>7
<1>8. ASSUME NEW u, u \in ToSet(s), u # s[k] PROVE u \in ToSet(r)
  <2>1. PICK i \in 1 .. Len(s) : s[i] = u
    BY <1>5, <1>8
  <2>2. i # k /\ i \in Int /\ k \in Int
    BY <1>8, <2>1
  <2>3. CASE i < k
    <3>1. i \in 1 .. Len(s) - 1 /\ r[i] = u
      BY <1>1, <1>2, <2>1, <2>2, <2>3
    <3> QED
      BY <1>2, <1>6, <3>1
  <2>4. CASE i > k
    <3>1. i - 1 \in 1 .. Len(s) - 1 /\ ~(i - 1 < k) /\ i - 1 + 1 = i
      BY <1>1, <2>2, <2>4
    <3>2. r[i - 1] = u
      BY <1>2, <2>1, <3>1
    <3> QED
      BY <1>2, <1>6, <3>1, <3>2
  <2> QED
    BY <2>2, <2>3, <2>4
<1> QED
  BY <1>2, <1>4, <1>7, <1>8 DEF r

\* Where a new Task comes into a list.
At(s, i) == IF i < Len(s) THEN i ELSE Len(s)

\* splice makes a list with one Task more, which is where it was asked for.
LEMMA ListWith ==
  ASSUME NEW s \in Lists, NEW t \in Tasks, t \notin ToSet(s), NEW i \in Nat
  PROVE  /\ Spliced(s, i, t) = InsertAt(s, At(s, i) + 1, t)
         /\ Spliced(s, i, t) \in Lists
         /\ Len(Spliced(s, i, t)) = Len(s) + 1
         /\ \A k \in 1 .. At(s, i) : Spliced(s, i, t)[k] = s[k]
         /\ Spliced(s, i, t)[At(s, i) + 1] = t
         /\ \A k \in At(s, i) + 2 .. Len(s) + 1 : Spliced(s, i, t)[k] = s[k - 1]
         /\ \A u : u \in ToSet(Spliced(s, i, t)) <=> u \in ToSet(s) \/ u = t
<1> DEFINE p == At(s, i)
           r == Spliced(s, i, t)
<1>1. s \in Seq(Tasks) /\ Len(s) \in Nat /\ DOMAIN s = 1 .. Len(s)
  BY LenProperties DEF Lists
<1>2. p \in Nat /\ p <= Len(s)
  BY <1>1 DEF At
<1>3. r = InsertAt(s, p + 1, t)
  BY DEF Spliced, At
<1> HIDE DEF p, r
<1>4. p + 1 \in 1 .. Len(s) + 1
  BY <1>1, <1>2
<1> DEFINE q == p + 1
<1>5. r = InsertAt(s, q, t) /\ q \in 1 .. Len(s) + 1 /\ q - 1 = p /\ q + 1 = p + 2
  BY <1>2, <1>3, <1>4
<1> HIDE DEF q
<1>6. /\ r \in Seq(Tasks) /\ Len(r) = Len(s) + 1
      /\ \A k \in 1 .. p : r[k] = s[k]
      /\ r[p + 1] = t
      /\ \A k \in p + 2 .. Len(s) + 1 : r[k] = s[k - 1]
  <2>1. /\ r \in Seq(Tasks) /\ Len(r) = Len(s) + 1
        /\ \A k \in 1 .. q - 1 : r[k] = s[k]
        /\ r[q] = t
        /\ \A k \in q + 1 .. Len(s) + 1 : r[k] = s[k - 1]
    <3>1. s \in Seq(Tasks) /\ q \in 1 .. Len(s) + 1 /\ t \in Tasks
      BY <1>1, <1>5
    <3>2. /\ InsertAt(s, q, t) \in Seq(Tasks)
          /\ Len(InsertAt(s, q, t)) = Len(s) + 1
          /\ \A k \in 1 .. q - 1 : InsertAt(s, q, t)[k] = s[k]
          /\ InsertAt(s, q, t)[q] = t
          /\ \A k \in q + 1 .. Len(s) + 1 : InsertAt(s, q, t)[k] = s[k - 1]
      BY <3>1, InsertAtProperties
    <3> QED
      BY <1>5, <3>2
  <2>2. r[p + 1] = t
    BY <2>1 DEF q
  <2> QED
    BY <1>5, <2>1, <2>2
<1>7. \A u : u \in ToSet(s) <=> \E k \in 1 .. Len(s) : s[k] = u
  BY IndexOfElement
<1>8. ASSUME NEW k \in 1 .. Len(r), k # p + 1
      PROVE  LET o == IF k <= p THEN k ELSE k - 1
             IN o \in 1 .. Len(s) /\ r[k] = s[o] /\ s[o] # t
  <2>1. k \in Int /\ k \in 1 .. Len(s) + 1
    BY <1>1, <1>6
  <2>2. CASE k <= p
    <3>1. k \in 1 .. p /\ k \in 1 .. Len(s)
      BY <1>1, <1>2, <2>1, <2>2
    <3> QED
      BY <1>6, <1>7, <2>2, <3>1
  <2>3. CASE ~(k <= p)
    <3>1. k \in p + 2 .. Len(s) + 1 /\ k - 1 \in 1 .. Len(s)
      BY <1>1, <1>2, <1>8, <2>1, <2>3
    <3> QED
      BY <1>6, <1>7, <2>3, <3>1
  <2> QED
    BY <2>2, <2>3
<1>9. ASSUME NEW x \in 1 .. Len(r), NEW y \in 1 .. Len(r), r[x] = r[y] PROVE x = y
  <2>1. x \in Int /\ y \in Int
    OBVIOUS
  <2>2. \A a, b \in 1 .. Len(s) : s[a] = s[b] => a = b
    BY DEF Lists
  <2>3. CASE x = p + 1
    BY <1>6, <1>8, <1>9, <2>3
  <2>4. CASE y = p + 1
    BY <1>6, <1>8, <1>9, <2>4
  <2>5. CASE x # p + 1 /\ y # p + 1
    <3>1. (IF x <= p THEN x ELSE x - 1) = (IF y <= p THEN y ELSE y - 1)
      BY <1>8, <1>9, <2>2, <2>5
    <3> QED
      BY <1>2, <2>1, <2>5, <3>1
  <2> QED
    BY <2>3, <2>4, <2>5
<1>10. r \in Lists
  BY <1>6, <1>9 DEF Lists
<1>11. \A u : u \in ToSet(r) <=> \E k \in 1 .. Len(r) : r[k] = u
  BY <1>10, IndexOfElement
<1>12. ASSUME NEW u, u \in ToSet(r) PROVE u \in ToSet(s) \/ u = t
  <2>1. PICK k \in 1 .. Len(r) : r[k] = u
    BY <1>11, <1>12
  <2> QED
    BY <1>6, <1>7, <1>8, <2>1
<1>13. ASSUME NEW u, u \in ToSet(s) PROVE u \in ToSet(r)
  <2>1. PICK k \in 1 .. Len(s) : s[k] = u
    BY <1>7, <1>13
  <2>2. CASE k <= p
    <3>1. k \in 1 .. p /\ k \in 1 .. Len(r)
      BY <1>1, <1>2, <1>6, <2>2
    <3> QED
      BY <1>6, <1>11, <2>1, <3>1
  <2>3. CASE ~(k <= p)
    <3>1. k + 1 \in p + 2 .. Len(s) + 1 /\ k + 1 - 1 = k /\ k + 1 \in 1 .. Len(r)
      BY <1>1, <1>2, <1>6, <2>3
    <3>2. r[k + 1] = u
      BY <1>6, <2>1, <3>1
    <3> QED
      BY <1>11, <3>1, <3>2
  <2> QED
    BY <2>2, <2>3
<1>14. t \in ToSet(r)
  <2>1. p + 1 \in 1 .. Len(r)
    BY <1>1, <1>2, <1>6
  <2> QED
    BY <1>6, <1>11, <2>1
<1>15. \A u : u \in ToSet(r) <=> u \in ToSet(s) \/ u = t
  BY <1>12, <1>13, <1>14
<1> QED
  BY <1>3, <1>6, <1>10, <1>15 DEF p, r

-----------------------------------------------------------------------------
(* What groupTasks makes of a cache.                                       *)

\* Any set of Tasks, each somewhere on the board.
Caches == UNION {[D -> [col : Columns, pos : Nat]] : D \in SUBSET Tasks}

\* The Tasks of a cache are finitely many, each at one place.
LEMMA TasksOfCache ==
  ASSUME NEW places \in Caches
  PROVE  /\ DOMAIN places \in SUBSET Tasks
         /\ \A t \in DOMAIN places : places[t].col \in Columns /\ places[t].pos \in Nat
         /\ \A c : /\ Within(places, c) \in SUBSET DOMAIN places
                   /\ IsFiniteSet(Within(places, c))
                   /\ Cardinality(Within(places, c)) \in Nat
         /\ \A t : \A c : t \in Within(places, c) <=> t \in DOMAIN places /\ places[t].col = c
<1>1. DOMAIN places \in SUBSET Tasks
  BY DEF Caches
<1>2. \A t \in DOMAIN places : places[t].col \in Columns /\ places[t].pos \in Nat
  BY DEF Caches
<1>3. ASSUME NEW c
      PROVE  /\ Within(places, c) \in SUBSET DOMAIN places
             /\ IsFiniteSet(Within(places, c))
             /\ Cardinality(Within(places, c)) \in Nat
  <2>1. Within(places, c) \in SUBSET DOMAIN places
    BY DEF Within
  <2> QED
    BY <1>1, <2>1, TasksAssumption, FS_Subset, FS_CardinalityType
<1>4. \A t : \A c : t \in Within(places, c) <=> t \in DOMAIN places /\ places[t].col = c
  BY DEF Within
<1> QED
  BY <1>1, <1>2, <1>3, <1>4

\* The comparison of the sort puts the Tasks of a cache in one order.
LEMMA PrecedesOrders ==
  ASSUME NEW places \in Caches
  PROVE  /\ \A t \in DOMAIN places : ~Precedes(places, t, t)
         /\ \A t, u \in DOMAIN places : t = u \/ Precedes(places, t, u) \/ Precedes(places, u, t)
         /\ \A t, u, v \in DOMAIN places :
              Precedes(places, t, u) /\ Precedes(places, u, v) => Precedes(places, t, v)
<1>1. /\ \A t \in DOMAIN places : places[t].pos \in Int /\ IdOrder[t] \in Int
      /\ \A t, u \in DOMAIN places : IdOrder[t] = IdOrder[u] => t = u
  BY TasksOfCache, IdsAssumption DEF IsInjective
<1> QED
  BY <1>1 DEF Precedes

\* So that each has an index of its own, and every index its Task.
LEMMA AboveIsAnIndex ==
  ASSUME NEW places \in Caches, NEW c
  PROVE  LET n == Cardinality(Within(places, c))
             rank(t) == Cardinality(Above(places, c, t))
         IN /\ \A t \in Within(places, c) : rank(t) \in 0 .. n - 1
            /\ \A t, u \in Within(places, c) : rank(t) = rank(u) => t = u
            /\ \A k \in 0 .. n - 1 : \E t \in Within(places, c) : rank(t) = k
<1> DEFINE W == Within(places, c)
           n == Cardinality(W)
           A(t) == Above(places, c, t)
           rank(t) == Cardinality(A(t))
<1>1. /\ IsFiniteSet(W) /\ n \in Nat /\ W \in SUBSET DOMAIN places
  BY TasksOfCache
<1>2. \A t : \A u : u \in A(t) <=> u \in W /\ Precedes(places, u, t)
  BY DEF Above
<1>3. \A t : IsFiniteSet(A(t)) /\ rank(t) \in Nat /\ A(t) \in SUBSET W
  <2> TAKE t
  <2>1. A(t) \in SUBSET W
    BY <1>2
  <2> HIDE DEF A, W
  <2> QED
    BY <1>1, <2>1, FS_Subset, FS_CardinalityType
<1>4. /\ \A t \in W : ~Precedes(places, t, t)
      /\ \A t, u \in W : t = u \/ Precedes(places, t, u) \/ Precedes(places, u, t)
      /\ \A t, u, v \in W : Precedes(places, t, u) /\ Precedes(places, u, v) => Precedes(places, t, v)
  BY <1>1, PrecedesOrders
<1> HIDE DEF A, W
<1>5. ASSUME NEW t \in W, NEW X, X \in SUBSET W, t \in X, A(t) \in SUBSET X
      PROVE  rank(t) < Cardinality(X)
  <2>1. IsFiniteSet(X) /\ Cardinality(X) \in Nat
    BY <1>1, <1>5, FS_Subset, FS_CardinalityType
  <2>2. A(t) # X
    BY <1>2, <1>4, <1>5
  <2>3. rank(t) <= Cardinality(X) /\ rank(t) # Cardinality(X)
    BY <1>5, <2>1, <2>2, FS_Subset
  <2> QED
    BY <1>3, <2>1, <2>3
<1>6. \A t \in W : rank(t) \in 0 .. n - 1
  <2> TAKE t \in W
  <2>1. rank(t) < n
    BY <1>3, <1>5
  <2> QED
    BY <1>1, <1>3, <2>1
<1>7. ASSUME NEW t \in W, NEW u \in W, Precedes(places, t, u)
      PROVE  rank(t) < rank(u)
  <2>1. t \in A(u) /\ A(u) \in SUBSET W
    BY <1>2, <1>3, <1>7
  <2>2. A(t) \in SUBSET A(u)
    BY <1>2, <1>4, <1>7
  <2> QED
    BY <1>5, <2>1, <2>2
<1>8. ASSUME NEW t \in W, NEW u \in W, rank(t) = rank(u) PROVE t = u
  <2>1. rank(t) \in Int /\ rank(u) \in Int
    BY <1>3
  <2> QED
    BY <1>4, <1>7, <1>8, <2>1
<1> DEFINE T == 0 .. n - 1
           f == [t \in W |-> rank(t)]
<1>9. IsFiniteSet(T) /\ Cardinality(T) = n
  <2> HIDE DEF n
  <2> QED
    BY <1>1, FS_Interval
<1>10. f \in Injection(W, T)
  <2>1. f \in [W -> T]
    BY <1>6
  <2>2. \A t, u \in W : f[t] = f[u] => t = u
    BY <1>8
  <2> HIDE DEF f, T
  <2> QED
    BY <2>1, <2>2 DEF Injection, IsInjective
<1>11. f \in Surjection(W, T)
  <2>1. Cardinality(W) = Cardinality(T)
    BY <1>9
  <2> HIDE DEF f, T, n
  <2> QED
    BY <1>1, <1>9, <1>10, <2>1, FS_Injection
<1>12. \A k \in T : \E t \in W : f[t] = k
  <2> HIDE DEF f, T
  <2> QED
    BY <1>11 DEF Surjection
<1>13. \A k \in 0 .. n - 1 : \E t \in W : rank(t) = k
  BY <1>12
<1> HIDE DEF n
<1> QED
  BY <1>6, <1>8, <1>13 DEF n, rank, W, A

\* The list of a Column has its Tasks, each once.
LEMMA GroupsAreLists ==
  ASSUME NEW places \in Caches
  PROVE  /\ groupTasks(places) \in [Columns -> Lists]
         /\ \A c \in Columns : \A t : t \in ToSet(groupTasks(places)[c]) <=> t \in Within(places, c)
<1>1. ASSUME NEW c \in Columns
      PROVE  /\ groupTasks(places)[c] \in Lists
             /\ \A t : t \in ToSet(groupTasks(places)[c]) <=> t \in Within(places, c)
  <2> DEFINE W == Within(places, c)
             n == Cardinality(W)
             rank(t) == Cardinality(Above(places, c, t))
             s == groupTasks(places)[c]
             pick(i) == CHOOSE t \in W : rank(t) = i - 1
  <2>1. s = [i \in 1 .. n |-> pick(i)]
    BY DEF groupTasks
  <2>2. n \in Nat /\ W \in SUBSET Tasks
    BY TasksOfCache
  <2>3. /\ \A t \in W : rank(t) \in 0 .. n - 1
        /\ \A t, u \in W : rank(t) = rank(u) => t = u
        /\ \A k \in 0 .. n - 1 : \E t \in W : rank(t) = k
    BY AboveIsAnIndex
  <2> HIDE DEF W, n, s, rank
  <2>4. ASSUME NEW i \in 1 .. n PROVE pick(i) \in W /\ rank(pick(i)) = i - 1
    <3>1. i - 1 \in 0 .. n - 1
      BY <2>2
    <3>2. \E t \in W : rank(t) = i - 1
      BY <2>3, <3>1
    <3> QED
      BY <3>2
  <2> HIDE DEF pick
  <2>5. s \in Seq(Tasks) /\ Len(s) = n /\ \A i \in 1 .. n : s[i] \in W /\ rank(s[i]) = i - 1
    BY <2>1, <2>2, <2>4
  <2>6. ASSUME NEW i \in 1 .. n, NEW j \in 1 .. n, s[i] = s[j] PROVE i = j
    <3>1. i - 1 = j - 1 /\ i \in Int /\ j \in Int
      BY <2>2, <2>5, <2>6
    <3> QED
      BY <3>1
  <2>7. s \in Lists
    BY <2>5, <2>6 DEF Lists
  <2>8. ASSUME NEW t \in W PROVE \E i \in 1 .. n : s[i] = t
    <3> DEFINE i == rank(t) + 1
    <3>1. i \in 1 .. n /\ i - 1 = rank(t)
      BY <2>2, <2>3
    <3> HIDE DEF i
    <3>2. s[i] \in W /\ rank(s[i]) = rank(t)
      BY <2>5, <3>1
    <3>3. s[i] = t
      BY <2>3, <3>2
    <3> QED
      BY <3>1, <3>3
  <2>9. \A t : t \in ToSet(s) <=> \E i \in 1 .. n : s[i] = t
    BY <2>5, <2>7, IndexOfElement
  <2> QED
    BY <2>5, <2>7, <2>8, <2>9 DEF s, W
<1>2. groupTasks(places) = [c \in Columns |-> groupTasks(places)[c]]
  BY DEF groupTasks
<1> QED
  BY <1>1, <1>2

\* Tasks numbered from 0 in the order of a list are grouped as that list.
LEMMA NumberedGroup ==
  ASSUME NEW places \in Caches, NEW c \in Columns, NEW s \in Lists,
         \A t : t \in ToSet(s) <=> t \in Within(places, c),
         \A k \in 1 .. Len(s) : places[s[k]].pos = k - 1
  PROVE  groupTasks(places)[c] = s
<1> DEFINE W == Within(places, c)
           n == Cardinality(W)
           rank(t) == Cardinality(Above(places, c, t))
           pick(i) == CHOOSE t \in W : rank(t) = i - 1
<1>1. s \in Seq(Tasks) /\ Len(s) \in Nat /\ \A x, y \in 1 .. Len(s) : s[x] = s[y] => x = y
  BY LenProperties DEF Lists
<1>2. \A t : t \in W <=> \E k \in 1 .. Len(s) : s[k] = t
  BY IndexOfElement
<1>3. ASSUME NEW k \in 1 .. Len(s) PROVE rank(s[k]) = k - 1
  <2> DEFINE A == Above(places, c, s[k])
             T == 1 .. k - 1
             f == [j \in T |-> s[j]]
  <2>1. T \in SUBSET (1 .. Len(s)) /\ k - 1 \in Nat /\ k \in Int
    BY <1>1
  <2>2. \A u : u \in A <=> u \in W /\ Precedes(places, u, s[k])
    BY DEF Above
  <2>3. ASSUME NEW j \in 1 .. Len(s) PROVE s[j] \in A <=> j \in T
    <3>1. s[j] \in W /\ places[s[j]].pos = j - 1 /\ places[s[k]].pos = k - 1 /\ j \in Int
      BY <1>2
    <3>2. s[j] = s[k] => j = k
      BY <1>1
    <3>3. j - 1 = k - 1 => j = k
      BY <2>1, <3>1
    <3>4. s[k] \in DOMAIN places
      BY <1>2, TasksOfCache
    <3>5. ~Precedes(places, s[k], s[k])
      BY <3>4, PrecedesOrders
    <3>6. Precedes(places, s[j], s[k]) <=> j - 1 < k - 1
      BY <3>1, <3>3, <3>5 DEF Precedes
    <3> QED
      BY <2>1, <2>2, <3>1, <3>6
  <2>4. f \in [T -> A]
    BY <2>1, <2>3
  <2>5. \A i, j \in T : f[i] = f[j] => i = j
    BY <1>1, <2>1
  <2>6. \A u \in A : \E j \in T : f[j] = u
    <3> TAKE u \in A
    <3>1. PICK j \in 1 .. Len(s) : s[j] = u
      BY <1>2, <2>2
    <3> QED
      BY <2>3, <3>1
  <2>7. IsFiniteSet(T) /\ Cardinality(T) = k - 1
    BY <2>1, FS_Interval
  <2> HIDE DEF f, A, T
  <2>8. f \in Bijection(T, A)
    BY <2>4, <2>5, <2>6 DEF Bijection, Injection, IsInjective, Surjection
  <2>9. ExistsBijection(T, A)
    BY <2>8 DEF ExistsBijection
  <2>10. Cardinality(A) = k - 1
    BY <2>7, <2>9, FS_Bijection
  <2> QED
    BY <2>10 DEF A
<1> DEFINE g == [j \in 1 .. Len(s) |-> s[j]]
<1>4. n = Len(s)
  <2>1. g \in [1 .. Len(s) -> W] /\ \A i, j \in 1 .. Len(s) : g[i] = g[j] => i = j
    BY <1>1, <1>2
  <2>2. \A u \in W : \E j \in 1 .. Len(s) : g[j] = u
    BY <1>2
  <2>3. IsFiniteSet(1 .. Len(s)) /\ Cardinality(1 .. Len(s)) = Len(s)
    <3> DEFINE m == Len(s)
    <3>1. m \in Nat
      BY <1>1
    <3> HIDE DEF m
    <3>2. IsFiniteSet(1 .. m) /\ Cardinality(1 .. m) = m
      BY <3>1, FS_Interval
    <3> QED
      BY <3>2 DEF m
  <2> HIDE DEF g, W
  <2>4. g \in Bijection(1 .. Len(s), W)
    BY <2>1, <2>2 DEF Bijection, Injection, IsInjective, Surjection
  <2>5. ExistsBijection(1 .. Len(s), W)
    BY <2>4 DEF ExistsBijection
  <2> QED
    BY <2>3, <2>5, FS_Bijection
<1>5. groupTasks(places)[c] = [i \in 1 .. n |-> pick(i)]
  BY DEF groupTasks
<1> HIDE DEF n, rank
<1>6. ASSUME NEW i \in 1 .. Len(s) PROVE pick(i) = s[i]
  <2>1. s[i] \in W /\ rank(s[i]) = i - 1
    BY <1>2, <1>3
  <2>2. ASSUME NEW t \in W, rank(t) = i - 1 PROVE t = s[i]
    <3>1. PICK k \in 1 .. Len(s) : s[k] = t
      BY <1>2
    <3>2. k - 1 = i - 1 /\ k \in Int /\ i \in Int
      BY <1>3, <2>2, <3>1
    <3> QED
      BY <3>1, <3>2
  <2> HIDE DEF W
  <2> QED
    BY <2>1, <2>2
<1> HIDE DEF pick
<1>7. groupTasks(places)[c] = [i \in 1 .. Len(s) |-> s[i]]
  BY <1>4, <1>5, <1>6
<1>8. s = [i \in 1 .. Len(s) |-> s[i]]
  BY <1>1
<1> QED
  BY <1>7, <1>8

\* Nothing but the places of its own Tasks matters for the list of a Column.
LEMMA GroupIsLocal ==
  ASSUME NEW a \in Caches, NEW b \in Caches, NEW c \in Columns,
         \A t : t \in Within(a, c) <=> t \in Within(b, c),
         \A t \in Within(a, c) : a[t] = b[t]
  PROVE  groupTasks(a)[c] = groupTasks(b)[c]
<1>1. Within(a, c) = Within(b, c)
  BY Zenon
<1>2. ASSUME NEW t \in Within(a, c) PROVE Above(a, c, t) = Above(b, c, t)
  <2>1. \A u : u \in Above(a, c, t) <=> u \in Within(a, c) /\ Precedes(a, u, t)
    BY DEF Above
  <2>2. \A u : u \in Above(b, c, t) <=> u \in Within(b, c) /\ Precedes(b, u, t)
    BY DEF Above
  <2>3. \A u \in Within(a, c) : Precedes(a, u, t) <=> Precedes(b, u, t)
    BY DEF Precedes
  <2> QED
    BY <2>1, <2>2, <2>3
<1> DEFINE W == Within(a, c)
           n == Cardinality(W)
           rankA(t) == Cardinality(Above(a, c, t))
           rankB(t) == Cardinality(Above(b, c, t))
<1>3. W = Within(b, c) /\ \A t \in W : rankA(t) = rankB(t)
  BY <1>1, <1>2
<1>4. /\ \A t, u \in W : rankA(t) = rankA(u) => t = u
      /\ \A k \in 0 .. n - 1 : \E t \in W : rankA(t) = k
      /\ n \in Nat
  BY AboveIsAnIndex, TasksOfCache
<1> HIDE DEF W, n, rankA, rankB
<1>5. ASSUME NEW i \in 1 .. n
      PROVE  (CHOOSE t \in W : rankA(t) = i - 1) = (CHOOSE t \in W : rankB(t) = i - 1)
  <2>1. i - 1 \in 0 .. n - 1
    BY <1>4
  <2>2. PICK t \in W : rankA(t) = i - 1
    BY <1>4, <2>1
  <2>3. \A u \in W : rankA(u) = i - 1 => u = t
    BY <1>4, <2>2
  <2>4. \A u \in W : rankB(u) = i - 1 => u = t
    BY <1>3, <2>3
  <2>5. rankB(t) = i - 1
    BY <1>3, <2>2
  <2> QED
    BY <2>2, <2>3, <2>4, <2>5
<1>6. groupTasks(a)[c] = [i \in 1 .. n |-> CHOOSE t \in W : rankA(t) = i - 1]
  BY DEF groupTasks, W, n, rankA
<1>7. groupTasks(b)[c] = [i \in 1 .. n |-> CHOOSE t \in W : rankB(t) = i - 1]
  BY <1>3 DEF groupTasks, n, rankB
<1> QED
  BY <1>5, <1>6, <1>7

-----------------------------------------------------------------------------
(* The preview of a move.                                                  *)

\* Task t taken out of a board, and put back at index i of Column c.
Out(board, t) ==
  [c \in Columns |->
     IF t \in ToSet(board[c]) THEN RemoveAt(board[c], IndexOf(board[c], t) + 1) ELSE board[c]]

\* Task t moved to index i of Column c: what splice makes of the lists.
Moved(board, t, c, i) == [Out(board, t) EXCEPT ![c] = Spliced(@, i, t)]

\* Taken out of the board that the browser shows, a Task leaves every list as it
\* was, its own one apart.
LEMMA OutOfGroups ==
  ASSUME NEW places \in Caches, NEW t \in DOMAIN places
  PROVE  LET g == groupTasks(places)
             from == places[t].col
         IN /\ from \in Columns /\ t \in ToSet(g[from])
            /\ Out(g, t)[from] = RemoveAt(g[from], IndexOf(g[from], t) + 1)
            /\ Len(Out(g, t)[from]) = Len(g[from]) - 1
            /\ \A k \in 1 .. Len(g[from]) - 1 :
                 Out(g, t)[from][k] = IF k < IndexOf(g[from], t) + 1 THEN g[from][k] ELSE g[from][k + 1]
            /\ \A c \in Columns \ {from} : Out(g, t)[c] = g[c]
            /\ Out(g, t) \in [Columns -> Lists]
            /\ \A c \in Columns : \A u :
                 u \in ToSet(Out(g, t)[c]) <=> u \in DOMAIN places /\ places[u].col = c /\ u # t
<1> DEFINE g == groupTasks(places)
           from == places[t].col
           o == Out(g, t)
           x == IndexOf(g[from], t)
           src == RemoveAt(g[from], x + 1)
<1>1. /\ g \in [Columns -> Lists]
      /\ \A c \in Columns : \A u : u \in ToSet(g[c]) <=> u \in DOMAIN places /\ places[u].col = c
  BY GroupsAreLists, TasksOfCache
<1>2. from \in Columns /\ t \in ToSet(g[from]) /\ \A c \in Columns \ {from} : t \notin ToSet(g[c])
  BY <1>1, TasksOfCache
<1>3. o = [c \in Columns |-> IF t \in ToSet(g[c]) THEN RemoveAt(g[c], IndexOf(g[c], t) + 1) ELSE g[c]]
  BY DEF Out
<1> HIDE DEF g, o, from
<1>4. o[from] = src /\ \A c \in Columns \ {from} : o[c] = g[c]
  BY <1>2, <1>3
<1>5. g[from] \in Lists /\ x + 1 \in 1 .. Len(g[from]) /\ g[from][x + 1] = t
  <2>1. g[from] \in Lists
    BY <1>1, <1>2
  <2>2. x \in 0 .. Len(g[from]) - 1 /\ g[from][x + 1] = t
    BY <1>2, <2>1, IndexOfElement
  <2>3. Len(g[from]) \in Nat
    BY <2>1, LenProperties DEF Lists
  <2> HIDE DEF x
  <2> QED
    BY <2>1, <2>2, <2>3
<1> HIDE DEF x
<1>6. /\ src \in Lists
      /\ Len(src) = Len(g[from]) - 1
      /\ \A k \in 1 .. Len(g[from]) - 1 : src[k] = IF k < x + 1 THEN g[from][k] ELSE g[from][k + 1]
      /\ \A u : u \in ToSet(src) <=> u \in ToSet(g[from]) /\ u # t
  <2> DEFINE k0 == x + 1
  <2>1. k0 \in 1 .. Len(g[from]) /\ g[from][k0] = t
    BY <1>5
  <2> HIDE DEF k0
  <2>2. /\ RemoveAt(g[from], k0) \in Lists
        /\ Len(RemoveAt(g[from], k0)) = Len(g[from]) - 1
        /\ \A i \in 1 .. Len(g[from]) - 1 :
             RemoveAt(g[from], k0)[i] = IF i < k0 THEN g[from][i] ELSE g[from][i + 1]
        /\ \A u : u \in ToSet(RemoveAt(g[from], k0)) <=> u \in ToSet(g[from]) /\ u # g[from][k0]
    BY <1>5, <2>1, ListWithout
  <2>3. src = RemoveAt(g[from], k0)
    BY DEF k0
  <2> HIDE DEF src
  <2>4. \A i \in 1 .. Len(g[from]) - 1 : src[i] = IF i < x + 1 THEN g[from][i] ELSE g[from][i + 1]
    BY <2>2, <2>3 DEF k0
  <2> QED
    BY <2>1, <2>2, <2>3, <2>4
<1> HIDE DEF src
<1>7. o \in [Columns -> Lists]
  <2>1. \A c \in Columns : o[c] \in Lists
    BY <1>1, <1>4, <1>6
  <2> QED
    BY <1>3, <2>1
<1>8. ASSUME NEW c \in Columns, NEW u
      PROVE  u \in ToSet(o[c]) <=> u \in DOMAIN places /\ places[u].col = c /\ u # t
  <2>1. CASE c = from
    BY <1>1, <1>4, <1>6, <2>1
  <2>2. CASE c # from
    BY <1>1, <1>2, <1>4, <2>2 DEF from
  <2> QED
    BY <2>1, <2>2
<1> QED
  BY <1>2, <1>4, <1>6, <1>7, <1>8 DEF g, o, from, x, src

\* A list numbers its Tasks from 0.
LEMMA NumberedPlaces ==
  ASSUME NEW s \in Lists, NEW c \in Columns
  PROVE  /\ DOMAIN Numbered(s, c) = ToSet(s)
         /\ \A u \in ToSet(s) : /\ Numbered(s, c)[u].col = c
                                /\ Numbered(s, c)[u].pos = IndexOf(s, u)
                                /\ Numbered(s, c)[u] \in [col : Columns, pos : Nat]
         /\ \A k \in 1 .. Len(s) : s[k] \in ToSet(s) /\ Numbered(s, c)[s[k]].pos = k - 1
<1>1. Len(s) \in Nat
  BY LenProperties DEF Lists
<1>2. \A u \in ToSet(s) : IndexOf(s, u) \in Nat
  <2> TAKE u \in ToSet(s)
  <2>1. IndexOf(s, u) \in 0 .. Len(s) - 1
    BY IndexOfElement
  <2> QED
    BY <1>1, <2>1
<1>3. \A k \in 1 .. Len(s) : s[k] \in ToSet(s) /\ IndexOf(s, s[k]) = k - 1
  BY IndexOfElement
<1>4. Numbered(s, c) = [u \in ToSet(s) |-> [col |-> c, pos |-> IndexOf(s, u)]]
  BY DEF Numbered, Place
<1> QED
  BY <1>2, <1>3, <1>4

\* New places hide the old ones.
LEMMA OverPlaces ==
  ASSUME NEW f, NEW g, DOMAIN f \in SUBSET DOMAIN g
  PROVE  /\ DOMAIN Over(f, g) = DOMAIN g
         /\ \A u \in DOMAIN g : Over(f, g)[u] = IF u \in DOMAIN f THEN f[u] ELSE g[u]
         /\ Over(f, g) = [u \in DOMAIN g |-> Over(f, g)[u]]
<1>1. DOMAIN f \cup DOMAIN g = DOMAIN g
  OBVIOUS
<1>2. Over(f, g) = [u \in DOMAIN g |-> IF u \in DOMAIN f THEN f[u] ELSE g[u]]
  BY <1>1 DEF Over
<1> QED
  BY <1>2

\* The optimistic update of the cache makes exactly one move of the board.
LEMMA PreviewIsMove ==
  ASSUME NEW places \in Caches, NEW t \in DOMAIN places, NEW c \in Columns, NEW i \in Nat
  PROVE  /\ optimisticallyMove(places, t, c, i) \in Caches
         /\ groupTasks(optimisticallyMove(places, t, c, i)) = Moved(groupTasks(places), t, c, i)
<1> DEFINE g == groupTasks(places)
           from == places[t].col
           o == Out(g, t)
           target == Spliced(o[c], i, t)
           rest == IF c = from THEN places ELSE Over(Numbered(o[from], from), places)
           p == optimisticallyMove(places, t, c, i)
<1>1. /\ from \in Columns /\ t \in ToSet(g[from])
      /\ o[from] = RemoveAt(g[from], IndexOf(g[from], t) + 1)
      /\ \A d \in Columns \ {from} : o[d] = g[d]
      /\ o \in [Columns -> Lists]
      /\ \A d \in Columns : \A u :
           u \in ToSet(o[d]) <=> u \in DOMAIN places /\ places[u].col = d /\ u # t
  BY OutOfGroups
<1>2. p = Over(Numbered(target, c), rest)
  <2>1. p = Over(Numbered(Spliced(IF c = from THEN o[from] ELSE g[c], i, t), c),
                 IF c = from THEN places ELSE Over(Numbered(o[from], from), places))
    BY <1>1 DEF optimisticallyMove
  <2>2. (IF c = from THEN o[from] ELSE g[c]) = o[c]
    BY <1>1
  <2> QED
    BY <2>1, <2>2
<1>3. DOMAIN places \in SUBSET Tasks /\ \A u \in DOMAIN places : places[u] \in [col : Columns, pos : Nat]
  BY DEF Caches
<1> HIDE DEF g, o, from, target, rest, p
<1>4. t \in Tasks /\ o[c] \in Lists /\ t \notin ToSet(o[c]) /\ o[from] \in Lists
  BY <1>1, <1>3
<1>5. target \in Lists /\ \A u : u \in ToSet(target) <=> u \in ToSet(o[c]) \/ u = t
  BY <1>4, ListWith DEF target
<1>6. /\ DOMAIN Numbered(target, c) = ToSet(target)
      /\ \A u \in ToSet(target) : /\ Numbered(target, c)[u].col = c
                                  /\ Numbered(target, c)[u] \in [col : Columns, pos : Nat]
      /\ \A k \in 1 .. Len(target) :
           target[k] \in ToSet(target) /\ Numbered(target, c)[target[k]].pos = k - 1
  BY <1>5, NumberedPlaces
<1>7. /\ DOMAIN Numbered(o[from], from) = ToSet(o[from])
      /\ \A u \in ToSet(o[from]) : /\ Numbered(o[from], from)[u].col = from
                                   /\ Numbered(o[from], from)[u] \in [col : Columns, pos : Nat]
      /\ \A k \in 1 .. Len(o[from]) :
           o[from][k] \in ToSet(o[from]) /\ Numbered(o[from], from)[o[from][k]].pos = k - 1
  BY <1>1, <1>4, NumberedPlaces
<1>8. /\ DOMAIN rest = DOMAIN places
      /\ \A u \in DOMAIN places :
           rest[u] = IF c # from /\ u \in ToSet(o[from]) THEN Numbered(o[from], from)[u] ELSE places[u]
  <2>1. DOMAIN Numbered(o[from], from) \in SUBSET DOMAIN places
    BY <1>1, <1>7
  <2> QED
    BY <1>7, <2>1, OverPlaces DEF rest
<1>9. /\ DOMAIN p = DOMAIN places
      /\ \A u \in DOMAIN places : p[u] = IF u \in ToSet(target) THEN Numbered(target, c)[u] ELSE rest[u]
      /\ p = [u \in DOMAIN places |-> p[u]]
  <2>1. DOMAIN Numbered(target, c) \in SUBSET DOMAIN rest
    BY <1>1, <1>5, <1>6, <1>8
  <2> QED
    BY <1>2, <1>6, <1>8, <2>1, OverPlaces
<1>10. p \in Caches
  <2>1. \A u \in DOMAIN places : p[u] \in [col : Columns, pos : Nat]
    BY <1>3, <1>6, <1>7, <1>8, <1>9
  <2>2. p \in [DOMAIN places -> [col : Columns, pos : Nat]]
    BY <1>9, <2>1
  <2> QED
    BY <1>3, <2>2 DEF Caches
<1>11. groupTasks(p)[c] = target
  <2>1. \A u : u \in ToSet(target) <=> u \in Within(p, c)
    BY <1>1, <1>5, <1>6, <1>7, <1>8, <1>9 DEF Within
  <2>2. \A k \in 1 .. Len(target) : p[target[k]].pos = k - 1
    BY <1>6, <1>9, <2>1 DEF Within
  <2> QED
    BY <1>5, <1>10, <2>1, <2>2, NumberedGroup
<1>12. ASSUME c # from PROVE groupTasks(p)[from] = o[from]
  <2>1. \A u \in ToSet(o[from]) : u \in DOMAIN places /\ u \notin ToSet(target)
    BY <1>1, <1>5, <1>12
  <2>2. \A u \in ToSet(o[from]) : p[u] = Numbered(o[from], from)[u]
    BY <1>8, <1>9, <1>12, <2>1
  <2>3. ASSUME NEW u, u \in Within(p, from) PROVE u \in ToSet(o[from])
    <3>1. u \in DOMAIN places /\ p[u].col = from
      BY <1>9, <2>3 DEF Within
    <3>2. u \notin ToSet(target)
      BY <1>6, <1>9, <1>12, <3>1
    <3> QED
      BY <1>1, <1>5, <1>8, <1>9, <3>1, <3>2
  <2>4. \A u : u \in ToSet(o[from]) <=> u \in Within(p, from)
    BY <1>7, <1>9, <2>1, <2>2, <2>3 DEF Within
  <2>5. \A k \in 1 .. Len(o[from]) : p[o[from][k]].pos = k - 1
    BY <1>7, <2>2
  <2> QED
    BY <1>1, <1>4, <1>10, <2>4, <2>5, NumberedGroup
<1>13. ASSUME NEW d \in Columns, d # c, d # from PROVE groupTasks(p)[d] = g[d]
  <2>1. ASSUME NEW u \in DOMAIN places, places[u].col = d PROVE p[u] = places[u]
    BY <1>1, <1>5, <1>8, <1>9, <1>13, <2>1 DEF from
  <2>2. ASSUME NEW u \in DOMAIN places, p[u].col = d PROVE p[u] = places[u]
    BY <1>1, <1>5, <1>6, <1>7, <1>8, <1>9, <1>13, <2>2
  <2>3. \A u : u \in Within(places, d) <=> u \in Within(p, d)
    BY <1>9, <2>1, <2>2 DEF Within
  <2>4. \A u \in Within(places, d) : places[u] = p[u]
    BY <2>1 DEF Within
  <2>5. groupTasks(places)[d] = groupTasks(p)[d]
    BY <1>10, <2>3, <2>4, GroupIsLocal
  <2> QED
    BY <2>5 DEF g
<1>14. ASSUME NEW d \in Columns PROVE groupTasks(p)[d] = Moved(g, t, c, i)[d]
  <2>1. Moved(g, t, c, i)[d] = IF d = c THEN target ELSE o[d]
    BY <1>1 DEF Moved, o, target
  <2> QED
    BY <1>1, <1>11, <1>12, <1>13, <2>1
<1>15. groupTasks(p) = [d \in Columns |-> groupTasks(p)[d]]
  BY DEF groupTasks
<1>16. Moved(g, t, c, i) = [d \in Columns |-> Moved(g, t, c, i)[d]]
  BY <1>1 DEF Moved, o
<1>17. groupTasks(p) = Moved(g, t, c, i)
  BY <1>14, <1>15, <1>16
<1> QED
  BY <1>10, <1>17 DEF p, g

-----------------------------------------------------------------------------
(* Where a drop lands.                                                     *)

\* A drop of Task t at index i of Column c of a board that is shown.
Shows(m, board, t, c, i) ==
  m.task = t /\ m.seen = board /\ m.shown = Moved(board, t, c, i)

\* What a moved board has in the Column that the Task came to.
LEMMA ComesTo ==
  ASSUME NEW places \in Caches, NEW t \in DOMAIN places, NEW c \in Columns, NEW i \in Nat
  PROVE  LET o == Out(groupTasks(places), t)[c]
             s == Moved(groupTasks(places), t, c, i)[c]
         IN /\ o \in Lists /\ s \in Lists /\ Len(s) = Len(o) + 1 /\ Len(o) \in Nat
            /\ IndexOf(s, t) = At(o, i)
            /\ \A k \in 0 .. At(o, i) - 1 : IndexOf(s, o[k + 1]) = k
            /\ \A k \in At(o, i) .. Len(o) - 1 : IndexOf(s, o[k + 1]) = k + 1
<1> DEFINE b == Out(groupTasks(places), t)
           o == b[c]
           s == Moved(groupTasks(places), t, c, i)[c]
           p == At(o, i)
<1>1. /\ b \in [Columns -> Lists]
      /\ \A u : u \in ToSet(o) <=> u \in DOMAIN places /\ places[u].col = c /\ u # t
  BY OutOfGroups
<1>2. o \in Lists /\ Len(o) \in Nat /\ t \notin ToSet(o) /\ t \in Tasks
  BY <1>1, LenProperties, TasksOfCache DEF Lists
<1>3. s = Spliced(o, i, t)
  BY <1>1 DEF Moved
<1>4. p \in 0 .. Len(o)
  BY <1>2 DEF At
<1> HIDE DEF b, o, s, p
<1>5. /\ s \in Lists /\ Len(s) = Len(o) + 1
      /\ \A k \in 1 .. p : s[k] = o[k]
      /\ s[p + 1] = t
      /\ \A k \in p + 2 .. Len(o) + 1 : s[k] = o[k - 1]
  BY <1>2, <1>3, ListWith DEF p
<1>6. \A k \in 1 .. Len(s) : IndexOf(s, s[k]) = k - 1
  BY <1>5, IndexOfElement
<1>7. IndexOf(s, t) = p
  <2> DEFINE j == p + 1
  <2>1. j \in 1 .. Len(s) /\ j - 1 = p /\ s[j] = t
    BY <1>2, <1>4, <1>5
  <2> HIDE DEF j
  <2> QED
    BY <1>6, <2>1
<1>8. ASSUME NEW k \in 0 .. p - 1 PROVE IndexOf(s, o[k + 1]) = k
  <2> DEFINE j == k + 1
  <2>1. j \in 1 .. Len(s) /\ j \in 1 .. p /\ j - 1 = k
    BY <1>2, <1>4, <1>5
  <2> HIDE DEF j
  <2>2. IndexOf(s, o[j]) = k
    BY <1>5, <1>6, <2>1
  <2> QED
    BY <2>2 DEF j
<1>9. ASSUME NEW k \in p .. Len(o) - 1 PROVE IndexOf(s, o[k + 1]) = k + 1
  <2> DEFINE j == k + 2
  <2>1. j \in 1 .. Len(s) /\ j \in p + 2 .. Len(o) + 1 /\ j - 1 = k + 1
    BY <1>2, <1>4, <1>5
  <2> HIDE DEF j
  <2>2. IndexOf(s, s[j]) = j - 1 /\ s[j] = o[j - 1]
    BY <1>5, <1>6, <2>1
  <2> QED
    BY <2>1, <2>2
<1> QED
  BY <1>2, <1>5, <1>7, <1>8, <1>9 DEF b, o, s, p

\* Over the part of a Column below its Tasks: it becomes the last one.  The
\* index is one too high for the server if it is the Task's own Column.
LEMMA LandsOnColumn ==
  ASSUME NEW places \in Caches, NEW t \in DOMAIN places, NEW c \in Columns,
         NEW m, m.drop = [over |-> None, half |-> "none", own |-> places[t].col = c],
         Shows(m, groupTasks(places), t, c, Len(groupTasks(places)[c]))
  PROVE  /\ Len(groupTasks(places)[c]) \in Nat
         /\ Lands(m, m.shown)
         /\ Len(groupTasks(places)[c]) <= Len(Out(groupTasks(places), t)[c]) <=> places[t].col # c
<1> DEFINE g == groupTasks(places)
           o == Out(g, t)[c]
           i == Len(g[c])
           s == Moved(g, t, c, i)[c]
<1>1. g \in [Columns -> Lists] /\ places[t].col \in Columns
  BY GroupsAreLists, TasksOfCache
<1>2. i \in Nat
  BY <1>1, LenProperties DEF Lists
<1>3. IF places[t].col = c THEN Len(o) = i - 1 ELSE o = g[c]
  BY <1>1, OutOfGroups
<1>4. /\ Len(s) = Len(o) + 1 /\ Len(o) \in Nat
      /\ IndexOf(s, t) = At(o, i)
  BY <1>2, ComesTo
<1>5. m.task = t /\ m.shown[c] = s
  BY DEF Shows
<1>6. None # t
  BY TasksAssumption, TasksOfCache
<1>7. m.drop.over = None /\ m.drop.half = "none"
  OBVIOUS
<1>8. i <= Len(o) <=> places[t].col # c
  BY <1>2, <1>3, <1>4
<1> HIDE DEF g, o, i, s
<1>9. At(o, i) = Len(o)
  BY <1>2, <1>3, <1>4 DEF At, i
<1>10. Lands(m, m.shown)
  <2>1. IndexOf(s, t) >= 0 /\ IndexOf(s, t) = Len(s) - 1
    BY <1>4, <1>9
  <2> QED
    BY <1>5, <1>6, <1>7, <2>1 DEF Lands
<1> QED
  BY <1>2, <1>8, <1>10 DEF g, o, i, s

\* The index asked for is never negative.
LEMMA IndexOverIsNat ==
  ASSUME NEW places \in Caches, NEW t \in DOMAIN places, NEW u \in DOMAIN places, NEW half \in Halves
  PROVE  IndexOver(places, t, u, half) \in Nat
<1> DEFINE g == groupTasks(places)
           c == places[u].col
           from == places[t].col
           x == IndexOf(g[from], t)
           y == IndexOf(g[c], u)
           w == y + IF half = "lower" THEN 1 ELSE 0
<1>1. /\ g \in [Columns -> Lists] /\ from \in Columns /\ c \in Columns
      /\ t \in ToSet(g[from]) /\ u \in ToSet(g[c])
  BY GroupsAreLists, TasksOfCache
<1>2. /\ x \in 0 .. Len(g[from]) - 1 /\ Len(g[from]) \in Nat
      /\ y \in 0 .. Len(g[c]) - 1 /\ Len(g[c]) \in Nat
  BY <1>1, IndexOfElement, LenProperties DEF Lists
<1>3. IndexOver(places, t, u, half) = IF half # "keyboard" /\ from = c /\ x < w THEN w - 1 ELSE w
  BY Zenon DEF IndexOver
<1> HIDE DEF g, x, y, c, from
<1>4. x \in Int /\ y \in Int /\ x >= 0 /\ y >= 0
  BY <1>2
<1> QED
  BY <1>3, <1>4

\* Over a Task: next to it, on the side of the half, or at its place by the
\* keyboard.  The gap that the dragged Task leaves above is counted.
LEMMA LandsOnTask ==
  ASSUME NEW places \in Caches, NEW t \in DOMAIN places, NEW u \in DOMAIN places, NEW half \in Halves,
         NEW m, m.drop = [over |-> u, half |-> half, own |-> places[t].col = places[u].col],
         Shows(m, groupTasks(places), t, places[u].col, IndexOver(places, t, u, half))
  PROVE  /\ Lands(m, m.shown)
         /\ IndexOver(places, t, u, half) <= Len(Out(groupTasks(places), t)[places[u].col])
<1> DEFINE g == groupTasks(places)
           c == places[u].col
           from == places[t].col
           o == Out(g, t)[c]
           x == IndexOf(g[from], t)
           y == IndexOf(g[c], u)
           i == IndexOver(places, t, u, half)
           s == Moved(g, t, c, i)[c]
           z == IF c = from /\ x < y THEN y - 1 ELSE y
<1>1. /\ g \in [Columns -> Lists] /\ from \in Columns /\ c \in Columns
      /\ t \in ToSet(g[from]) /\ u \in ToSet(g[c])
  BY GroupsAreLists, TasksOfCache
<1>2. /\ x \in 0 .. Len(g[from]) - 1 /\ g[from][x + 1] = t /\ Len(g[from]) \in Nat
      /\ y \in 0 .. Len(g[c]) - 1 /\ g[c][y + 1] = u /\ Len(g[c]) \in Nat
  BY <1>1, IndexOfElement, LenProperties DEF Lists
<1> DEFINE w == y + IF half = "lower" THEN 1 ELSE 0
<1>3. i = IF half # "keyboard" /\ from = c /\ x < w THEN w - 1 ELSE w
  BY Zenon DEF IndexOver
<1>4. /\ IF c = from
         THEN /\ Len(o) = Len(g[c]) - 1
              /\ \A k \in 1 .. Len(g[c]) - 1 : o[k] = IF k < x + 1 THEN g[c][k] ELSE g[c][k + 1]
         ELSE o = g[c]
  BY <1>1, OutOfGroups
<1>5. m.task = t /\ m.seen = g /\ m.shown[c] = s
  BY DEF Shows
<1>6. m.drop.over = u /\ m.drop.half = half
  OBVIOUS
<1>7. i \in Nat
  BY IndexOverIsNat
<1>8. /\ Len(s) = Len(o) + 1 /\ Len(o) \in Nat /\ IndexOf(s, t) = At(o, i)
      /\ \A k \in 0 .. At(o, i) - 1 : IndexOf(s, o[k + 1]) = k
      /\ \A k \in At(o, i) .. Len(o) - 1 : IndexOf(s, o[k + 1]) = k + 1
  BY <1>1, <1>7, ComesTo
<1>9. t = u => c = from /\ x = y
  OBVIOUS
<1>10. t # u /\ c = from => x # y
  BY <1>2
<1> HIDE DEF g, c, from, o, x, y, i, s
<1>11. CASE t = u
  <2>1. i = x /\ i <= Len(o)
    BY <1>2, <1>3, <1>4, <1>9, <1>11
  <2>2. IndexOf(s, t) = i
    BY <1>7, <1>8, <2>1 DEF At
  <2>3. Lands(m, m.shown)
    <3>1. IndexOf(m.seen[c], t) = i
      BY <1>5, <1>9, <1>11, <2>1 DEF x
    <3> QED
      BY <1>1, <1>5, <1>6, <1>7, <1>11, <2>2, <3>1 DEF Lands
  <2> QED
    BY <1>7, <2>1, <2>3 DEF i, o, g, c
<1>12. CASE t # u
  <2>1. z \in 0 .. Len(o) - 1 /\ o[z + 1] = u
    <3>1. x \in Int /\ y \in Int
      BY <1>2
    <3>2. CASE c # from
      BY <1>2, <1>4, <3>2
    <3>3. CASE c = from /\ x < y
      <4>1. z = y - 1 /\ z + 1 = y /\ y \in 1 .. Len(g[c]) - 1 /\ ~(y < x + 1)
        BY <1>2, <3>1, <3>3
      <4>2. o[y] = g[c][y + 1]
        BY <1>4, <3>3, <4>1
      <4> QED
        BY <1>2, <1>4, <3>1, <3>3, <4>1, <4>2
    <3>4. CASE c = from /\ ~(x < y)
      <4>1. z = y /\ x > y
        BY <1>10, <1>12, <3>1, <3>4
      <4>2. y + 1 \in 1 .. Len(g[c]) - 1 /\ y + 1 < x + 1
        BY <1>2, <3>1, <3>4, <4>1
      <4>3. o[y + 1] = g[c][y + 1]
        BY <1>4, <3>4, <4>2
      <4> QED
        BY <1>2, <1>4, <3>1, <3>4, <4>1, <4>2, <4>3
    <3> QED
      BY <3>2, <3>3, <3>4
  <2>2. z \in Int /\ x \in Int /\ y \in Int
    BY <1>2, <2>1
  <2>3. i = CASE half = "upper" -> z [] half = "lower" -> z + 1 [] half = "keyboard" -> y
    BY <1>3, <1>10, <1>12, <2>2 DEF Halves
  <2>4. i <= Len(o)
    BY <1>2, <1>4, <1>8, <2>1, <2>2, <2>3 DEF Halves
  <2>5. At(o, i) = i
    BY <1>7, <1>8, <2>4 DEF At
  <2>6. CASE half = "upper"
    <3>1. i = z /\ z \in At(o, i) .. Len(o) - 1
      BY <2>1, <2>2, <2>3, <2>5, <2>6
    <3>2. IndexOf(s, u) = i + 1 /\ IndexOf(s, t) = i
      BY <1>8, <2>1, <2>5, <3>1
    <3> QED
      BY <1>1, <1>5, <1>6, <1>7, <1>12, <2>4, <2>6, <3>2 DEF Lands, i, o, g, c
  <2>7. CASE half = "lower"
    <3>1. i = z + 1 /\ z \in 0 .. At(o, i) - 1
      BY <2>1, <2>2, <2>3, <2>5, <2>7
    <3>2. IndexOf(s, u) = i - 1 /\ IndexOf(s, t) = i
      BY <1>8, <2>1, <2>2, <2>5, <3>1
    <3> QED
      BY <1>1, <1>5, <1>6, <1>7, <1>12, <2>4, <2>7, <3>2 DEF Lands, i, o, g, c
  <2>8. CASE half = "keyboard"
    <3>1. i = y /\ IndexOf(s, t) = i
      BY <1>8, <2>3, <2>5, <2>8
    <3>2. IndexOf(m.seen[c], u) = i
      BY <1>5, <3>1 DEF y
    <3> QED
      BY <1>1, <1>5, <1>6, <1>7, <1>12, <2>4, <2>8, <3>1, <3>2 DEF Lands, i, o, g, c
  <2> QED
    BY <2>6, <2>7, <2>8 DEF Halves
<1> QED
  BY <1>11, <1>12

-----------------------------------------------------------------------------
(* The server's side of a move.                                            *)

\* The boards of the server.
Orders == [Columns -> Seq(Tasks)]

\* Task t is on a board.
On(board, t) == \E c \in Columns : t \in ToSet(board[c])

\* The requests of a browser.
Asks == [kind : {"create", "move", "remove"}, task : Tasks, col : Columns, idx : Nat]

\* The operators on sequences are the same on both sides.
LEMMA SameOperators ==
  /\ \A s : Board!ToSet(s) = ToSet(s)
  /\ \A s, k : Board!RemoveAt(s, k) = RemoveAt(s, k)
  /\ \A s, k, e : Board!InsertAt(s, k, e) = InsertAt(s, k, e)
<1>1. \A s : Board!ToSet(s) = ToSet(s)
  BY DEF ToSet, Board!ToSet
<1>2. \A s, k : Board!RemoveAt(s, k) = RemoveAt(s, k)
  BY DEF RemoveAt, Board!RemoveAt
<1>3. \A s, k, e : Board!InsertAt(s, k, e) = InsertAt(s, k, e)
  BY DEF InsertAt, Board!InsertAt
<1> QED
  BY <1>1, <1>2, <1>3

\* Taking a Task out of a board leaves a board.
LEMMA OutOfOrders ==
  ASSUME NEW board \in Orders, NEW t
  PROVE  Out(board, t) \in Orders
<1>1. ASSUME NEW c \in Columns PROVE Out(board, t)[c] \in Seq(Tasks)
  <2> DEFINE s == board[c]
             k == IndexOf(s, t) + 1
  <2>1. s \in Seq(Tasks)
    BY DEF Orders
  <2>2. Out(board, t)[c] = IF t \in ToSet(s) THEN RemoveAt(s, k) ELSE s
    BY DEF Out
  <2> HIDE DEF s
  <2>3. CASE t \in ToSet(s)
    <3>1. Len(s) \in Nat /\ DOMAIN s = 1 .. Len(s) /\ \E i \in DOMAIN s : s[i] = t
      BY <2>1, <2>3, LenProperties DEF ToSet
    <3>2. (CHOOSE i \in DOMAIN s : s[i] = t) \in 1 .. Len(s)
      BY <3>1
    <3>3. k \in 1 .. Len(s)
      BY <2>3, <3>1, <3>2 DEF IndexOf
    <3> HIDE DEF k
    <3> QED
      BY <2>1, <2>2, <2>3, <3>3, RemoveAtProperties
  <2> QED
    BY <2>1, <2>2, <2>3
<1> QED
  BY <1>1 DEF Out, Orders

\* The server takes a Task out as the browser does.
LEMMA WithoutIsOut ==
  ASSUME order \in Orders, NEW t
  PROVE  Board!Without(t) = Out(order, t)
<1>1. ASSUME NEW c \in Columns, t \in ToSet(order[c])
      PROVE  Board!Index(order[c], t) = IndexOf(order[c], t) + 1
  <2> DEFINE s == order[c]
  <2>1. s \in Seq(Tasks)
    BY DEF Orders
  <2>2. Board!Index(s, t) = (CHOOSE i \in DOMAIN s : s[i] = t)
    BY DEF Board!Index
  <2>3. IndexOf(s, t) = (CHOOSE i \in DOMAIN s : s[i] = t) - 1
    BY <1>1 DEF IndexOf
  <2>4. t \in ToSet(s)
    BY <1>1
  <2> HIDE DEF s
  <2>5. DOMAIN s = 1 .. Len(s) /\ Len(s) \in Nat /\ \E i \in DOMAIN s : s[i] = t
    BY <2>1, <2>4, LenProperties DEF ToSet
  <2>6. (CHOOSE i \in DOMAIN s : s[i] = t) \in Int
    BY <2>5
  <2>7. Board!Index(s, t) = IndexOf(s, t) + 1
    BY <2>2, <2>3, <2>6
  <2> QED
    BY <2>7 DEF s
<1>2. Board!Without(t) =
        [c \in Columns |-> IF t \in Board!ToSet(order[c])
                           THEN Board!RemoveAt(order[c], Board!Index(order[c], t)) ELSE order[c]]
  BY DEF Board!Without
<1>3. Board!Without(t) =
        [c \in Columns |-> IF t \in ToSet(order[c])
                           THEN RemoveAt(order[c], Board!Index(order[c], t)) ELSE order[c]]
  BY <1>2, SameOperators
<1> QED
  BY <1>1, <1>3 DEF Out

\* The Tasks that the server has are those on its board.
LEMMA PlacedIsOn ==
  ASSUME NEW t
  PROVE  t \in Board!Placed <=> On(order, t)
<1>1. t \in Board!Placed <=> \E c \in Columns : t \in Board!ToSet(order[c])
  BY DEF Board!Placed
<1> QED
  BY <1>1, SameOperators DEF On

\* A move that fits makes the board that Moved says.
LEMMA InsertedIsMoved ==
  ASSUME NEW board \in Orders, NEW t \in Tasks, NEW c \in Columns, NEW i \in Nat,
         i <= Len(Out(board, t)[c])
  PROVE  /\ [Out(board, t) EXCEPT ![c] = InsertAt(@, i + 1, t)] = Moved(board, t, c, i)
         /\ Moved(board, t, c, i) \in Orders
         /\ On(Moved(board, t, c, i), t)
<1> DEFINE o == Out(board, t)
           s == o[c]
           r == InsertAt(s, i + 1, t)
<1>1. o \in Orders
  BY OutOfOrders
<1>2. s \in Seq(Tasks) /\ Len(s) \in Nat /\ i <= Len(s)
  BY <1>1, LenProperties DEF Orders
<1>3. Spliced(s, i, t) = r
  <2>1. (IF i < Len(s) THEN i ELSE Len(s)) = i
    BY <1>2
  <2> QED
    BY <2>1 DEF Spliced
<1>4. [o EXCEPT ![c] = r] = Moved(board, t, c, i)
  BY <1>1, <1>3 DEF Moved, Orders
<1>5. r \in Seq(Tasks) /\ t \in ToSet(r)
  <2> DEFINE k == i + 1
  <2>1. k \in 1 .. Len(s) + 1
    BY <1>2
  <2>2. s \in Seq(Tasks)
    BY <1>2
  <2> HIDE DEF k, s
  <2>3. /\ InsertAt(s, k, t) \in Seq(Tasks) /\ Len(InsertAt(s, k, t)) = Len(s) + 1
        /\ InsertAt(s, k, t)[k] = t
    BY <2>1, <2>2, InsertAtProperties
  <2>4. DOMAIN InsertAt(s, k, t) = 1 .. Len(s) + 1
    BY <2>3, LenProperties
  <2>5. t \in ToSet(InsertAt(s, k, t))
    BY <2>1, <2>3, <2>4 DEF ToSet
  <2> QED
    BY <2>3, <2>5 DEF k, s
<1> HIDE DEF o, r, s
<1>6. [o EXCEPT ![c] = r] \in Orders /\ [o EXCEPT ![c] = r][c] = r
  BY <1>1, <1>5 DEF Orders
<1>7. Moved(board, t, c, i) \in Orders /\ On(Moved(board, t, c, i), t)
  BY <1>4, <1>5, <1>6 DEF On
<1> QED
  BY <1>4, <1>7 DEF o, r, s

\* What the server has done when it has done what request r asked for.
LEMMA TakesEffect ==
  ASSUME order \in Orders, NEW r \in {Own, Rival}, requests[r] \in Asks, Board!TakeEffect(r)
  PROVE  /\ order' \in Orders
         /\ requests' = [requests EXCEPT ![r] = Board!Nothing]
         /\ LET q == requests[r]
            IN q.kind = "move" => /\ order' = Moved(order, q.task, q.col, q.idx)
                                  /\ On(order', q.task)
<1> DEFINE q == requests[r]
<1>1. q.kind \in {"create", "move", "remove"} /\ q.task \in Tasks /\ q.col \in Columns /\ q.idx \in Nat
  BY DEF Asks
<1>2. /\ requests' = [requests EXCEPT ![r] = Board!Nothing]
      /\ \/ Board!CreateTask(r, q.task, q.col)
         \/ Board!UpdateColumn(r, q.task, q.col)
         \/ Board!MoveTask(r, q.task, q.col, q.idx)
         \/ Board!RemoveTask(r, q.task)
  BY DEF Board!TakeEffect, Board!Answer
<1>3. CASE q.kind = "create"
  <2>1. order' = [order EXCEPT ![q.col] = Append(@, q.task)]
    BY <1>2, <1>3 DEF Board!CreateTask, Board!UpdateColumn, Board!MoveTask, Board!RemoveTask
  <2>2. order[q.col] \in Seq(Tasks)
    BY <1>1 DEF Orders
  <2>3. Append(order[q.col], q.task) \in Seq(Tasks)
    BY <1>1, <2>2, AppendProperties
  <2> QED
    BY <1>2, <1>3, <2>1, <2>3 DEF Orders
<1>4. CASE q.kind = "move"
  <2>1. /\ q.idx <= Len(Board!Without(q.task)[q.col])
        /\ order' = [Board!Without(q.task) EXCEPT ![q.col] = Board!InsertAt(@, q.idx + 1, q.task)]
    BY <1>2, <1>4 DEF Board!CreateTask, Board!UpdateColumn, Board!MoveTask, Board!RemoveTask
  <2>2. Board!Without(q.task) = Out(order, q.task)
    BY WithoutIsOut
  <2>3. /\ q.idx <= Len(Out(order, q.task)[q.col])
        /\ order' = [Out(order, q.task) EXCEPT ![q.col] = InsertAt(@, q.idx + 1, q.task)]
    BY <2>1, <2>2, SameOperators
  <2> HIDE DEF q
  <2>4. order' = Moved(order, q.task, q.col, q.idx) /\ order' \in Orders /\ On(order', q.task)
    BY <1>1, <2>3, InsertedIsMoved
  <2> QED
    BY <1>2, <2>4 DEF q
<1>5. CASE q.kind = "remove"
  <2>1. order' = Board!Without(q.task)
    BY <1>2, <1>5 DEF Board!CreateTask, Board!UpdateColumn, Board!MoveTask, Board!RemoveTask
  <2> QED
    BY <1>2, <1>5, <2>1, WithoutIsOut, OutOfOrders
<1> QED
  BY <1>1, <1>3, <1>4, <1>5

\* What a fetch brings is a cache.
LEMMA PlacesAreCache ==
  ASSUME NEW board \in Orders
  PROVE  PlacesOf(board) \in Caches /\ \A t : t \in DOMAIN PlacesOf(board) <=> On(board, t)
<1> DEFINE D == UNION {ToSet(board[c]) : c \in Columns}
           col(t) == CHOOSE d \in Columns : t \in ToSet(board[d])
<1>1. PlacesOf(board) = [t \in D |-> Place(col(t), IndexOf(board[col(t)], t))]
  BY DEF PlacesOf
<1>2. \A t : t \in D <=> On(board, t)
  BY DEF On
<1>3. ASSUME NEW t \in D PROVE Place(col(t), IndexOf(board[col(t)], t)) \in [col : Columns, pos : Nat]
  <2>1. col(t) \in Columns /\ t \in ToSet(board[col(t)])
    BY <1>2, <1>3 DEF On
  <2> DEFINE s == board[col(t)]
  <2>2. s \in Seq(Tasks)
    BY <2>1 DEF Orders
  <2>3. t \in ToSet(s)
    BY <2>1
  <2> HIDE DEF s, D
  <2>4. DOMAIN s = 1 .. Len(s) /\ Len(s) \in Nat /\ \E i \in DOMAIN s : s[i] = t
    BY <2>2, <2>3, LenProperties DEF ToSet
  <2>5. IndexOf(s, t) \in Nat
    BY <2>3, <2>4 DEF IndexOf
  <2> QED
    BY <2>1, <2>5 DEF Place, s
<1>4. D \in SUBSET Tasks
  <2>1. ASSUME NEW t \in D PROVE t \in Tasks
    <3>1. PICK c \in Columns : t \in ToSet(board[c])
      BY <2>1
    <3>2. board[c] \in Seq(Tasks)
      BY DEF Orders
    <3> QED
      BY <3>1, <3>2, LenProperties, ElementOfSeq DEF ToSet
  <2> QED
    BY <2>1
<1> HIDE DEF D, col
<1>5. PlacesOf(board) \in [D -> [col : Columns, pos : Nat]]
  BY <1>1, <1>3
<1> QED
  BY <1>2, <1>4, <1>5 DEF Caches

-----------------------------------------------------------------------------
(* The inductive invariant of a board and its server.                      *)

\* The type of the state of KanbanMove.
KanbanTypeOK ==
  /\ order \in Orders /\ cache \in Caches
  /\ requests \in [{Own, Rival} -> Asks \cup {Board!Nothing}]
  /\ move.at \in {"none", "sent", "done", "refused"}
  /\ move.at # "none" => before \in Caches /\ move.task \in Tasks

\* A drop on the empty part of the Column that the Task is in.
OnOwnColumn(m) == m.drop.half = "none" /\ m.drop.own

\* While it is under way, the request asks for the move that is shown, at an
\* index that what is shown has unless it was dropped on its own Column.
RequestIsShown ==
  move.at = "sent" =>
    \E c \in Columns, i \in Nat :
      /\ requests[Own] = [kind |-> "move", task |-> move.task, col |-> c, idx |-> i]
      /\ Shows(move, move.seen, move.task, c, i)
      /\ On(move.seen, move.task)
      /\ i <= Len(Out(move.seen, move.task)[c]) <=> ~OnOwnColumn(move)

\* Once it is served, its answer is of the board that the server made.
AnswerIsMade ==
  move.at \in {"done", "refused"} =>
    /\ move.found = move.seen =>
         IF OnOwnColumn(move) THEN move.at = "refused"
         ELSE move.at = "done" /\ move.made = move.shown
    /\ move.at = "done" => move.made \in Orders /\ On(move.made, move.task)

\* What is shown has the Task where it was dropped.
ShownLands == move.at # "none" => Lands(move, move.shown)

\* The inductive invariant of a board and its server.
KanbanInv == KanbanTypeOK /\ RequestIsShown /\ AnswerIsMade /\ ShownLands

\* At first no move is under way.
LEMMA KanbanInvInit == KanbanInit => KanbanInv
<1> SUFFICES ASSUME KanbanInit PROVE KanbanInv
  OBVIOUS
<1> USE DEF KanbanInit
<1>1. order \in Orders
  <2>1. \A c \in Columns : order[c] \in SeqOf(Tasks, Cardinality(Tasks))
    BY DEF Boards
  <2>2. Cardinality(Tasks) \in Nat
    BY TasksAssumption, FS_CardinalityType
  <2>3. SeqOf(Tasks, Cardinality(Tasks)) \subseteq Seq(Tasks)
    BY <2>2 DEF SeqOf
  <2> QED
    BY <2>1, <2>3 DEF Boards, Orders
<1>2. cache \in Caches
  BY <1>1, PlacesAreCache
<1>3. requests \in [{Own, Rival} -> Asks \cup {Board!Nothing}]
  OBVIOUS
<1>4. move.at = "none"
  BY DEF NoMove
<1> QED
  BY <1>1, <1>2, <1>3, <1>4 DEF KanbanInv, KanbanTypeOK, RequestIsShown, AnswerIsMade, ShownLands

\* Of a drop it is enough to know that it lands and where it goes.
LEMMA SendMovePreserves ==
  ASSUME KanbanInv, NEW t \in DOMAIN cache, NEW c \in Columns, NEW i \in Nat, NEW drop,
         SendMove(t, c, i, drop),
         Lands(move', move'.shown),
         i <= Len(Out(groupTasks(cache), t)[c]) <=> ~(drop.half = "none" /\ drop.own)
  PROVE  KanbanInv'
<1> USE DEF KanbanInv
<1>1. cache \in Caches /\ t \in Tasks /\ order \in Orders
  BY TasksOfCache DEF KanbanTypeOK
<1>2. /\ move' = [at |-> "sent", task |-> t, drop |-> drop, seen |-> groupTasks(cache),
                  shown |-> groupTasks(optimisticallyMove(cache, t, c, i))]
      /\ before' = cache
      /\ cache' = optimisticallyMove(cache, t, c, i)
      /\ requests' = [requests EXCEPT ![Own] = [kind |-> "move", task |-> t, col |-> c, idx |-> i]]
      /\ order' = order
  BY DEF SendMove
<1>3. /\ optimisticallyMove(cache, t, c, i) \in Caches
      /\ groupTasks(optimisticallyMove(cache, t, c, i)) = Moved(groupTasks(cache), t, c, i)
  BY <1>1, PreviewIsMove
<1>4. [kind |-> "move", task |-> t, col |-> c, idx |-> i] \in Asks
  BY <1>1 DEF Asks
<1>5. requests \in [{Own, Rival} -> Asks \cup {Board!Nothing}]
  BY DEF KanbanTypeOK
<1> HIDE DEF SendMove
<1>6. KanbanTypeOK'
  BY <1>1, <1>2, <1>3, <1>4, <1>5 DEF KanbanTypeOK
<1>7. On(groupTasks(cache), t)
  <2>1. cache[t].col \in Columns /\ t \in ToSet(groupTasks(cache)[cache[t].col])
    BY <1>1, OutOfGroups
  <2> QED
    BY <2>1 DEF On
<1>8. /\ move'.at = "sent" /\ move'.task = t /\ move'.seen = groupTasks(cache)
      /\ move'.shown = Moved(groupTasks(cache), t, c, i) /\ move'.drop = drop
  BY <1>2, <1>3
<1>9. requests'[Own] = [kind |-> "move", task |-> t, col |-> c, idx |-> i]
  BY <1>2, <1>5
<1>10. RequestIsShown'
  <2>1. Shows(move', move'.seen, move'.task, c, i)
    BY <1>8 DEF Shows
  <2>2. On(move'.seen, move'.task)
    BY <1>7, <1>8
  <2>3. i <= Len(Out(move'.seen, move'.task)[c]) <=> ~OnOwnColumn(move')
    BY <1>8 DEF OnOwnColumn
  <2>4. requests'[Own] = [kind |-> "move", task |-> move'.task, col |-> c, idx |-> i]
    BY <1>8, <1>9
  <2> QED
    BY <2>1, <2>2, <2>3, <2>4 DEF RequestIsShown
<1>11. AnswerIsMade'
  BY <1>8 DEF AnswerIsMade
<1>12. ShownLands'
  BY DEF ShownLands
<1> QED
  BY <1>6, <1>10, <1>11, <1>12

\* A drop shows what it asks for.
LEMMA DropPreserves ==
  ASSUME KanbanInv, NEW t \in DOMAIN cache,
         \/ \E c \in Columns : DropOnColumn(t, c)
         \/ \E u \in DOMAIN cache, half \in Halves : DropOnTask(t, u, half)
  PROVE  KanbanInv'
<1>1. cache \in Caches
  BY DEF KanbanInv, KanbanTypeOK
<1>2. ASSUME NEW c \in Columns, DropOnColumn(t, c) PROVE KanbanInv'
  <2> DEFINE i == Len(groupTasks(cache)[c])
             drop == [over |-> None, half |-> "none", own |-> cache[t].col = c]
  <2>1. SendMove(t, c, i, drop)
    BY <1>2 DEF DropOnColumn
  <2> HIDE DEF drop
  <2>2. i \in Nat
    <3>1. groupTasks(cache)[c] \in Seq(Tasks)
      BY <1>1, GroupsAreLists DEF Lists
    <3> QED
      BY <3>1, LenProperties
  <2>3. /\ move'.task = t /\ move'.drop = drop /\ move'.seen = groupTasks(cache)
        /\ move'.shown = groupTasks(optimisticallyMove(cache, t, c, i))
    BY <2>1 DEF SendMove
  <2>4. Shows(move', groupTasks(cache), t, c, i)
    BY <1>1, <2>2, <2>3, PreviewIsMove DEF Shows
  <2>5. move'.drop = [over |-> None, half |-> "none", own |-> cache[t].col = c]
    BY <2>3 DEF drop
  <2>6. Lands(move', move'.shown) /\ (i <= Len(Out(groupTasks(cache), t)[c]) <=> cache[t].col # c)
    BY <1>1, <2>4, <2>5, LandsOnColumn
  <2>7. i <= Len(Out(groupTasks(cache), t)[c]) <=> ~(drop.half = "none" /\ drop.own)
    BY <2>6 DEF drop
  <2> HIDE DEF i
  <2> QED
    BY <2>1, <2>2, <2>6, <2>7, SendMovePreserves
<1>3. ASSUME NEW u \in DOMAIN cache, NEW half \in Halves, DropOnTask(t, u, half) PROVE KanbanInv'
  <2> DEFINE c == cache[u].col
             i == IndexOver(cache, t, u, half)
             drop == [over |-> u, half |-> half, own |-> cache[t].col = cache[u].col]
  <2>1. SendMove(t, c, i, drop)
    BY <1>3 DEF DropOnTask
  <2> HIDE DEF drop
  <2>2. c \in Columns
    BY <1>1, TasksOfCache
  <2>3. i \in Nat
    BY <1>1, IndexOverIsNat
  <2>4. /\ move'.task = t /\ move'.drop = drop /\ move'.seen = groupTasks(cache)
        /\ move'.shown = groupTasks(optimisticallyMove(cache, t, c, i))
    BY <2>1 DEF SendMove
  <2>5. Shows(move', groupTasks(cache), t, c, i)
    BY <1>1, <2>2, <2>3, <2>4, PreviewIsMove DEF Shows
  <2>6. move'.drop = [over |-> u, half |-> half, own |-> cache[t].col = cache[u].col]
    BY <2>4 DEF drop
  <2>7. Lands(move', move'.shown) /\ i <= Len(Out(groupTasks(cache), t)[c])
    BY <1>1, <2>5, <2>6, LandsOnTask
  <2>8. i <= Len(Out(groupTasks(cache), t)[c]) <=> ~(drop.half = "none" /\ drop.own)
    BY <2>7 DEF drop, Halves
  <2> HIDE DEF i, c
  <2> QED
    BY <2>1, <2>2, <2>3, <2>7, <2>8, SendMovePreserves
<1> QED
  BY <1>2, <1>3

\* The server does, or refuses, what is asked.
LEMMA ServeMovePreserves == KanbanInv /\ ServeMove => KanbanInv'
<1> SUFFICES ASSUME KanbanInv, ServeMove PROVE KanbanInv'
  OBVIOUS
<1> DEFINE q == requests[Own]
<1>1. move.at = "sent" /\ order \in Orders /\ cache \in Caches /\ before \in Caches /\ move.task \in Tasks
  BY DEF ServeMove, KanbanInv, KanbanTypeOK
<1>2. PICK c \in Columns, i \in Nat :
        /\ q = [kind |-> "move", task |-> move.task, col |-> c, idx |-> i]
        /\ Shows(move, move.seen, move.task, c, i)
        /\ On(move.seen, move.task)
        /\ i <= Len(Out(move.seen, move.task)[c]) <=> ~OnOwnColumn(move)
  BY <1>1 DEF KanbanInv, RequestIsShown
<1>3. requests \in [{Own, Rival} -> Asks \cup {Board!Nothing}] /\ q \in Asks
  <2>1. q \in Asks
    BY <1>1, <1>2 DEF Asks
  <2> QED
    BY <2>1 DEF KanbanInv, KanbanTypeOK
<1>4. /\ IF Possible(q) THEN Board!TakeEffect(Own) ELSE Board!Refuse(Own)
      /\ move' = [at |-> IF Possible(q) THEN "done" ELSE "refused", task |-> move.task,
                  drop |-> move.drop, seen |-> move.seen, shown |-> move.shown,
                  found |-> order, made |-> order']
      /\ UNCHANGED <<cache, before>>
  BY DEF ServeMove
<1>5. Possible(q) <=> On(order, move.task) /\ i <= Len(Out(order, move.task)[c])
  BY <1>1, <1>2, PlacedIsOn, WithoutIsOut DEF Possible
<1>6. ASSUME Possible(q)
      PROVE  /\ order' = Moved(order, move.task, c, i) /\ order' \in Orders /\ On(order', move.task)
             /\ requests' = [requests EXCEPT ![Own] = Board!Nothing]
  <2>1. Board!TakeEffect(Own)
    BY <1>4, <1>6
  <2>2. /\ order' \in Orders
        /\ requests' = [requests EXCEPT ![Own] = Board!Nothing]
        /\ q.kind = "move" => order' = Moved(order, q.task, q.col, q.idx) /\ On(order', q.task)
    BY <1>1, <1>3, <2>1, TakesEffect
  <2> QED
    BY <1>2, <2>2
<1>7. ASSUME ~Possible(q)
      PROVE  order' = order /\ requests' = [requests EXCEPT ![Own] = Board!Nothing]
  BY <1>4, <1>7 DEF Board!Refuse, Board!Answer
<1> HIDE DEF q
<1>8. KanbanTypeOK'
  BY <1>1, <1>3, <1>4, <1>6, <1>7 DEF KanbanTypeOK
<1>9. /\ move'.at = IF Possible(q) THEN "done" ELSE "refused"
      /\ move'.task = move.task /\ move'.drop = move.drop /\ move'.seen = move.seen
      /\ move'.shown = move.shown /\ move'.found = order /\ move'.made = order'
  BY <1>4
<1>10. AnswerIsMade'
  <2>1. OnOwnColumn(move') <=> OnOwnColumn(move)
    BY <1>9 DEF OnOwnColumn
  <2>2. ASSUME order = move.seen PROVE Possible(q) <=> ~OnOwnColumn(move)
    BY <1>2, <1>5, <2>2
  <2>3. ASSUME order = move.seen, Possible(q) PROVE order' = move.shown
    BY <1>2, <1>6, <2>3 DEF Shows
  <2> QED
    BY <1>6, <1>9, <2>1, <2>2, <2>3 DEF AnswerIsMade
<1>11. RequestIsShown'
  BY <1>9 DEF RequestIsShown
<1>12. ShownLands'
  <2>1. Lands(move, move.shown)
    BY <1>1 DEF KanbanInv, ShownLands
  <2>2. Lands(move', move'.shown)
    BY <1>9, <2>1 DEF Lands
  <2> QED
    BY <2>2 DEF ShownLands
<1> QED
  BY <1>8, <1>10, <1>11, <1>12 DEF KanbanInv

\* A step that touches neither the move nor its request.
LEMMA MoveRests ==
  ASSUME KanbanInv, KanbanTypeOK', move' = move, before' = before, requests'[Own] = requests[Own]
  PROVE  KanbanInv'
<1>1. RequestIsShown'
  BY DEF KanbanInv, RequestIsShown
<1>2. AnswerIsMade' /\ ShownLands'
  BY DEF KanbanInv, AnswerIsMade, ShownLands
<1> QED
  BY <1>1, <1>2 DEF KanbanInv

\* The invariant is kept by every step.
LEMMA KanbanInvStep == KanbanInv /\ [KanbanNext]_kanbanVars => KanbanInv'
<1> SUFFICES ASSUME KanbanInv, [KanbanNext]_kanbanVars PROVE KanbanInv'
  OBVIOUS
<1> USE RequestsAssumption
<1>0. KanbanTypeOK
  BY DEF KanbanInv
<1>1. ASSUME NEW t \in DOMAIN cache,
             \/ \E c \in Columns : DropOnColumn(t, c)
             \/ \E u \in DOMAIN cache, half \in Halves : DropOnTask(t, u, half)
      PROVE  KanbanInv'
  BY <1>1, DropPreserves
<1>2. CASE ServeMove
  BY <1>2, ServeMovePreserves
<1>3. CASE MoveSucceeds
  <2>1. /\ move.at = "done" /\ move.made \in Orders /\ On(move.made, move.task)
        /\ move' = NoMove /\ UNCHANGED <<order, requests>>
        /\ cache' = IF move.task \in DOMAIN cache
                    THEN [cache EXCEPT ![move.task] = PlacesOf(move.made)[move.task]] ELSE cache
    BY <1>3 DEF MoveSucceeds, KanbanInv, AnswerIsMade
  <2>2. PlacesOf(move.made)[move.task] \in [col : Columns, pos : Nat]
    BY <2>1, PlacesAreCache DEF Caches
  <2>3. cache' \in Caches
    BY <1>0, <2>1, <2>2 DEF KanbanTypeOK, Caches
  <2>4. move'.at = "none"
    BY <2>1 DEF NoMove
  <2> QED
    BY <1>0, <2>1, <2>3, <2>4
    DEF KanbanInv, KanbanTypeOK, RequestIsShown, AnswerIsMade, ShownLands
<1>4. CASE MoveFails
  <2>1. /\ cache' = before /\ before \in Caches /\ move' = NoMove /\ order' = order
        /\ requests' = [requests EXCEPT ![Own] = Board!Nothing]
    BY <1>0, <1>4 DEF MoveFails, KanbanTypeOK
  <2>2. move'.at = "none"
    BY <2>1 DEF NoMove
  <2> QED
    BY <1>0, <2>1, <2>2
    DEF KanbanInv, KanbanTypeOK, RequestIsShown, AnswerIsMade, ShownLands
<1>5. CASE RefetchBoard
  <2>1. cache' = PlacesOf(order) /\ UNCHANGED <<order, requests, move, before>>
    BY <1>5 DEF RefetchBoard
  <2>2. KanbanTypeOK'
    BY <1>0, <2>1, PlacesAreCache DEF KanbanTypeOK
  <2> QED
    BY <2>1, <2>2, MoveRests
<1>6. CASE RivalAsks
  <2>1. PICK act \in {"create", "move", "remove"}, t \in Tasks, c \in Columns,
             i \in 0 .. Cardinality(Tasks) :
          /\ (act = "create") = (t \notin Board!Placed)
          /\ act = "move" \/ i = 0
          /\ requests' = [requests EXCEPT ![Rival] = [kind |-> act, task |-> t, col |-> c, idx |-> i]]
    BY <1>6, Zenon DEF RivalAsks
  <2>2. [kind |-> act, task |-> t, col |-> c, idx |-> i] \in Asks
    BY DEF Asks
  <2>3. UNCHANGED <<order, cache, move, before>>
    BY <1>6 DEF RivalAsks
  <2>4. KanbanTypeOK' /\ requests'[Own] = requests[Own]
    BY <1>0, <2>1, <2>2, <2>3 DEF KanbanTypeOK
  <2> QED
    BY <2>3, <2>4, MoveRests
<1>7. CASE RivalTakesEffect
  <2>1. UNCHANGED <<cache, move, before>>
    BY <1>7 DEF RivalTakesEffect
  <2>2. /\ requests[Rival] \in Asks /\ order' \in Orders
        /\ requests' = [requests EXCEPT ![Rival] = Board!Nothing]
    <3>1. requests[Rival] # Board!Nothing /\ requests' = [requests EXCEPT ![Rival] = Board!Nothing]
      BY <1>7 DEF RivalTakesEffect, Board!TakeEffect, Board!Refuse, Board!Answer
    <3>2. requests[Rival] \in Asks
      BY <1>0, <3>1 DEF KanbanTypeOK
    <3>3. CASE Board!TakeEffect(Rival)
      BY <1>0, <3>1, <3>2, <3>3, TakesEffect DEF KanbanTypeOK
    <3>4. CASE Board!Refuse(Rival)
      BY <1>0, <3>1, <3>2, <3>4 DEF KanbanTypeOK, Board!Refuse
    <3> QED
      BY <1>7, <3>3, <3>4 DEF RivalTakesEffect
  <2>3. KanbanTypeOK' /\ requests'[Own] = requests[Own]
    BY <1>0, <2>1, <2>2 DEF KanbanTypeOK
  <2> QED
    BY <2>1, <2>3, MoveRests
<1>8. CASE UNCHANGED kanbanVars
  <2>1. UNCHANGED <<order, requests, cache, move, before>>
    BY <1>8 DEF kanbanVars
  <2>2. KanbanTypeOK'
    BY <1>0, <2>1 DEF KanbanTypeOK
  <2> QED
    BY <2>1, <2>2, MoveRests
<1> QED
  BY <1>1, <1>2, <1>3, <1>4, <1>5, <1>6, <1>7, <1>8 DEF KanbanNext

\* The inductive invariant of KanbanMove holds always: the request under way asks
\* for the move that is shown, and its answer is of the board that was made.
THEOREM KanbanInvariance == KanbanSpec => []KanbanInv
BY KanbanInvInit, KanbanInvStep, PTL DEF KanbanSpec

\* DropsLandWhereShown, for every board, every drop and every other user: the
\* index that handleDragEnd sends, the preview of optimisticallyMove and the
\* server's insertion agree.
THEOREM DropsAlwaysLandWhereShown == KanbanSpec => []DropsLandWhereShown
<1>1. KanbanInv => DropsLandWhereShown
  BY DEF KanbanInv, KanbanTypeOK, ShownLands, AnswerIsMade, OnOwnColumn, DropsLandWhereShown
<1> QED
  BY <1>1, KanbanInvariance, PTL

-----------------------------------------------------------------------------
(* The inductive invariant of a form and its draft.                        *)

\* What can be typed: some of the fields.
Texts == UNION {[D -> Values] : D \in SUBSET Fields}

\* What a form and its draft hold: what was typed over what was there.
Typed == [fields |-> [x \in Fields |-> IF x \in DOMAIN text THEN text[x] ELSE origin[x]],
          baseline |-> origin]

\* The type of the state of Drafts.
DraftsTypeOK ==
  /\ kind \in {"task", "wiki"}
  /\ row \in Rows \cup {Gone} /\ known \in Rows \cup {Gone} /\ origin \in Rows
  /\ text \in Texts /\ answeredLate \in BOOLEAN /\ failed \in BOOLEAN
  /\ save \in [at : {"none", "sent", "written", "refused"}, input : Texts, text : Texts,
               here : BOOLEAN, reply : Rows \cup {<<>>}]

\* The form and its draft hold what was typed over what was seen, and the draft
\* is there as long as something is typed, unless a late answer deleted it.
FormsHoldText ==
  /\ form \in {Closed, Typed} /\ draft \in {Closed, Typed}
  /\ \A x \in DOMAIN text : text[x] # origin[x]
  /\ text # <<>> /\ draft = Closed => answeredLate

\* A Task's request has nothing but what was typed.
InputIsTyped ==
  kind = "task" =>
    \A x \in DOMAIN save.input : x \in DOMAIN save.text /\ save.text[x] = save.input[x]

\* A request that was written is answered with the row.
WrittenHasReply == save.at = "written" => save.reply \in Rows

\* What was typed in a Task ends when the Task is known to be gone.
TextEndsWithTask == kind = "task" /\ known = Gone => text = <<>>

\* The inductive invariant of a form, its draft and its request.
DraftsInv ==
  DraftsTypeOK /\ FormsHoldText /\ InputIsTyped /\ WrittenHasReply /\ TextEndsWithTask

\* What is left of a text on some of the fields is a text.
LEMMA RestrictedText ==
  ASSUME NEW f \in Texts, NEW S
  PROVE  LET g == Restrict(f, DOMAIN f \cap S)
         IN /\ g \in Texts
            /\ DOMAIN g = DOMAIN f \cap S
            /\ \A x \in DOMAIN g : g[x] = f[x]
<1>1. PICK D \in SUBSET Fields : f \in [D -> Values]
  BY DEF Texts
<1>2. Restrict(f, DOMAIN f \cap S) \in [D \cap S -> Values]
  BY <1>1 DEF Restrict
<1> QED
  BY <1>1, <1>2 DEF Texts, Restrict

\* A text is of fields.
LEMMA TextOfFields ==
  ASSUME NEW f \in Texts
  PROVE  DOMAIN f \in SUBSET Fields /\ \A x \in DOMAIN f : f[x] \in Values
BY DEF Texts

\* There is one text of no field.
LEMMA NoText == ASSUME NEW f \in Texts, DOMAIN f = {} PROVE f = <<>>
<1>1. f \in [{} -> Values]
  BY DEF Texts
<1>2. f = [x \in {} |-> f[x]]
  BY <1>1
<1>3. <<>> = [x \in {} |-> f[x]]
  OBVIOUS
<1> QED
  BY <1>2, <1>3

\* It is the empty function.
LEMMA EmptyText == <<>> \in Texts /\ DOMAIN <<>> = {}
<1>1. <<>> \in [{} -> Values] /\ DOMAIN <<>> = {}
  OBVIOUS
<1> QED
  BY <1>1 DEF Texts

\* At first nothing is open, kept or sent.
LEMMA DraftsInvInit == DraftsInit => DraftsInv
<1> SUFFICES ASSUME DraftsInit PROVE DraftsInv
  OBVIOUS
<1> USE EmptyText DEF DraftsInit
<1>1. DraftsTypeOK
  BY DEF DraftsTypeOK, NoSave
<1>2. FormsHoldText
  BY DEF FormsHoldText
<1>3. InputIsTyped /\ WrittenHasReply /\ TextEndsWithTask
  BY DEF InputIsTyped, WrittenHasReply, TextEndsWithTask, NoSave
<1> QED
  BY <1>1, <1>2, <1>3 DEF DraftsInv

\* The user has opened a form on what the cache has, or on its draft.
LEMMA OpenFormPreserves == DraftsInv /\ OpenForm => DraftsInv'
<1> SUFFICES ASSUME DraftsInv, OpenForm PROVE DraftsInv'
  OBVIOUS
<1> USE DEF DraftsInv, OpenForm
<1>1. CASE draft # Closed
  <2>1. form' = Typed /\ UNCHANGED <<kind, row, known, failed, save, origin, text, answeredLate>>
    BY <1>1 DEF Restored, FormsHoldText
  <2>2. Typed' = Typed /\ draft' = Typed
    BY <1>1, <2>1 DEF Typed, FormsHoldText
  <2>3. FormsHoldText'
    BY <1>1, <2>1, <2>2 DEF FormsHoldText
  <2>4. DraftsTypeOK' /\ InputIsTyped' /\ WrittenHasReply' /\ TextEndsWithTask'
    BY <2>1 DEF DraftsTypeOK, InputIsTyped, WrittenHasReply, TextEndsWithTask
  <2> QED
    BY <2>3, <2>4
<1>2. CASE draft = Closed
  <2>1. /\ form' = [fields |-> known, baseline |-> known]
        /\ origin' = known /\ text' = <<>> /\ answeredLate' = FALSE
        /\ draft' \in {form', Closed}
        /\ UNCHANGED <<kind, row, known, failed, save>>
        /\ known \in Rows
    BY <1>2 DEF DraftsTypeOK, Hidden
  <2>2. known = [x \in Fields |-> known[x]]
    BY <2>1 DEF Rows
  <2>3. Typed' = [fields |-> known, baseline |-> known]
    BY <2>1, <2>2, EmptyText DEF Typed
  <2>4. FormsHoldText'
    BY <2>1, <2>3, EmptyText DEF FormsHoldText
  <2>5. DraftsTypeOK' /\ InputIsTyped' /\ WrittenHasReply' /\ TextEndsWithTask'
    BY <2>1, EmptyText DEF DraftsTypeOK, InputIsTyped, WrittenHasReply, TextEndsWithTask
  <2> QED
    BY <2>4, <2>5
<1> QED
  BY <1>1, <1>2

\* Typing changes the form and what is kept of it together.
LEMMA TypePreserves == DraftsInv /\ Type => DraftsInv'
<1> SUFFICES ASSUME DraftsInv, Type PROVE DraftsInv'
  OBVIOUS
<1> USE DEF DraftsInv
<1>1. form = Typed
  BY DEF Type, Enabled, Open, FormsHoldText
<1>2. PICK x \in Fields, v \in Values :
        /\ form' = [form EXCEPT !.fields[x] = v]
        /\ text' = IF v = origin[x] THEN Restrict(text, DOMAIN text \ {x})
                   ELSE [y \in DOMAIN text \cup {x} |-> IF y = x THEN v ELSE text[y]]
  BY DEF Type
<1>3. /\ draft' = Kept(form') /\ answeredLate' = FALSE /\ UNCHANGED <<kind, row, known, failed, save, origin>>
  BY DEF Type
<1>4. origin \in Rows /\ text \in Texts
  BY DEF DraftsTypeOK
<1>5. DOMAIN text \in SUBSET Fields /\ \A y \in DOMAIN text : text[y] \in Values
  BY <1>4, TextOfFields
<1>6. /\ text' \in Texts
      /\ \A y \in Fields :
           (IF y \in DOMAIN text' THEN text'[y] ELSE origin[y]) =
             IF y = x THEN v ELSE IF y \in DOMAIN text THEN text[y] ELSE origin[y]
      /\ \A y \in DOMAIN text' : text'[y] # origin[y]
  <2>1. CASE v = origin[x]
    <3>1. DOMAIN text \ {x} = DOMAIN text \cap (Fields \ {x})
      BY <1>5
    <3>2. /\ text' \in Texts
          /\ DOMAIN text' = DOMAIN text \ {x}
          /\ \A y \in DOMAIN text' : text'[y] = text[y]
      <4>1. text' = Restrict(text, DOMAIN text \cap (Fields \ {x}))
        BY <1>2, <2>1, <3>1
      <4> QED
        BY <1>4, <3>1, <4>1, RestrictedText
    <3> QED
      BY <1>5, <2>1, <3>2 DEF FormsHoldText
  <2>2. CASE v # origin[x]
    <3>1. text' = [y \in DOMAIN text \cup {x} |-> IF y = x THEN v ELSE text[y]]
      BY <1>2, <2>2
    <3>2. text' \in [DOMAIN text \cup {x} -> Values] /\ DOMAIN text \cup {x} \in SUBSET Fields
      BY <1>5, <3>1
    <3>3. text' \in Texts
      BY <3>2 DEF Texts
    <3> QED
      BY <2>2, <3>1, <3>3 DEF FormsHoldText
  <2> QED
    BY <2>1, <2>2
<1>7. form' = [fields |-> [y \in Fields |-> IF y = x THEN v
                                             ELSE IF y \in DOMAIN text THEN text[y] ELSE origin[y]],
               baseline |-> origin]
  BY <1>1, <1>2 DEF Typed
<1>8. form' = Typed'
  BY <1>3, <1>6, <1>7 DEF Typed
<1>9. ASSUME text' # <<>> PROVE draft' # Closed
  <2>1. PICK y \in DOMAIN text' : TRUE
    BY <1>6, <1>9, NoText
  <2>2. y \in Fields /\ text'[y] # origin[y]
    BY <1>6, <2>1, TextOfFields
  <2>3. form'.fields[y] # form'.baseline[y]
    BY <1>3, <1>8, <2>1, <2>2 DEF Typed
  <2>4. Edited(form') /\ form' # Closed
    BY <2>2, <2>3, <1>8, EmptyText DEF Edited, Closed, Typed
  <2> QED
    BY <1>3, <2>4 DEF Kept
<1>10. FormsHoldText'
  BY <1>3, <1>6, <1>8, <1>9 DEF FormsHoldText, Kept
<1>11. TextEndsWithTask'
  BY <1>3 DEF Type, Enabled, Hidden, TextEndsWithTask
<1>12. DraftsTypeOK' /\ InputIsTyped' /\ WrittenHasReply'
  BY <1>3, <1>6 DEF DraftsTypeOK, InputIsTyped, WrittenHasReply
<1> QED
  BY <1>10, <1>11, <1>12

\* A request is made of what was typed.
LEMMA SavePreserves == DraftsInv /\ Save => DraftsInv'
<1> SUFFICES ASSUME DraftsInv, Save PROVE DraftsInv'
  OBVIOUS
<1> USE DEF DraftsInv, Save
<1>1. form = Typed
  BY DEF Enabled, Open, FormsHoldText
<1>2. UNCHANGED <<kind, row, known, failed, form, draft, origin, text, answeredLate>>
  OBVIOUS
<1>3. FormsHoldText'
  <2>1. Typed' = Typed
    BY <1>2 DEF Typed
  <2> QED
    BY <1>2, <2>1 DEF FormsHoldText
<1> DEFINE S == {x \in Fields : kind = "wiki" \/ form.fields[x] # form.baseline[x]}
<1>4. Input(form) = [x \in S |-> form.fields[x]]
  BY DEF Input, Restrict
<1>5. text \in Texts /\ origin \in Rows
  BY DEF DraftsTypeOK
<1>6. \A x \in Fields : form.fields[x] = IF x \in DOMAIN text THEN text[x] ELSE origin[x]
  BY <1>1 DEF Typed
<1>7. Input(form) \in [S -> Values]
  BY <1>4, <1>5, <1>6, TextOfFields DEF Rows
<1>8. Input(form) \in Texts
  BY <1>7 DEF Texts
<1>9. DraftsTypeOK'
  BY <1>2, <1>8 DEF DraftsTypeOK
<1>10. ASSUME kind = "task", NEW x \in DOMAIN Input(form)
       PROVE  x \in DOMAIN text /\ text[x] = Input(form)[x]
  <2>1. x \in Fields /\ form.fields[x] # form.baseline[x] /\ Input(form)[x] = form.fields[x]
    BY <1>4, <1>10
  <2>2. form.baseline = origin
    BY <1>1 DEF Typed
  <2> QED
    BY <1>6, <2>1, <2>2
<1>11. InputIsTyped'
  BY <1>2, <1>10 DEF InputIsTyped
<1>12. WrittenHasReply' /\ TextEndsWithTask'
  BY <1>2 DEF WrittenHasReply, TextEndsWithTask
<1> QED
  BY <1>3, <1>9, <1>11, <1>12

\* The server writes the row and answers with it.
LEMMA WriteRowPreserves == DraftsInv /\ WriteRow => DraftsInv'
<1> SUFFICES ASSUME DraftsInv, WriteRow PROVE DraftsInv'
  OBVIOUS
<1> USE DEF DraftsInv, WriteRow
<1>1. FormsHoldText'
  BY DEF FormsHoldText, Typed
<1>2. CASE row = Gone
  <2>1. row' = row /\ save' = [save EXCEPT !.at = "refused"]
    BY <1>2
  <2> QED
    BY <1>1, <2>1 DEF DraftsTypeOK, InputIsTyped, WrittenHasReply, TextEndsWithTask
<1>3. CASE row # Gone
  <2>1. /\ row' = [x \in Fields |-> IF x \in DOMAIN save.input THEN save.input[x] ELSE row[x]]
        /\ save' = [save EXCEPT !.at = "written", !.reply = row']
    BY <1>3
  <2>2. save.input \in Texts /\ row \in Rows
    BY <1>3 DEF DraftsTypeOK
  <2>3. row' \in Rows
    BY <2>1, <2>2, TextOfFields DEF Rows
  <2>4. DraftsTypeOK'
    BY <2>1, <2>3 DEF DraftsTypeOK
  <2>5. InputIsTyped' /\ WrittenHasReply' /\ TextEndsWithTask'
    BY <2>1, <2>3 DEF DraftsTypeOK, InputIsTyped, WrittenHasReply, TextEndsWithTask
  <2> QED
    BY <1>1, <2>4, <2>5
<1> QED
  BY <1>2, <1>3

\* onSuccess deletes the draft, and the form if it is still the same.
LEMMA SavedPreserves == DraftsInv /\ Saved => DraftsInv'
<1> SUFFICES ASSUME DraftsInv, Saved PROVE DraftsInv'
  OBVIOUS
<1> USE DEF DraftsInv, Saved
<1>1. text \in Texts
  BY DEF DraftsTypeOK
<1>2. Newer \in Texts /\ \A x \in DOMAIN Newer : x \in DOMAIN text /\ Newer[x] = text[x]
  <2> DEFINE S == {x \in DOMAIN text : x \notin DOMAIN save.text \/ save.text[x] # text[x]}
  <2>1. S = DOMAIN text \cap S
    OBVIOUS
  <2>2. Newer = Restrict(text, DOMAIN text \cap S)
    BY <2>1 DEF Newer
  <2> HIDE DEF S
  <2> QED
    BY <1>1, <2>2, RestrictedText
<1>3. text' \in Texts /\ \A x \in DOMAIN text' : text'[x] # origin'[x]
  BY <1>1, <1>2 DEF FormsHoldText
<1>4. form' \in {Closed, Typed'}
  <2>1. CASE Open /\ ~save.here
    <3>1. UNCHANGED <<text, origin, form>>
      BY <2>1
    <3> QED
      BY <3>1 DEF FormsHoldText, Typed
  <2>2. CASE ~(Open /\ ~save.here)
    BY <2>2 DEF Open
  <2> QED
    BY <2>1, <2>2
<1>5. FormsHoldText'
  BY <1>3, <1>4 DEF FormsHoldText
<1>6. DraftsTypeOK'
  BY <1>3, EmptyText DEF DraftsTypeOK, WrittenHasReply, NoSave
<1>7. InputIsTyped' /\ WrittenHasReply'
  BY EmptyText DEF InputIsTyped, WrittenHasReply, NoSave
<1>8. TextEndsWithTask'
  <2>1. known' \in Rows
    BY DEF WrittenHasReply
  <2> QED
    BY <2>1, GoneAssumption DEF Rows, TextEndsWithTask
<1> QED
  BY <1>5, <1>6, <1>7, <1>8

\* The invariant is kept by every step.
LEMMA DraftsInvStep == DraftsInv /\ [DraftsNext]_draftVars => DraftsInv'
<1> SUFFICES ASSUME DraftsInv, [DraftsNext]_draftVars PROVE DraftsInv'
  OBVIOUS
<1> USE DEF DraftsInv
<1>1. CASE OtherWrites
  <2>1. row' \in Rows /\ UNCHANGED <<kind, known, failed, form, draft, save, origin, text, answeredLate>>
    BY <1>1 DEF OtherWrites, DraftsTypeOK, Rows
  <2> QED
    BY <2>1 DEF DraftsTypeOK, FormsHoldText, InputIsTyped, WrittenHasReply, TextEndsWithTask, Typed
<1>2. CASE OtherRemoves
  BY <1>2 DEF OtherRemoves, DraftsTypeOK, FormsHoldText, InputIsTyped, WrittenHasReply,
              TextEndsWithTask, Typed
<1>3. CASE RefetchRow
  <2>1. DraftsTypeOK'
    BY <1>3, EmptyText DEF RefetchRow, DraftsTypeOK
  <2>2. InputIsTyped' /\ WrittenHasReply' /\ TextEndsWithTask'
    BY <1>3 DEF RefetchRow, DraftsTypeOK, InputIsTyped, WrittenHasReply, TextEndsWithTask
  <2>3. FormsHoldText'
    BY <1>3, EmptyText DEF RefetchRow, DraftAfterError, FormsHoldText, Typed
  <2> QED
    BY <2>1, <2>2, <2>3
<1>4. CASE RefetchFails
  <2>1. draft' = draft /\ UNCHANGED <<kind, row, known, origin, text, answeredLate>>
    BY <1>4 DEF RefetchFails, DraftAfterError
  <2>2. form' \in {form, Closed} /\ failed' \in BOOLEAN /\ save' \in {save, [save EXCEPT !.here = FALSE]}
    BY <1>4 DEF RefetchFails
  <2>3. /\ DraftsTypeOK' /\ save'.at = save.at /\ save'.input = save.input
        /\ save'.text = save.text /\ save'.reply = save.reply
    BY <2>1, <2>2 DEF DraftsTypeOK
  <2>4. InputIsTyped' /\ WrittenHasReply' /\ TextEndsWithTask'
    BY <2>1, <2>3 DEF InputIsTyped, WrittenHasReply, TextEndsWithTask
  <2> QED
    BY <2>1, <2>2, <2>3, <2>4 DEF FormsHoldText, Typed
<1>5. CASE OpenForm
  BY <1>5, OpenFormPreserves
<1>6. CASE Type
  BY <1>6, TypePreserves
<1>7. CASE LeavePage
  <2>1. DraftsTypeOK' /\ InputIsTyped' /\ WrittenHasReply' /\ TextEndsWithTask'
    BY <1>7 DEF LeavePage, DraftsTypeOK, InputIsTyped, WrittenHasReply, TextEndsWithTask
  <2> QED
    BY <1>7, <2>1 DEF LeavePage, FormsHoldText, Typed
<1>8. CASE DiscardEdits
  <2>1. DraftsTypeOK' /\ InputIsTyped' /\ WrittenHasReply' /\ TextEndsWithTask'
    BY <1>8, EmptyText DEF DiscardEdits, DraftsTypeOK, InputIsTyped, WrittenHasReply, TextEndsWithTask
  <2> QED
    BY <1>8, <2>1, EmptyText DEF DiscardEdits, FormsHoldText
<1>9. CASE Save
  BY <1>9, SavePreserves
<1>10. CASE WriteRow
  BY <1>10, WriteRowPreserves
<1>11. CASE Saved
  BY <1>11, SavedPreserves
<1>12. CASE NotSaved
  <2>1. save' = NoSave /\ UNCHANGED <<kind, row, known, failed, form, draft, origin, text, answeredLate>>
    BY <1>12 DEF NotSaved
  <2>2. DraftsTypeOK' /\ InputIsTyped' /\ WrittenHasReply' /\ TextEndsWithTask'
    BY <2>1, EmptyText DEF NoSave, DraftsTypeOK, InputIsTyped, WrittenHasReply, TextEndsWithTask
  <2> QED
    BY <2>1, <2>2 DEF FormsHoldText, Typed
<1>13. CASE UNCHANGED draftVars
  BY <1>13 DEF draftVars, DraftsTypeOK, FormsHoldText, InputIsTyped, WrittenHasReply,
               TextEndsWithTask, Typed
<1> QED
  BY <1>1, <1>2, <1>3, <1>4, <1>5, <1>6, <1>7, <1>8, <1>9, <1>10, <1>11, <1>12, <1>13 DEF DraftsNext

\* The inductive invariant of Drafts holds always: whatever others write, however
\* fetches end and wherever the user goes, form and draft each hold exactly what
\* was typed or nothing, and the draft is there, but for answeredLate.
THEOREM DraftsInvariance == DraftsSpec => []DraftsInv
BY DraftsInvInit, DraftsInvStep, PTL DEF DraftsSpec

\* What was typed and not saved is in the form, or in the draft behind it, of a
\* row that is not known to be gone.
LEMMA InvKeepsDrafts == DraftsInv => DraftsSurvive
<1> SUFFICES ASSUME DraftsInv, text # <<>>, ~answeredLate, ~Withheld
             PROVE  known # Gone /\ (Holds(form) \/ (~Open /\ Holds(draft)))
  BY DEF DraftsSurvive
<1>1. draft = Typed /\ draft # Closed /\ form \in {Closed, Typed}
  BY DEF DraftsInv, FormsHoldText
<1>2. \A x \in DOMAIN text : Typed.fields[x] = text[x]
  BY TextOfFields DEF DraftsInv, DraftsTypeOK, Typed
<1>3. known # Gone
  BY DEF Withheld, DraftsInv, DraftsTypeOK, TextEndsWithTask
<1> QED
  BY <1>1, <1>2, <1>3 DEF Holds, Open

\* A step that writes a Task for this form writes only what was typed in it.
LEMMA OnlyTypedIsWritten == DraftsInv /\ [DraftsNext]_draftVars => OthersKept
<1> SUFFICES ASSUME DraftsInv, [DraftsNext]_draftVars, kind = "task",
                    save.at = "sent", save'.at = "written",
                    NEW x \in Fields, row'[x] # row[x]
             PROVE  x \in DOMAIN save.text /\ save.text[x] = row'[x]
  BY DEF OthersKept
<1>1. WriteRow
  <2>1. save \in [at : {"none", "sent", "written", "refused"}, input : Texts, text : Texts,
                  here : BOOLEAN, reply : Rows \cup {<<>>}]
    BY DEF DraftsInv, DraftsTypeOK
  <2> QED
    BY <2>1 DEF DraftsNext, draftVars, OtherWrites, OtherRemoves, RefetchRow, RefetchFails,
      OpenForm, Type, LeavePage, DiscardEdits, Save, Saved, NotSaved, NoSave
<1>2. row'[x] = IF x \in DOMAIN save.input THEN save.input[x] ELSE row[x]
  BY <1>1 DEF WriteRow, DraftsInv, DraftsTypeOK
<1> QED
  BY <1>2 DEF DraftsInv, InputIsTyped

\* EditsAreKept: what was typed and neither saved nor discarded stays in the form
\* or in the draft that brings it back, through navigation, fetches that succeed
\* or fail, refused saves and the writes of others, as long as the browser does
\* not know the row to be deleted (a page's editor is then withheld, a Task's
\* text ends) and no late answer has deleted the draft; and a save of a Task
\* overwrites no field that was not edited.
THEOREM EditsAreKeptAlways == DraftsSpec => EditsAreKept
<1> QED
  BY InvKeepsDrafts, OnlyTypedIsWritten, DraftsInvariance, PTL DEF EditsAreKept, DraftsSpec
=============================================================================
