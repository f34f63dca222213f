------------------------------ MODULE Realtime ------------------------------
(***************************************************************************)
(* RealtimeGateway: the rooms of the authenticated sockets, their          *)
(* subscriptions to Projects, and the delivery of events to the rooms,     *)
(* with the memberships and sessions that they are checked against.        *)
(*                                                                         *)
(* Every await is a boundary between two steps: what a handler has read    *)
(* before it may be out of date after it.  The handling of one event or    *)
(* reauthorization looks each socket up concurrently, on its own.          *)
(***************************************************************************)
EXTENDS Naturals, FiniteSets

CONSTANTS
  Users,
  Projects,              \* the Projects of one Organization
  Sockets,
  UserOf,                \* UserOf[s]: the user of the session cookie of s
  Subscribes,            \* the project:subscribe handlers that can be running
  Publications,          \* the events and reauthorizations being delivered
  Limit,                 \* the Project subscriptions of a socket, 20
  NoSocket               \* of a handler that is not running

ASSUME UserOfAssumption == UserOf \in [Sockets -> Users]

ASSUME LimitAssumption == Limit \in Nat

ASSUME NoSocketAssumption == NoSocket \notin Sockets

VARIABLES
  members,               \* the members of the Organization
  explicit,              \* <<u, p>>: u is an explicit member of Project p
  sessions,              \* the sockets whose cookie names an active session
  rooms,                 \* rooms[s]: the rooms of s; {} when not connected
  wanted,                \* wanted[s]: the Projects s has asked to be subscribed to
  handler,               \* handler[h]: a project:subscribe handler
  publication,           \* publication[k]: an event being delivered
  due                    \* the Projects to reauthorize after a commit

access == <<members, explicit, due>>

vars == <<members, explicit, sessions, rooms, wanted, handler, publication, due>>

\* Socket.IO puts a socket in a room of its own, and authenticate in its user's.
OwnRooms == {"self", "user"}

\* projectRoom and userRoom: names with prefixes of their own.
ASSUME RoomsAssumption == OwnRooms \cap Projects = {}

Kinds == {"project:event", "notification:event", "reauthorize"}

\* What remains to be done for a socket: look its session up, look its access
\* up, emit, or leave the room because of what a lookup said or because it
\* failed; or what has been done.
Stages == {"session", "access", "emit", "refused", "error", "out", "kept", "sent", "left"}

Done == {"out", "kept", "sent", "left"}

Idle == [socket |-> NoSocket, project |-> "none", pc |-> "idle"]

Quiet == [kind |-> "none", room |-> "none", stage |-> [s \in Sockets |-> "out"]]

Connected(s) == rooms[s] # {}

\* assertProjectAccess
HasAccess(u, p) == u \in members \/ <<u, p>> \in explicit

-----------------------------------------------------------------------------
(* Connections and sessions.                                               *)

Busy(s) ==
  \/ \E h \in Subscribes : handler[h].socket = s
  \/ \E k \in Publications : publication[k].stage[s] \notin Done

\* authenticate; every connection has a new socket id.
Connect(s) ==
  /\ ~ Connected(s) /\ ~ Busy(s)
  /\ sessions' = sessions \cup {s}
  /\ rooms' = [rooms EXCEPT ![s] = OwnRooms]
  /\ UNCHANGED <<access, wanted, handler, publication>>

Disconnect(s) ==
  /\ Connected(s)
  /\ rooms' = [rooms EXCEPT ![s] = {}]
  /\ wanted' = [wanted EXCEPT ![s] = {}]
  /\ UNCHANGED <<access, sessions, handler, publication>>

\* Signing out elsewhere, expiry.
EndSession(s) ==
  /\ s \in sessions
  /\ sessions' = sessions \ {s}
  /\ UNCHANGED <<access, rooms, wanted, handler, publication>>

-----------------------------------------------------------------------------
(* project:subscribe and project:unsubscribe.                              *)

WithinLimit(s, p) == p \in rooms[s] \/ Cardinality(rooms[s]) < Limit + 1

\* The part of subscribe before the first await.
Subscribe(h, s, p) ==
  /\ handler[h] = Idle /\ Connected(s) /\ p \notin wanted[s]
  /\ wanted' = [wanted EXCEPT ![s] = @ \cup {p}]
  /\ handler' = IF WithinLimit(s, p)
                THEN [handler EXCEPT ![h] = [socket |-> s, project |-> p, pc |-> "access"]]
                ELSE handler
  /\ UNCHANGED <<access, sessions, rooms, publication>>

\* The lookup can also fail, which is answered like a refusal.
AuthorizeSubscribe(h) ==
  /\ handler[h].pc = "access"
  /\ \/ /\ HasAccess(UserOf[handler[h].socket], handler[h].project)
        /\ handler' = [handler EXCEPT ![h].pc = "join"]
     \/ handler' = [handler EXCEPT ![h] = Idle]
  /\ UNCHANGED <<access, sessions, rooms, wanted, publication>>

\* Mutant: a socket that has disconnected is put in the room all the same.
JoinAlways(h) ==
  /\ handler[h].pc = "join"
  /\ rooms' = [rooms EXCEPT ![handler[h].socket] = @ \cup {handler[h].project}]
  /\ handler' = [handler EXCEPT ![h] = Idle]
  /\ UNCHANGED <<access, sessions, wanted, publication>>

\* join does nothing on a socket that has disconnected.
Join(h) ==
  /\ handler[h].pc = "join"
  /\ LET s == handler[h].socket
     IN  rooms' = IF Connected(s)
                  THEN [rooms EXCEPT ![s] = @ \cup {handler[h].project}]
                  ELSE rooms
  /\ handler' = [handler EXCEPT ![h] = Idle]
  /\ UNCHANGED <<access, sessions, wanted, publication>>

Unsubscribe(s, p) ==
  /\ Connected(s) /\ p \in wanted[s]
  /\ wanted' = [wanted EXCEPT ![s] = @ \ {p}]
  /\ rooms' = [rooms EXCEPT ![s] = @ \ {p}]
  /\ UNCHANGED <<access, sessions, handler, publication>>

-----------------------------------------------------------------------------
(* publish, publishNotification and reauthorizeProject.                    *)

\* fetchSockets, and one lookup for each socket it returns.
Fetch(k, kind, room, recipients) ==
  /\ publication[k] = Quiet
  /\ publication' = [publication EXCEPT ![k] =
       [kind |-> kind, room |-> room,
        stage |-> [s \in Sockets |-> IF s \in recipients THEN "session" ELSE "out"]]]
  /\ UNCHANGED <<members, explicit, sessions, rooms, wanted, handler>>

InRoom(room) == {s \in Sockets : room \in rooms[s]}

Publish(k, p) == Fetch(k, "project:event", p, InRoom(p)) /\ UNCHANGED due

PublishNotification(k, u) ==
  /\ Fetch(k, "notification:event", "user", {s \in InRoom("user") : UserOf[s] = u})
  /\ UNCHANGED due

Reauthorize(k, p) ==
  /\ p \in due /\ due' = due \ {p}
  /\ Fetch(k, "reauthorize", p, InRoom(p))

Becomes(k, s, stage) ==
  /\ publication' = [publication EXCEPT ![k].stage[s] = stage]
  /\ UNCHANGED <<access, sessions, wanted, handler>>

\* Mutant: access is not looked up for events.
CheckSessionOnly(k, s) ==
  /\ publication[k].stage[s] = "session"
  /\ \/ s \in sessions
        /\ Becomes(k, s, IF publication[k].kind = "reauthorize" THEN "access" ELSE "emit")
     \/ s \notin sessions /\ Becomes(k, s, "refused")
     \/ Becomes(k, s, "error")
  /\ UNCHANGED rooms

\* hasActiveSession
CheckSession(k, s) ==
  /\ publication[k].stage[s] = "session"
  /\ \/ s \in sessions
        /\ Becomes(k, s, IF publication[k].kind = "notification:event" THEN "emit" ELSE "access")
     \/ s \notin sessions /\ Becomes(k, s, "refused")
     \/ Becomes(k, s, "error")
  /\ UNCHANGED rooms

\* Mutant: only an explicit membership gives access.
CheckExplicitAccess(k, s) ==
  /\ publication[k].stage[s] = "access"
  /\ LET explicitly == <<UserOf[s], publication[k].room>> \in explicit
     IN  \/ /\ explicitly
            /\ Becomes(k, s, IF publication[k].kind = "reauthorize" THEN "kept" ELSE "emit")
         \/ ~ explicitly /\ Becomes(k, s, "refused")
         \/ Becomes(k, s, "error")
  /\ UNCHANGED rooms

CheckAccess(k, s) ==
  /\ publication[k].stage[s] = "access"
  /\ \/ HasAccess(UserOf[s], publication[k].room)
        /\ Becomes(k, s, IF publication[k].kind = "reauthorize" THEN "kept" ELSE "emit")
     \/ ~ HasAccess(UserOf[s], publication[k].room) /\ Becomes(k, s, "refused")
     \/ Becomes(k, s, "error")
  /\ UNCHANGED rooms

Emit(k, s) ==
  /\ publication[k].stage[s] = "emit"
  /\ Becomes(k, s, IF Connected(s) THEN "sent" ELSE "kept")
  /\ UNCHANGED rooms

\* Mutant: the socket is told, and stays in the room.
LeaveNot(k, s) ==
  /\ publication[k].stage[s] \in {"refused", "error"}
  /\ Becomes(k, s, "left")
  /\ UNCHANGED rooms

Leave(k, s) ==
  /\ publication[k].stage[s] \in {"refused", "error"}
  /\ rooms' = [rooms EXCEPT ![s] = @ \ {publication[k].room}]
  /\ Becomes(k, s, "left")

Settle(k) ==
  /\ publication[k] # Quiet
  /\ \A s \in Sockets : publication[k].stage[s] \in Done
  /\ publication' = [publication EXCEPT ![k] = Quiet]
  /\ UNCHANGED <<access, sessions, rooms, wanted, handler>>

-----------------------------------------------------------------------------
(* The commits that change who has access.                                 *)

AddMember(u) ==
  /\ u \notin members /\ members' = members \cup {u}
  /\ UNCHANGED <<explicit, due, sessions, rooms, wanted, handler, publication>>

AddProjectMember(u, p) ==
  /\ u \in members /\ <<u, p>> \notin explicit
  /\ explicit' = explicit \cup {<<u, p>>}
  /\ UNCHANGED <<members, due, sessions, rooms, wanted, handler, publication>>

\* Mutant: only the Projects that u was an explicit member of.
RemoveMemberOfExplicit(u) ==
  /\ u \in members /\ members' = members \ {u}
  /\ due' = due \cup {p \in Projects : <<u, p>> \in explicit}
  /\ UNCHANGED <<explicit, sessions, rooms, wanted, handler, publication>>

\* The OrganizationsController reauthorizes every Project that was listed.
RemoveMember(u) ==
  /\ u \in members /\ members' = members \ {u}
  /\ due' = Projects
  /\ UNCHANGED <<explicit, sessions, rooms, wanted, handler, publication>>

RemoveProjectMember(u, p) ==
  /\ <<u, p>> \in explicit /\ explicit' = explicit \ {<<u, p>>}
  /\ due' = due \cup {p}
  /\ UNCHANGED <<members, sessions, rooms, wanted, handler, publication>>

-----------------------------------------------------------------------------
Init ==
  /\ members \in SUBSET Users /\ explicit = {}
  /\ sessions = {}
  /\ rooms = [s \in Sockets |-> {}]
  /\ wanted = [s \in Sockets |-> {}]
  /\ handler = [h \in Subscribes |-> Idle]
  /\ publication = [k \in Publications |-> Quiet]
  /\ due = {}

Handle(k) ==
  \/ \E s \in Sockets : CheckSession(k, s) \/ CheckAccess(k, s) \/ Emit(k, s) \/ Leave(k, s)
  \/ Settle(k)

Next ==
  \/ \E s \in Sockets : Connect(s) \/ Disconnect(s) \/ EndSession(s)
  \/ \E s \in Sockets, p \in Projects :
       Unsubscribe(s, p) \/ \E h \in Subscribes : Subscribe(h, s, p)
  \/ \E h \in Subscribes : AuthorizeSubscribe(h) \/ Join(h)
  \/ \E k \in Publications, p \in Projects : Publish(k, p) \/ Reauthorize(k, p)
  \/ \E k \in Publications, u \in Users : PublishNotification(k, u)
  \/ \E k \in Publications : Handle(k)
  \/ \E u \in Users : AddMember(u) \/ RemoveMember(u)
  \/ \E u \in Users, p \in Projects : AddProjectMember(u, p) \/ RemoveProjectMember(u, p)

\* Every lookup is answered, with a result or a failure, and no
\* reauthorization waits for others for ever: as many as there are run at once.
Fairness ==
  /\ \A k \in Publications : WF_vars(Handle(k))
  /\ \A p \in Projects : SF_vars(\E k \in Publications : Reauthorize(k, p))

Spec == Init /\ [][Next]_vars

FairSpec == Spec /\ Fairness

-----------------------------------------------------------------------------
TypeOK ==
  /\ members \subseteq Users /\ explicit \subseteq Users \X Projects
  /\ sessions \subseteq Sockets /\ due \subseteq Projects
  /\ rooms \in [Sockets -> SUBSET (OwnRooms \cup Projects)]
  /\ wanted \in [Sockets -> SUBSET Projects]
  /\ \A s \in Sockets : Connected(s) => "self" \in rooms[s]
  /\ handler \in [Subscribes ->
       {Idle} \cup [socket : Sockets, project : Projects, pc : {"access", "join"}]]
  /\ publication \in [Publications ->
       {Quiet} \cup [kind : Kinds, room : Projects \cup {"user"}, stage : [Sockets -> Stages]]]

\* A socket is limited to Limit simultaneous Project subscriptions
\* (docs/realtime.md, Architecture).
SubscriptionLimit ==
  \A s \in Sockets : Cardinality(rooms[s] \cap Projects) <= Limit

\* Leaving the Project releases the subscription (docs/realtime.md, Frontend
\* reconciliation): when no handler of a socket is running any more, it is in
\* no room that it has asked to leave.
LeavingReleases ==
  \A s \in Sockets :
    (\A h \in Subscribes : handler[h].socket # s) => rooms[s] \cap Projects \subseteq wanted[s]

\* A reauthorization that will still look socket s up in the room of p.
Pending(s, p) ==
  \/ p \in due
  \/ \E k \in Publications :
       /\ publication[k].kind = "reauthorize" /\ publication[k].room = p
       /\ publication[k].stage[s] \notin Done

Strangers == {x \in Sockets \X Projects : x[2] \in rooms[x[1]] /\ ~ HasAccess(UserOf[x[1]], x[2])}

\* Losing both paths to a Project evicts the user's sockets from its room
\* (docs/authorization.md): one that is still there is about to be looked up.
LosingAccessEvicts == \A x \in Strangers : Pending(x[1], x[2])
=============================================================================
