--------------------------- MODULE RealtimeHistory ---------------------------
(***************************************************************************)
(* Realtime with history variables, which say what has been the case since *)
(* a delivery began:                                                       *)
(*   authorized[k]  <<what, s>>: since publication k fetched its sockets,  *)
(*                  s has at some moment had a session, or access          *)
(*   doubted[k]     the sockets that, since then, have at some moment had  *)
(*                  no session or no access, or whose lookup has failed    *)
(*   late           <<s, p>>: s joined the room of p when its user had no  *)
(*                  access to p, and has had none since                    *)
(***************************************************************************)
EXTENDS Realtime

VARIABLES authorized, doubted, late

history == <<authorized, doubted, late>>

\* A notification needs no access to a Project.
Accessible(k, s) ==
  publication[k].kind = "notification:event" \/ HasAccess(UserOf[s], publication[k].room)

Seen(k) ==
  IF publication[k] = Quiet THEN {}
  ELSE ({"session"} \X sessions) \cup ({"access"} \X {s \in Sockets : Accessible(k, s)})

Doubts(k) ==
  IF publication[k] = Quiet THEN {}
  ELSE {s \in Sockets : \/ s \notin sessions \/ ~ Accessible(k, s)
                        \/ publication[k].stage[s] = "error"}

HInit ==
  /\ Init
  /\ authorized = [k \in Publications |-> {}]
  /\ doubted = [k \in Publications |-> {}]
  /\ late = {}

HNext ==
  /\ Next
  /\ authorized' = [k \in Publications |->
                      IF publication'[k] = Quiet THEN {} ELSE authorized[k] \cup Seen(k)']
  /\ doubted' = [k \in Publications |->
                   IF publication'[k] = Quiet THEN {} ELSE doubted[k] \cup Doubts(k)']
  /\ late' = {x \in Strangers' : x \in late \/ x[2] \notin rooms[x[1]]}

HSpec == HInit /\ [][HNext]_<<vars, history>>

HFairSpec == HSpec /\ Fairness

\* The gateway rechecks before every delivery: whoever is sent an event has had
\* a session and access at some moment since its delivery began, however long
\* ago they have subscribed.
SentToAuthorized ==
  \A k \in Publications, s \in Sockets :
    publication[k].stage[s] = "sent" => {<<"session", s>>, <<"access", s>>} \subseteq authorized[k]

\* Nobody is taken out of a room who has had a session and some path to the
\* Project all along, unless a lookup failed.
EvictedForCause ==
  \A k \in Publications, s \in Sockets :
    publication[k].stage[s] = "left" => s \in doubted[k]

\* A user who has lost the last path to a Project while in its room is about to
\* be evicted, whichever of the two paths was lost last and whatever else was
\* going on.
RoomsFollowAccess == \A x \in Strangers \ late : Pending(x[1], x[2])

\* ... and is evicted in the end.
StrangersLeave ==
  \A s \in Sockets, p \in Projects :
    <<s, p>> \in Strangers \ late ~> <<s, p>> \notin Strangers \ late
==============================================================================
