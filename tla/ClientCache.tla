---------------------------- MODULE ClientCache ----------------------------
(***************************************************************************)
(* One query of the browser's cache and all that keeps it up to date: the  *)
(* requests of this browser and of others, the events of the realtime      *)
(* connection, subscriptions and reconnections, and the fetches.  Queries  *)
(* do not share anything, so Init chooses one.                             *)
(*                                                                         *)
(* Data is the set of changes it contains, with Base for what was there    *)
(* before.  TanStack Query is external: setQueryData makes data fresh and  *)
(* leaves a running fetch alone; invalidating a query that is shown        *)
(* replaces a running fetch, except the first one, which is joined.        *)
(***************************************************************************)
EXTENDS Panels, Sequences, FiniteSets, Integers, SequencesExt

CONSTANTS
  Changes,
  Ours,                 \* the changes that this browser may request
  Base,                 \* what the server has from the start
  MaxFaults             \* how often something goes wrong, or a panel is left

\* A message that acknowledges a resubscription.
Ack == "ack"

ASSUME ChangesAssumption == Base \notin Changes /\ Ack \notin Changes /\ Ours \subseteq Changes

ASSUME FaultsAssumption == MaxFaults \in Nat

VARIABLES
  change,               \* change[c]: what it means for the observed query; see Traits
  inScope,              \* a resubscription refetches the query
  at,                   \* at[c]: how far it is
  told,                 \* the changes whose publication is over
  reply,                \* reply[c]: the data of the answer to a request of this browser
  snapshot,             \* snapshot[c]: the data that its failure restores
  socket, room, asked,  \* connected; in the room; the subscription on its way
  inbox,                \* messages of the server: a change, or Ack
  query,                \* the observed query
  missed,               \* history: changes whose event will not refresh the query
  overtaken,            \* history: changes that data was declared fresh without
  faults

cacheVars == <<change, inScope, at, told, reply, snapshot, socket, room, asked, inbox, query,
               missed, overtaken, faults>>

connection == <<socket, room, asked, inbox>>

setup == <<change, inScope>>

Parts == Changes \cup {Base}

Running(step, got) == [at |-> step, got |-> got]

NoFetch == Running("idle", {})

Asked == Running("asked", {})

-----------------------------------------------------------------------------
(***************************************************************************)
(* Known gaps: what a query shows that an event, or the panel that made    *)
(* the change, does not refresh.                                           *)
(***************************************************************************)
NoGaps == [k \in Keys |-> {}]

\* The names of Columns and of the Project shown with a Task, the counts of an
\* Organization's list, what the times and the issues show of a Task.
EventGaps ==
  [NoGaps EXCEPT
    !["tasks"] = {"renameColumn", "updateProject"},
    !["task"] = {"renameColumn", "updateProject"},
    !["project"] = {"createFromIssue"},
    !["projects"] = Deletions \cup MemberOps \cup {"createTask", "createFromIssue"},
    !["projectActivities"] = ProjectOps,
    !["projectTime"] = Deletions \cup MemberOps \cup {"updateTask", "sync"},
    !["taskTime"] = {"updateTask", "sync"},
    !["activeTimer"] = Deletions \cup {"updateTask", "sync"},
    !["githubIssues"] = Deletions \cup {"updateTask"}]

PanelGaps ==
  [NoGaps EXCEPT
    !["tasks"] = {"updateProject"},
    !["task"] = {"updateProject", "renameColumn", "moveTask"},
    !["project"] = {"archive", "moveTask", "createFromIssue"},
    !["projects"] = MemberOps \cup {"createFromIssue"},
    !["projectActivities"] = {"archive", "restore", "removeRow"},
    !["projectAttachments"] = {"removeRow"},
    !["projectTime"] = Deletions \cup MemberOps \cup {"updateTask"},
    !["taskTime"] = {"updateTask"},
    !["activeTimer"] = Deletions \cup {"updateTask"},
    !["githubIssues"] = Deletions \cup {"updateTask"}]

\* The operation op for the query k: does it show there, what do its event and,
\* for a request of this browser, its panel do with it.
Traits(op, k, mine) ==
  LET published == op \in Published
      event == IF published THEN EventRefresh(op) ELSE Untouched
      panel == IF mine THEN PanelRefresh(op) ELSE Nothing
  IN [mine |-> mine, shown |-> op \in ShownIn[k], private |-> op = "notify",
      event |-> {f \in DOMAIN event : k \in event[f]},
      panel |-> {f \in DOMAIN panel : k \in panel[f]},
      eventGap |-> ~published \/ op \in EventGaps[k], panelGap |-> op \in PanelGaps[k]]

\* What may happen to the query k: requests of others that show there, and
\* requests of this browser that show there or touch it.
Happenings(k, mine) ==
  {t \in {Traits(op, k, mine) : op \in IF mine THEN PanelOps ELSE Ops} :
     t.shown \/ t.panel # {}}

-----------------------------------------------------------------------------
(***************************************************************************)
(* The query.                                                              *)
(***************************************************************************)
Committed == {c \in Changes : at[c] \in {"committed", "answered", "done", "lost", "unknown"}}

Shown == {c \in Changes : change[c].shown}

\* What a read of the query answers.
Server == {Base} \cup (Committed \cap Shown)

SetData(q, data) == [q EXCEPT !.data = data, !.stale = FALSE, !.error = FALSE]

Edit(q, parts) == IF q.data = {} THEN q ELSE SetData(q, q.data \cup parts)

Cancel(q) == [q EXCEPT !.fetch = NoFetch]

\* A fetch replaces the running one, unless that is the first.
StartFetch(q) == IF q.fetch = NoFetch \/ q.data # {} THEN [q EXCEPT !.fetch = Asked] ELSE q

Invalidate(q) == IF q.active THEN StartFetch([q EXCEPT !.stale = TRUE]) ELSE [q EXCEPT !.stale = TRUE]

\* refetchQueries also fetches what is not shown, if it was loaded once.
Refetch(q) == IF q.active \/ q.data # {} THEN StartFetch(q) ELSE q

\* The fields of a refresh apply to the observed query if they are in "does".
If(does, field, then, else) == IF field \in does THEN then ELSE else

OnEvent(q, does, parts) ==
  LET q1 == If(does, "tombstones", SetData(Cancel(q), Server), q)
      q2 == If(does, "edits", Edit(q1, parts), q1)
      q3 == If(does, "refetches", Refetch(q2), q2)
  IN If(does, "invalidates", Invalidate(q3), q3)

\* Mutant: the acknowledged subscription refetches nothing.
AckIsIgnored(q) == q

OnAck(q) == IF inScope THEN Invalidate(q) ELSE q

OnSuccess(q, does, answer, parts) ==
  LET q1 == If(does, "tombstones", SetData(Cancel(q), Server), q)
      q2 == If(does, "replaces", SetData(q1, answer), q1)
      q3 == If(does, "writes", SetData(q2, q2.data \cup parts), q2)
      q4 == If(does, "edits", Edit(q3, parts), q3)
  IN If(does, "invalidates", Invalidate(q4), q4)

\* The changes whose event or answer this browser has handled.
Handled(box) == {c \in told \cap Shown : c \notin ToSet(box) \/ at[c] \in {"answered", "done"}}

\* A refresh on account of parts may leave behind a fetch that was read before
\* them, and data written by hand is fresh without what it lacks.  A fetch that
\* the server has not read yet makes up for everything.
Account(q, refreshes, writes, parts, box, misses) ==
  LET caught == q.fetch.at = "asked"
      late == IF refreshes /\ q.fetch.at = "read" THEN parts \ q.fetch.got ELSE {}
      without == IF writes /\ ~q.stale THEN ({Base} \cup Handled(box)) \ q.data ELSE {}
  IN /\ query' = q
     /\ missed' = IF caught THEN {} ELSE misses
     /\ overtaken' = IF caught THEN {} ELSE overtaken \cup late \cup without

ByHand == {"tombstones", "replaces", "writes", "edits"}

-----------------------------------------------------------------------------
CacheInit ==
  /\ \E k \in Keys :
       /\ inScope = (k \in ProjectScope)
       /\ change \in [Changes -> Happenings(k, TRUE) \cup Happenings(k, FALSE)]
       /\ \A c \in Changes \ Ours : ~change[c].mine
  /\ at = [c \in Changes |-> "new"]
  /\ told = {} /\ missed = {} /\ overtaken = {}
  /\ reply = [c \in Changes |-> {}] /\ snapshot = [c \in Changes |-> {}]
  /\ socket \in BOOLEAN
  /\ room = FALSE /\ asked = IF socket THEN "join" ELSE "no"
  /\ inbox = <<>>
  /\ query = [data |-> {}, fetch |-> Asked, stale |-> FALSE, active |-> TRUE, error |-> FALSE]
  /\ faults = 0

Fault == faults < MaxFaults /\ faults' = faults + 1

Goes(c, from, to) == at[c] = from /\ at' = [at EXCEPT ![c] = to]

\* A panel of this browser sends its request.
Mutate(c) ==
  LET does == change[c].panel
      q == If(does, "snapshots", Cancel(query), query)
  IN /\ change[c].mine /\ Goes(c, "new", "sent")
     /\ snapshot' = [snapshot EXCEPT ![c] = If(does, "snapshots", q.data, {})]
     /\ Account(If(does, "optimistic", Edit(q, {c} \cap Shown), q),
                FALSE, does \cap {"optimistic"} # {}, {}, inbox, missed)
     /\ UNCHANGED <<setup, told, reply, connection, faults>>

Commit(c) ==
  /\ Goes(c, IF change[c].mine THEN "sent" ELSE "new", "committed")
  /\ reply' = IF change[c].mine THEN [reply EXCEPT ![c] = Server \cup ({c} \cap Shown)] ELSE reply
  /\ UNCHANGED <<setup, told, snapshot, connection, query, missed, overtaken, faults>>

\* Delivered to this browser, or dropped when it is not in the room; a crashed
\* publication is dropped for everybody.
PublishChange(c) ==
  LET arrives == IF change[c].private THEN socket ELSE room
  IN /\ c \in Committed \ told
     /\ told' = told \cup {c}
     /\ \E lost \in BOOLEAN :
          /\ IF lost THEN Fault ELSE UNCHANGED faults
          /\ inbox' = IF arrives /\ ~lost THEN Append(inbox, c) ELSE inbox
          /\ Account(query, FALSE, FALSE, {}, inbox, IF arrives /\ ~lost THEN missed ELSE missed \cup {c})
     /\ UNCHANGED <<setup, at, reply, snapshot, socket, room, asked>>

\* project:event, notification:event and the acknowledgement of a resubscription.
Receive ==
  LET m == Head(inbox)
      box == Tail(inbox)
  IN /\ inbox # <<>>
     /\ inbox' = box
     /\ IF m = Ack
        THEN Account(OnAck(query), inScope, FALSE, Handled(box), box,
                     IF inScope THEN {} ELSE missed)
        ELSE LET does == change[m].event
             IN Account(OnEvent(query, does, {m} \cap Shown), does # {}, does \cap ByHand # {},
                        {m} \cap Shown, box, missed)
     /\ UNCHANGED <<setup, at, told, reply, snapshot, socket, room, asked, faults>>

\* The controller answers after its publication.
Answer(c) ==
  LET does == change[c].panel
  IN /\ change[c].mine /\ c \in told /\ Goes(c, "committed", "answered")
     /\ Account(OnSuccess(query, does, reply[c], {c} \cap Shown),
                does \cap {"invalidates", "writes", "replaces", "edits"} # {},
                does \cap ByHand # {}, {c} \cap Shown, inbox, missed)
     /\ UNCHANGED <<setup, told, reply, snapshot, connection, faults>>

\* The request is refused, or its answer is lost: onError.
Fails(c) ==
  /\ change[c].mine
  /\ Fault
  /\ \/ Goes(c, "sent", "refused")
     \/ Goes(c, "committed", "lost")
  /\ Account(IF "snapshots" \in change[c].panel /\ snapshot[c] # {} THEN SetData(query, snapshot[c])
             ELSE query, FALSE, "snapshots" \in change[c].panel, {}, inbox, missed)
  /\ UNCHANGED <<setup, told, reply, snapshot, connection>>

Ended == {"answered", "refused", "lost"}

\* The rest of onSuccess, and onSettled.
SettleRequest(c) ==
  /\ change[c].mine /\ at[c] \in Ended
  /\ \E conflict \in {at[c] = "refused", FALSE} :
     LET fields == {"settles"} \cup (IF at[c] = "answered" THEN {"follows"} ELSE {})
                     \cup (IF conflict THEN {"conflicts"} ELSE {})
         does == change[c].panel \cap fields # {}
     IN /\ at' = [at EXCEPT ![c] = CASE @ = "answered" -> "done" [] @ = "refused" -> "failed"
                                     [] OTHER -> "unknown"]
        /\ Account(IF does THEN Invalidate(query) ELSE query, does, FALSE, {c} \cap Shown, inbox, missed)
        /\ UNCHANGED <<setup, told, reply, snapshot, connection, faults>>

Browser == <<setup, at, told, reply, snapshot, connection>>

\* The request of the query reaches the server, and its answer the cache.
FetchRead ==
  /\ query.fetch.at = "asked"
  /\ Account([query EXCEPT !.fetch = Running("read", Server)], FALSE, FALSE, {}, inbox, missed)
  /\ UNCHANGED <<Browser, faults>>

FetchAnswer ==
  /\ query.fetch.at = "read"
  /\ Account(Cancel(SetData(query, query.fetch.got)), FALSE, FALSE, {}, inbox, missed)
  /\ UNCHANGED <<Browser, faults>>

FetchFail ==
  /\ query.fetch.at # "idle" /\ Fault
  /\ Account([Cancel(query) EXCEPT !.error = TRUE], FALSE, FALSE, {}, inbox, missed)
  /\ UNCHANGED Browser

\* The last panel that shows the query is left, or one is opened: what it shows
\* may be older than 30 seconds.
LeavePanel ==
  /\ query.active /\ Fault
  /\ Account([query EXCEPT !.active = FALSE], FALSE, FALSE, {}, inbox, missed)
  /\ UNCHANGED Browser

ReturnToPanel ==
  /\ ~query.active
  /\ \E old \in BOOLEAN :
       LET q == [query EXCEPT !.active = TRUE]
       IN Account(IF q.fetch = NoFetch /\ (old \/ q.stale \/ q.data = {}) THEN StartFetch(q) ELSE q,
                  FALSE, FALSE, {}, inbox, missed)
  /\ UNCHANGED <<Browser, faults>>

Messages == ToSet(inbox) \ {Ack}

LoseSocket ==
  /\ socket /\ Fault
  /\ socket' = FALSE /\ room' = FALSE /\ asked' = "no" /\ inbox' = <<>>
  /\ Account(query, FALSE, FALSE, {}, <<>>, missed \cup Messages)
  /\ UNCHANGED <<setup, at, told, reply, snapshot>>

\* Every subscription is made again; only then is its acknowledgement awaited.
Reconnect ==
  /\ ~socket
  /\ socket' = TRUE /\ asked' = "rejoin"
  /\ UNCHANGED <<setup, at, told, reply, snapshot, room, inbox, query, missed, overtaken, faults>>

EnterRoom ==
  /\ asked # "no"
  /\ room' = TRUE /\ asked' = "no"
  /\ inbox' = IF asked = "rejoin" THEN Append(inbox, Ack) ELSE inbox
  /\ UNCHANGED <<setup, at, told, reply, snapshot, socket, query, missed, overtaken, faults>>

CacheNext ==
  \/ \E c \in Changes : \/ Mutate(c) \/ Commit(c) \/ PublishChange(c)
                        \/ Answer(c) \/ Fails(c) \/ SettleRequest(c)
  \/ Receive \/ FetchRead \/ FetchAnswer \/ FetchFail \/ LeavePanel \/ ReturnToPanel
  \/ LoseSocket \/ Reconnect \/ EnterRoom

CacheSpec == CacheInit /\ [][CacheNext]_cacheVars

-----------------------------------------------------------------------------
Underway(c) == at[c] \in {"sent", "committed"} \cup Ended

\* Nothing is on its way to the browser.
Quiescent ==
  /\ room /\ inbox = <<>> /\ query.fetch = NoFetch
  /\ \A c \in Changes : (c \in Committed => c \in told) /\ (change[c].mine => ~Underway(c))

Visible == query.active /\ ~query.error /\ query.data # {}

\* A change that its event, or the panel that made it, is bound to show.
Due(c) ==
  ~change[c].eventGap \/ (at[c] = "done" /\ change[c].mine /\ ~change[c].panelGap)

\* Once a browser that is in the room has handled what was sent to it, what its
\* panels show is what the server would answer: no change is left that was
\* refused or restored, and none is missing that the tables of Panels refresh.
\* Exempt are changes whose event was lost and data declared fresh too early.
ConnectedCacheConverges ==
  Quiescent /\ Visible =>
    /\ query.data \subseteq Server
    /\ {Base} \cup {c \in Committed \cap Shown : Due(c)} \subseteq
         query.data \cup missed \cup overtaken

\* Whoever is told that a request succeeded sees its effect without waiting for
\* the realtime connection, as far as the panel refreshes the query and no other
\* request of this browser, which may have cancelled that refresh, is under way.
OwnChangesShow ==
  \A c \in Shown :
    /\ change[c].mine /\ at[c] = "done" /\ ~change[c].panelGap
    /\ \A d \in Changes : change[d].mine => ~Underway(d)
    /\ Visible /\ query.fetch = NoFetch
    => c \in query.data \cup overtaken
=============================================================================
