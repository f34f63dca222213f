---------------------------- MODULE GithubAppFlow ----------------------------
(***************************************************************************)
(* The installation of the GitHub App: GithubAppService.  A user gets a    *)
(* one-time state, comes back from GitHub with it and an installation, is  *)
(* sent to GitHub again for an authorization, and comes back with a code.  *)
(* Any browser can send any state, several times and at the same time.     *)
(*                                                                         *)
(* A row lock on a state is held by the request that is between locking    *)
(* and writing it.  State rows are never used twice.                       *)
(***************************************************************************)
EXTENDS Integers, FiniteSets

CONSTANTS
  Users,
  States,                \* the ids of GithubAppState rows, and their secrets
  Installations,         \* the installations at GitHub
  Administers,           \* <<u, i>>: GitHub shows installation i to user u
  Flows,                 \* the requests that can be open at the same time
  Nobody                 \* no user, no state, no installation

ASSUME AdministersAssumption == Administers \subseteq Users \X Installations

ASSUME NobodyAssumption == Nobody \notin Users \cup States \cup Installations

VARIABLES
  state,                 \* state[s]: the committed row, or Absent
  installation,          \* installation[i]: connectedById, or Nobody for no row
  flow,                  \* flow[f]: an open request
  used                   \* used[s]: how often the state of s was consumed; -1: not created yet

appVars == <<state, installation, flow, used>>

Absent == [user |-> Nobody, pending |-> Nobody, consumed |-> FALSE, live |-> FALSE]

Idle == [at |-> "idle", user |-> Nobody, state |-> Nobody, pending |-> Nobody, doomed |-> {}]

Points == {"idle", "deleteStates", "createState", "lock", "check", "bind", "consume",
            "exchange", "verify", "identify", "findInstallation", "create", "cleanup"}

\* The rows that request f has locked.
LockedBy(f) ==
  CASE flow[f].at \in {"check", "bind", "consume"} -> {flow[f].state}
    [] flow[f].at = "createState" -> flow[f].doomed
    [] OTHER -> {}

Free(f, s) == \A g \in Flows \ {f} : s \notin LockedBy(g)

Moves(f, next) == flow' = [flow EXCEPT ![f] = next]

To(f, at) == Moves(f, [flow[f] EXCEPT !.at = at])

Finish(f) == Moves(f, Idle)

-----------------------------------------------------------------------------
Arrive(f) ==
  /\ flow[f] = Idle
  /\ \/ \E u \in Users : Moves(f, [Idle EXCEPT !.at = "deleteStates", !.user = u])
     \/ \E u \in Users, s \in States, i \in Installations :
          /\ used[s] >= 0
          /\ Moves(f, [Idle EXCEPT !.at = "lock", !.user = u, !.state = s, !.pending = i])
     \/ \E u \in Users, s \in States :
          /\ used[s] >= 0
          /\ Moves(f, [Idle EXCEPT !.at = "lock", !.user = u, !.state = s])
  /\ UNCHANGED <<state, installation, used>>

\* createInstallUrl: the deletion waits for each row that it has found.
DeleteStates(f) ==
  LET own == {s \in States : state[s].user = flow[f].user} IN
  /\ flow[f].at = "deleteStates"
  /\ \A s \in own : Free(f, s)
  /\ Moves(f, [flow[f] EXCEPT !.at = "createState", !.doomed = own])
  /\ UNCHANGED <<state, installation, used>>

\* ... and the new state is committed with it.
CreateState(f) ==
  /\ flow[f].at = "createState"
  /\ \E s \in States :
       /\ used[s] = -1 /\ used' = [used EXCEPT ![s] = 0]
       /\ state' = [x \in States |->
            IF x = s THEN [Absent EXCEPT !.user = flow[f].user, !.live = TRUE]
            ELSE IF x \in flow[f].doomed THEN Absent ELSE state[x]]
  /\ Finish(f)
  /\ UNCHANGED installation

\* Mutant: the row is looked up and not locked.
LockStateNot(f) ==
  /\ flow[f].at = "lock"
  /\ IF state[flow[f].state] = Absent THEN Finish(f) ELSE To(f, "check")
  /\ UNCHANGED <<state, installation, used>>

\* SELECT ... FROM "GithubAppState" ... FOR UPDATE: 400 for no row.
LockState(f) ==
  /\ flow[f].at = "lock"
  /\ Free(f, flow[f].state)
  /\ IF state[flow[f].state] = Absent THEN Finish(f) ELSE To(f, "check")
  /\ UNCHANGED <<state, installation, used>>

\* assertUsableState
Usable(f) ==
  LET row == state[flow[f].state]
  IN  row.user = flow[f].user /\ row.live /\ ~ row.consumed

\* beginSetup: 409 for a state that is bound to another installation.
CheckSetup(f) ==
  /\ flow[f].at = "check" /\ flow[f].pending # Nobody
  /\ IF Usable(f) /\ state[flow[f].state].pending \in {Nobody, flow[f].pending}
     THEN To(f, "bind") ELSE Finish(f)
  /\ UNCHANGED <<state, installation, used>>

Bind(f) ==
  /\ flow[f].at = "bind"
  /\ state' = [state EXCEPT ![flow[f].state].pending = flow[f].pending]
  /\ Finish(f)
  /\ UNCHANGED <<installation, used>>

\* consumeState: 400 for a state that is bound to no installation.
CheckCallback(f) ==
  /\ flow[f].at = "check" /\ flow[f].pending = Nobody
  /\ LET i == state[flow[f].state].pending
     IN  IF Usable(f) /\ i # Nobody
         THEN Moves(f, [flow[f] EXCEPT !.at = "consume", !.pending = i]) ELSE Finish(f)
  /\ UNCHANGED <<state, installation, used>>

\* ... which commits before GitHub is asked.
Consume(f) ==
  /\ flow[f].at = "consume"
  /\ state' = [state EXCEPT ![flow[f].state].consumed = TRUE]
  /\ used' = [used EXCEPT ![flow[f].state] = @ + 1]
  /\ To(f, "exchange")
  /\ UNCHANGED installation

\* A request to GitHub: any answer but a good one ends in the cleanup.
Ask(f, at, good, next) ==
  /\ flow[f].at = at
  /\ (good /\ To(f, next)) \/ To(f, "cleanup")
  /\ UNCHANGED <<state, installation, used>>

\* exchangeUserCode: GitHub takes a code once, with the verifier of its state.
ExchangeCode(f) == Ask(f, "exchange", TRUE, "verify")

\* verifyUserInstallation, with the token of the user.
VerifyInstallation(f) ==
  Ask(f, "verify", <<flow[f].user, flow[f].pending>> \in Administers, "identify")

\* getInstallation, with the token of the App.
Identify(f) == Ask(f, "identify", TRUE, "findInstallation")

\* 409 for the installation of another user; its own is refreshed.
FindInstallation(f) ==
  /\ flow[f].at = "findInstallation"
  /\ To(f, IF installation[flow[f].pending] = Nobody THEN "create" ELSE "cleanup")
  /\ UNCHANGED <<state, installation, used>>

\* Mutant: an upsert takes the row over.
CreateOrReplace(f) ==
  /\ flow[f].at = "create"
  /\ installation' = [installation EXCEPT ![flow[f].pending] = flow[f].user]
  /\ To(f, "cleanup")
  /\ UNCHANGED <<state, used>>

\* The unique index refuses a second row for the installation.
Create(f) ==
  LET i == flow[f].pending IN
  /\ flow[f].at = "create"
  /\ installation' = IF installation[i] = Nobody
                     THEN [installation EXCEPT ![i] = flow[f].user] ELSE installation
  /\ To(f, "cleanup")
  /\ UNCHANGED <<state, used>>

\* finally: the state is deleted, if it is still there.
Cleanup(f) ==
  /\ flow[f].at = "cleanup"
  /\ Free(f, flow[f].state)
  /\ state' = [state EXCEPT ![flow[f].state] = Absent]
  /\ Finish(f)
  /\ UNCHANGED <<installation, used>>

\* Ten minutes are over.
Expire(s) ==
  /\ state[s].live
  /\ state' = [state EXCEPT ![s].live = FALSE]
  /\ UNCHANGED <<installation, flow, used>>

\* The database fails, or the process goes away.
Crash(f) ==
  /\ flow[f] # Idle /\ Finish(f)
  /\ UNCHANGED <<state, installation, used>>

-----------------------------------------------------------------------------
AppInit ==
  /\ state = [s \in States |-> Absent]
  /\ installation = [i \in Installations |-> Nobody]
  /\ flow = [f \in Flows |-> Idle]
  /\ used = [s \in States |-> -1]

AppNext ==
  \/ \E f \in Flows :
       \/ Arrive(f) \/ DeleteStates(f) \/ CreateState(f) \/ LockState(f)
       \/ CheckSetup(f) \/ Bind(f) \/ CheckCallback(f) \/ Consume(f)
       \/ ExchangeCode(f) \/ VerifyInstallation(f) \/ Identify(f)
       \/ FindInstallation(f) \/ Create(f) \/ Cleanup(f)
       \/ Crash(f)
  \/ \E s \in States : Expire(s)

AppSpec == AppInit /\ [][AppNext]_appVars

-----------------------------------------------------------------------------
AppTypeOK ==
  /\ state \in [States -> [user : Users \cup {Nobody}, pending : Installations \cup {Nobody},
                           consumed : BOOLEAN, live : BOOLEAN]]
  /\ installation \in [Installations -> Users \cup {Nobody}]
  /\ flow \in [Flows -> [at : Points, user : Users \cup {Nobody}, state : States \cup {Nobody},
                         pending : Installations \cup {Nobody}, doomed : SUBSET States]]
  /\ used \in [States -> Int]

\* However many callbacks arrive at the same time, a state is good for one
\* exchange of a code, and an installation stays with the first user who has
\* shown to administer it: no flow takes it from another.
FlowsAreExclusive ==
  [][/\ \A s \in States : used'[s] <= 1
     /\ \A i \in Installations : installation[i] # Nobody => installation'[i] = installation[i]]_appVars
=============================================================================
