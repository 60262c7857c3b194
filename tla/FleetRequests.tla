--------------------------- MODULE FleetRequests ---------------------------
(***************************************************************************)
(* Requests on teams and swarms share the workspaces and their limit; an   *)
(* orchestration has the state to itself, the instance lock sees to it.    *)
(* Anybody may destroy a workspace any of them works with.                 *)
(***************************************************************************)
EXTENDS Teams, Swarm

vars == <<fleetVars, teamVars, swarmVars>>

Init == FleetInit /\ TeamsInit /\ SwarmInit

\* agentiso.lock: the daemon and an orchestration exclude each other.
Orchestrating == \E r \in Runners : runs[r] # None /\ runs[r].plan.kind = "orchestrate"
DaemonIdle ==
  (\A t \in Requests : calls[t] = None) /\ (\A r \in Runners : runs[r] = None)

\* The workspaces somebody still has the id of.  A uuid is none of them.
Known ==
  (UNION {Handles(t) : t \in Requests}) \cup (UNION {WorkersOf(r) : r \in Runners})
  \cup (UNION {teams[n].members : n \in {m \in Names : teams[m] # None}})
  \cup owned \cup tokens

NewUuids == (workspaces' \ workspaces) \cap Known = {}

Teamwork == ~Orchestrating /\ NewUuids /\ UNCHANGED swarmVars

Request(t) ==
  /\ \/ \E o \in Orders : CreateTeam(t, o.name, o.parent, o.roles)
     \/ \E n \in Names : DestroyTeam(t, n)
  /\ Teamwork
Proceed(t) ==
  TeamStep(t) \/ (\E i \in Ids : ForkMember(t, i))

StartRun(r) ==
  /\ \E plan \in Plans :
       /\ Start(r, plan)
       /\ IF plan.kind = "orchestrate" THEN DaemonIdle ELSE ~Orchestrating
  /\ UNCHANGED teamVars

\* workspace_destroy, which also takes the workspace from its owner.
WorkspaceDestroy(i) ==
  /\ i \in workspaces /\ ~Orchestrating
  /\ Destroys(i) /\ owned' = owned \ {i} /\ refused' = refused \ {i}
  /\ Robs(i) /\ UNCHANGED <<teams, agents, calls, runs, tokens>>

Next ==
  \/ \E t \in Requests : Request(t) \/ (Proceed(t) /\ Teamwork)
  \/ \E r \in Runners : StartRun(r) \/ ((RunStep(r) \/ Interrupt(r)) /\ NewUuids /\ UNCHANGED teamVars)
  \/ \E i \in Ids : WorkspaceDestroy(i)

Spec == Init /\ [][Next]_vars

-----------------------------------------------------------------------------
(* Properties *)

\* A run that answers left no worker behind, charged none to the session and
\* revoked the tokens it kept track of, whatever was destroyed in between.
RunCleansUp ==
  \A r \in Runners : AllJoined(r, "cleanup") => \A k \in Forked(r) :
    /\ Worker(r, k) \notin workspaces \cup owned
    /\ Worker(r, k) \in tokens => k \in runs[r].bad

\* Each task has one result when the executions are over: a failed fork, a
\* failed injection and an execution never count for the same task, nor none.
OneResultEach ==
  \A r \in Runners :
    AllJoined(r, "exec") \/ In(r, "merge") \/ In(r, "cleanup") =>
      \A k \in Tasks(r) : runs[r].results[k] = 1

\* No workspace is anonymous: it belongs to the session that may destroy it, to
\* a team, or to what is at work on it.  Calls that end early leave it so.
WorkspacesAccountedFor ==
  \A i \in workspaces :
    \/ i \in owned \cup refused
    \/ team_id[i] # None
    \/ \E t \in Requests : i \in Handles(t)
    \/ \E r \in Runners : i \in WorkersOf(r)
=============================================================================
