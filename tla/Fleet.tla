------------------------------- MODULE Fleet -------------------------------
(***************************************************************************)
(* The workspaces as the operations on many of them see them: creating a   *)
(* team, a swarm, an orchestration.  A fork (or create) and a destroy of   *)
(* one workspace are one step here; WorkspaceLifecycle takes them apart.   *)
(***************************************************************************)
EXTENDS Integers, FiniteSets, Sequences, Functions

CONSTANTS
  Ids,             \* uuids
  None,
  MaxWorkspaces    \* max_workspaces of the configuration

ASSUME FleetAssumption == IsFiniteSet(Ids) /\ None \notin Ids /\ MaxWorkspaces \in Nat

VARIABLES
  workspaces,      \* the workspaces there are
  team_id          \* workspace -> the team it is marked with, or None

fleetVars == <<workspaces, team_id>>

FleetInit == workspaces = {} /\ team_id = [i \in Ids |-> None]

\* The quota check under the write lock; a uuid is new.
Forks(i) ==
  /\ Cardinality(workspaces) < MaxWorkspaces
  /\ i \notin workspaces /\ workspaces' = workspaces \cup {i}
  /\ UNCHANGED team_id

\* Only a workspace that is gone already cannot be destroyed.
Destroys(i) ==
  /\ workspaces' = workspaces \ {i}
  /\ team_id' = [team_id EXCEPT ![i] = None]

Mark(i, name) == i \in workspaces /\ team_id' = [team_id EXCEPT ![i] = name]
=============================================================================
