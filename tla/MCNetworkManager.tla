-------------------------- MODULE MCNetworkManager --------------------------
(***************************************************************************)
(* Two addresses, on a subnet of five offsets, for two workspaces, or for  *)
(* three when one that rests is in the state file.  What Scan does is the  *)
(* same for all of them, so the symmetry is sound for AllocateReturns too. *)
(***************************************************************************)
EXTENDS NetworkManager, TLC

Policy(internet, inter, open) == [internet |-> internet, inter |-> inter, open |-> open]
SomePolicies == {Policy(TRUE, FALSE, {}), Policy(FALSE, TRUE, Ports)}

\* A workspace that rests is never up: which policy it has, and whether it has
\* its device, makes no difference to the others.
QuietInit ==
  /\ NetInit
  /\ \A i \in Resting \cap Registered :
       i \notin taps /\ entries[i].policy = Policy(TRUE, FALSE, {})
QuietSpec == QuietInit /\ [][NetNext]_allVars /\ WF_vars(Scan)

\* Bounds: one workspace at a time is without its rules, one has a forward.  A
\* scan changes neither, so none is cut off.
OneOfEach ==
  /\ Cardinality(unruled) <= 1
  /\ Cardinality({i \in Registered : entries[i].forwards # {}}) <= 1

Symmetry == Permutations(Ids \ Resting) \cup Permutations(Tasks)
=============================================================================
