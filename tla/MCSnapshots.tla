---------------------------- MODULE MCSnapshots ----------------------------
\* A workspace with two snapshots and room for one fork at a time, or two.
EXTENDS Snapshots, TLC

Symmetry ==
  Permutations(Ids \ {Root}) \cup Permutations(Tasks) \cup Permutations(Names)
    \cup Permutations(Data)

\* Bounds: one workspace at a time is out of step with the state file, and one
\* thing at a time has gone wrong with one.
OneApart == Cardinality(Unsaved) <= 1 /\ Cardinality(excused) <= 1
=============================================================================
