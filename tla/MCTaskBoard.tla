---------------------------- MODULE MCTaskBoard ----------------------------
\* A small board.  Requests and agents are interchangeable.
EXTENDS TaskBoard, TLC

\* Agents also look at the notes of tasks through the vault.
Looks == {Call("search", 1, 1, None)}

Symmetry == Permutations(Tasks) \cup Permutations(Agents)
=============================================================================
