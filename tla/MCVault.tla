------------------------------ MODULE MCVault ------------------------------
\* A small vault: two notes, every kind of call.
EXTENDS Vault, TLC

Text == [head |-> "key", body |-> <<"text">>]
Sought == [head |-> "key", body |-> <<"text">>]

\* Moves go both ways, so that two of them want the same locks.
AllCalls ==
  {Call(op, p, p, Text) : op \in {"overwrite", "prepend", "set", "unset"}, p \in {1}}
  \cup {Call("replace", 1, 1, Sought), Call("append", 2, 2, Text)}
  \cup {Call(op, p, p, None) : op \in {"read", "search", "delete"}, p \in {1}}
  \cup {Call("move", 1, 2, None), Call("moveOver", 2, 1, None)}

\* Bound on the text of a note.
MaxPieces == 1
Short == \A p \in Paths : notes[p] = None \/ Len(notes[p].body) <= MaxPieces
=============================================================================
