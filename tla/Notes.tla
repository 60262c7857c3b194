------------------------------- MODULE Notes -------------------------------
(***************************************************************************)
(* What one call on the vault does to the notes, as operators:             *)
(* mcp/vault.rs without its locks and without its file I/O.  The detailed  *)
(* Vault applies them one file access at a time, the abstract NoteStore in *)
(* a single step.                                                          *)
(*                                                                         *)
(* A note is its YAML frontmatter (None when the file has none) and the    *)
(* pieces of text below it.  Paths are numbered in the order of PathBuf.   *)
(***************************************************************************)
EXTENDS Naturals, Sequences

CONSTANT None

Empty == [head |-> None, body |-> <<>>]        \* a file of no bytes

\* A call: its kind, the path it names, the path it moves to, the piece of
\* text (or the frontmatter) it carries.
Call(op, path, to, piece) == [op |-> op, path |-> path, to |-> to, piece |-> piece]

Creators == {"overwrite", "append", "prepend"}
Editors == {"set", "unset", "replace"}
Writers == Creators \cup Editors
Readers == {"read", "search"}
Movers == {"move", "moveOver"}                 \* move_note without and with overwrite
Ops == Writers \cup Readers \cup Movers \cup {"delete"}

\* Prepended text pushes the frontmatter into the body.
Written(old, c) ==
  CASE c.op = "overwrite" -> [head |-> c.piece.head, body |-> c.piece.body]
    [] c.op = "append"    -> [old EXCEPT !.body = @ \o c.piece.body]
    [] c.op = "prepend"   ->
         [head |-> None,
          body |-> c.piece.body \o (IF old.head = None THEN <<>> ELSE <<old.head>>) \o old.body]
    [] c.op = "set"       -> [old EXCEPT !.head = c.piece.head]
    [] c.op = "unset"     -> [old EXCEPT !.head = None]
    [] OTHER              ->   \* replace: the frontmatter of the piece is what is sought
         [old EXCEPT !.body =
            [i \in DOMAIN @ |-> IF @[i] = c.piece.head THEN c.piece.body[1] ELSE @[i]]]

\* An editor reads the file first and fails when there is none.
Opens(notes, c) == notes[c.path] # None \/ c.op \in Creators

\* Deleting a key from a note without frontmatter, and replacing text that
\* is not there, write nothing.
Rewrites(old, c) ==
  /\ c.op = "unset" => old.head # None
  /\ c.op = "replace" => \E i \in DOMAIN old.body : old.body[i] = c.piece.head

Content(note) == IF note = None THEN Empty ELSE note
Before(notes, c) == Content(notes[c.path])

Moves(notes, c) ==
  /\ notes[c.path] # None
  /\ c.op = "moveOver" \/ notes[c.to] = None

AfterMove(notes, c) ==
  IF c.path = c.to THEN notes
  ELSE [notes EXCEPT ![c.to] = notes[c.path], ![c.path] = None]

-----------------------------------------------------------------------------
\* The answers of a call that nothing disturbs, and the notes after it.

Refused == [ok |-> FALSE, note |-> None]
Done == [ok |-> TRUE, note |-> None]
Found(note) == [ok |-> TRUE, note |-> note]

Succeeds(notes, c) ==
  CASE c.op \in Writers -> Opens(notes, c)
    [] c.op \in Movers  -> Moves(notes, c)
    [] OTHER            -> notes[c.path] # None

AnswerTo(notes, c) ==
  IF ~Succeeds(notes, c) THEN Refused
  ELSE IF c.op \in Readers THEN Found(notes[c.path]) ELSE Done

After(notes, c) ==
  IF ~Succeeds(notes, c) THEN notes
  ELSE CASE c.op \in Readers -> notes
         [] c.op \in Writers ->
              IF Rewrites(Before(notes, c), c)
                THEN [notes EXCEPT ![c.path] = Written(Before(notes, c), c)] ELSE notes
         [] c.op = "delete"  -> [notes EXCEPT ![c.path] = None]
         [] OTHER            -> AfterMove(notes, c)
=============================================================================
