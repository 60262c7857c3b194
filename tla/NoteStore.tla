----------------------------- MODULE NoteStore -----------------------------
(***************************************************************************)
(* What the vault promises its concurrent callers: every call takes effect *)
(* completely, at one moment between the call and its answer, on the notes *)
(* as they are at that moment.  A write that fails, or that the end of the *)
(* daemon interrupts, may leave the note it was writing without content,   *)
(* and touches no other.                                                   *)
(***************************************************************************)
EXTENDS Notes

CONSTANTS
  Tasks,       \* callers, one call at a time each
  Paths,       \* the notes they name
  VaultCalls   \* what they call

VARIABLES
  notes,       \* path -> content, None when there is no such file
  calls        \* caller -> its last call, whether it waits for the answer, the answer

vars == <<notes, calls>>

Pending(t) == calls[t].pending
Nothing == [call |-> None, pending |-> FALSE, answer |-> None]
Waiting(c) == [call |-> c, pending |-> TRUE, answer |-> None]
Answered(c, a) == [call |-> c, pending |-> FALSE, answer |-> a]

Init == calls = [t \in Tasks |-> Nothing] /\ notes \in [Paths -> {None, Empty}]

Invoke(t, c) ==
  /\ ~Pending(t)
  /\ calls' = [calls EXCEPT ![t] = Waiting(c)]
  /\ UNCHANGED notes

\* The call takes effect and is answered.
Perform(t) ==
  /\ Pending(t)
  /\ LET c == calls[t].call
     IN /\ notes' = After(notes, c)
        /\ calls' = [calls EXCEPT ![t] = Answered(c, AnswerTo(notes, c))]

\* Search takes no lock: it may see a note while somebody writes it.
SearchInPassing(t) ==
  /\ Pending(t) /\ calls[t].call.op = "search"
  /\ \E u \in Tasks : Pending(u) /\ calls[u].call.path = calls[t].call.path
                      /\ calls[u].call.op \in Writers
  /\ calls' = [calls EXCEPT ![t] = Answered(calls[t].call, Found(Empty))]
  /\ UNCHANGED notes

\* An I/O error is answered as such.  That of a write may come too late.
Fail(t) ==
  /\ Pending(t)
  /\ LET c == calls[t].call
     IN /\ calls' = [calls EXCEPT ![t] = Answered(c, Refused)]
        /\ \/ UNCHANGED notes
           \/ /\ c.op \in Writers /\ Opens(notes, c)
              /\ notes' = [notes EXCEPT ![c.path] = Empty]

\* The daemon ends: callers are gone, and so is what was being written.
Crash ==
  \E lost \in SUBSET {calls[t].call.path :
                        t \in {u \in Tasks : Pending(u) /\ calls[u].call.op \in Writers}} :
    /\ notes' = [p \in Paths |-> IF p \in lost THEN Empty ELSE notes[p]]
    /\ calls' = [t \in Tasks |-> Nothing]

Next ==
  \/ \E t \in Tasks, c \in VaultCalls : Invoke(t, c)
  \/ \E t \in Tasks : Perform(t) \/ SearchInPassing(t) \/ Fail(t)
  \/ Crash

Spec == Init /\ [][Next]_vars
=============================================================================
