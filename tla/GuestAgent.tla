----------------------------- MODULE GuestAgent -----------------------------
(***************************************************************************)
(* guest-agent/src/main.rs and daemon.rs: the messages of one guest.       *)
(*                                                                         *)
(* Messages that are pushed to the guest wait in MESSAGE_INBOX.  Every two *)
(* seconds the daemon takes all of them, starts those that assign a task   *)
(* and puts the others back for GET /messages.  Results wait in            *)
(* RESULT_OUTBOX until the host polls them.                                *)
(***************************************************************************)
EXTENDS Naturals, Sequences, FiniteSets, SequencesExt

CONSTANTS
  MAX_CONCURRENT_TASKS,    \* 4 in the code
  MAX_NON_TASK_MESSAGES,   \* 200
  InboxCapacity            \* 1000

ASSUME GuestAssumption ==
  /\ MAX_CONCURRENT_TASKS \in Nat \ {0}
  /\ MAX_NON_TASK_MESSAGES \in Nat \ {0} /\ InboxCapacity \in Nat \ {0}

VARIABLES
  arrived,     \* every message the guest has stored; the others name it by index
  inbox,       \* MESSAGE_INBOX, the oldest first
  batch,       \* the assignments the daemon took and has not started
  kept,        \* what it will put back (non_task_messages)
  running,     \* the tasks it executes: the permits of its semaphore
  outbox,      \* RESULT_OUTBOX: the assignments whose result waits
  dropped,     \* arrived that a limit threw away (for the properties)
  taken        \* arrived that GET /messages returned (for the properties)

daemonVars == <<batch, kept, running>>
guestVars == <<arrived, inbox, daemonVars, outbox, dropped, taken>>

\* parse_task_assignment: "task" parses, "malformed" only claims to be one.
Kinds == {"task", "malformed", "text"}
Kind(n) == arrived[n].kind
Assignment(n) == Kind(n) # "text"

GuestInit ==
  /\ inbox = <<>> /\ batch = <<>> /\ kept = <<>> /\ running = {} /\ outbox = <<>>
  /\ arrived = <<>> /\ dropped = {} /\ taken = {}
-----------------------------------------------------------------------------

\* A message is stored; a full inbox loses its oldest.
Store(msg) ==
  LET full == Len(inbox) >= InboxCapacity
  IN /\ arrived' = Append(arrived, msg)
     /\ inbox' = Append(IF full THEN Tail(inbox) ELSE inbox, Len(arrived) + 1)
     /\ dropped' = IF full THEN dropped \cup {Head(inbox)} ELSE dropped
     /\ UNCHANGED <<daemonVars, outbox, taken>>

\* GET /messages hands out whatever is there, assignments too.
GetMessages ==
  /\ inbox # <<>>
  /\ inbox' = <<>> /\ taken' = taken \cup ToSet(inbox)
  /\ UNCHANGED <<daemonVars, outbox, arrived, dropped>>

\* PollDaemonResults drains the oldest results.
Drained(limit) == SubSeq(outbox, 1, IF limit <= Len(outbox) THEN limit ELSE Len(outbox))
\* Mistake: results that are handed out stay.
WrongDrain(limit) == UNCHANGED <<outbox, inbox, daemonVars, arrived, dropped, taken>>

Drain(limit) ==
  /\ outbox' = SubSeq(outbox, Len(Drained(limit)) + 1, Len(outbox))
  /\ UNCHANGED <<inbox, daemonVars, arrived, dropped, taken>>

-----------------------------------------------------------------------------
\* A round of the daemon.

\* It sorts what it took; nobody sees that before it puts messages back.
TakeInbox ==
  /\ batch = <<>> /\ kept = <<>> /\ inbox # <<>>
  /\ batch' = SelectSeq(inbox, Assignment)
  /\ kept' = SelectSeq(inbox, LAMBDA n : ~Assignment(n))
  /\ inbox' = <<>>
  /\ UNCHANGED <<arrived, running, outbox, dropped, taken>>

\* Mistake: one task more than there are permits.
WrongStartTask ==
  /\ batch # <<>> /\ Kind(Head(batch)) = "task"
  /\ Cardinality(running) <= MAX_CONCURRENT_TASKS
  /\ running' = running \cup {Head(batch)} /\ batch' = Tail(batch)
  /\ UNCHANGED <<arrived, inbox, kept, outbox, dropped, taken>>

\* It waits for a permit, with the rest of the batch in its hands.
StartTask ==
  /\ batch # <<>> /\ Kind(Head(batch)) = "task"
  /\ Cardinality(running) < MAX_CONCURRENT_TASKS
  /\ running' = running \cup {Head(batch)} /\ batch' = Tail(batch)
  /\ UNCHANGED <<arrived, inbox, kept, outbox, dropped, taken>>

\* A malformed assignment has a failure as its result.
RejectTask ==
  /\ batch # <<>> /\ Kind(Head(batch)) = "malformed"
  /\ outbox' = Append(outbox, Head(batch)) /\ batch' = Tail(batch)
  /\ UNCHANGED <<inbox, kept, running, arrived, dropped, taken>>

\* Mistake: they go behind what has arrived since.
WrongPutBack ==
  /\ batch = <<>> /\ kept # <<>>
  /\ inbox' = inbox \o kept /\ kept' = <<>>
  /\ UNCHANGED <<batch, running, outbox, arrived, dropped, taken>>

\* Back they go, before what has arrived since; beyond the limit the oldest
\* of all of them are dropped.
PutBack ==
  /\ batch = <<>> /\ kept # <<>>
  /\ LET all == kept \o inbox
         excess == IF Len(all) > MAX_NON_TASK_MESSAGES
                     THEN Len(all) - MAX_NON_TASK_MESSAGES ELSE 0
     IN /\ inbox' = SubSeq(all, excess + 1, Len(all))
        /\ dropped' = dropped \cup {all[i] : i \in 1..excess}
  /\ kept' = <<>>
  /\ UNCHANGED <<batch, running, outbox, arrived, taken>>

\* Mistake: a task that is killed leaves no result.
WrongFinishTask(n) ==
  /\ n \in running /\ running' = running \ {n}
  /\ UNCHANGED <<inbox, batch, kept, outbox, arrived, dropped, taken>>

\* execute_task returns, at its timeout at the latest, and frees the permit.
FinishTask(n) ==
  /\ n \in running
  /\ running' = running \ {n} /\ outbox' = Append(outbox, n)
  /\ UNCHANGED <<inbox, batch, kept, arrived, dropped, taken>>

Daemon == TakeInbox \/ StartTask \/ RejectTask \/ PutBack
=============================================================================
