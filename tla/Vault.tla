------------------------------- MODULE Vault -------------------------------
(***************************************************************************)
(* mcp/vault.rs: concurrent calls on the notes, one file access at a time. *)
(*                                                                         *)
(* VaultManager keeps one tokio RwLock per path.  Such a lock is fair: who *)
(* asks first is served first.  A reader reads the file and goes; it is    *)
(* one step here, at a moment when nobody holds the lock for writing.  A   *)
(* writer keeps the lock while it reads the file, truncates it (what       *)
(* fs::write does first) and writes it.  move_note takes two locks, search *)
(* takes none.                                                             *)
(***************************************************************************)
EXTENDS Notes

CONSTANTS
  Tasks,       \* concurrent requests of agents and of the dashboard
  Paths,       \* canonical paths, in the order of PathBuf
  VaultCalls,  \* the calls that are requested
  Faults       \* which failures happen: "io" (a file access fails), "crash"

\* A call names notes of the vault.
IsCall(c) == c.op \in Ops /\ c.path \in Paths /\ c.to \in Paths

ASSUME VaultAssumption ==
  /\ Paths \subseteq Nat /\ None \notin Tasks /\ None # Empty
  /\ Faults \subseteq {"io", "crash"}
  /\ \A c \in VaultCalls : IsCall(c)

VARIABLES
  notes,       \* the files: path -> content, None when there is none
  queue,       \* path -> the tasks that wait for its lock, FIFO
  holder,      \* path -> the task that holds it for writing, or None
  calls        \* task -> its last call, where it stands and its answer

vaultVars == <<notes, queue, holder, calls>>

\* Where a call stands: at its (first) lock, at the second one of a move,
\* with its file truncated, answered.
Places == {"idle", "lock", "second", "truncated", "answered"}

NoCall == [call |-> None, at |-> "idle", answer |-> None, old |-> None]
At(t, place) == calls[t].at = place
Idle(t) == calls[t].at \in {"idle", "answered"}

\* Mistake: the source first.
WrongLockOrder(c) == <<c.path, c.to>>

\* move_note locks its two paths in the order of the paths.
LockOrder(c) == IF c.path <= c.to THEN <<c.path, c.to>> ELSE <<c.to, c.path>>
FirstLock(c) == IF c.op \in Movers THEN LockOrder(c)[1] ELSE c.path
SecondLock(c) == LockOrder(c)[2]

\* Mistake: a writer that is at work does not keep others out.
WrongMayEnter(t, p) == queue[p] # <<>> /\ Head(queue[p]) = t

\* Next in line for the lock of p, and nobody writes there.
MayEnter(t, p) == queue[p] # <<>> /\ Head(queue[p]) = t /\ holder[p] = None

Leave(p) == queue' = [queue EXCEPT ![p] = Tail(@)]
Free(ps) == holder' = [p \in Paths |-> IF p \in ps THEN None ELSE holder[p]]

Stand(t, place) == calls' = [calls EXCEPT ![t].at = place]
Answer(t, a) == calls' = [calls EXCEPT ![t].at = "answered", ![t].answer = a]

VaultInit ==
  /\ notes \in [Paths -> {None, Empty}]
  /\ queue = [p \in Paths |-> <<>>]
  /\ holder = [p \in Paths |-> None]
  /\ calls = [t \in Tasks |-> NoCall]
-----------------------------------------------------------------------------

\* A call arrives.  All but search ask for a lock.
Invoke(t, c) ==
  /\ Idle(t)
  /\ calls' = [calls EXCEPT ![t] =
                 [call |-> c, at |-> "lock", answer |-> None, old |-> None]]
  /\ queue' = IF c.op = "search" THEN queue
              ELSE [queue EXCEPT ![FirstLock(c)] = Append(@, t)]
  /\ UNCHANGED <<notes, holder>>

\* read_note, get_frontmatter, get_tags, each read of a batch.
Read(t) ==
  /\ At(t, "lock") /\ calls[t].call.op = "read"
  /\ LET c == calls[t].call
     IN MayEnter(t, c.path) /\ Leave(c.path) /\ Answer(t, AnswerTo(notes, c))
  /\ UNCHANGED <<notes, holder>>

\* search and its like walk the files without a lock.
Search(t) ==
  /\ At(t, "lock") /\ calls[t].call.op = "search"
  /\ Answer(t, AnswerTo(notes, calls[t].call))
  /\ UNCHANGED <<notes, queue, holder>>

Delete(t) ==
  /\ At(t, "lock") /\ calls[t].call.op = "delete"
  /\ LET c == calls[t].call
     IN /\ MayEnter(t, c.path) /\ Leave(c.path)
        /\ notes' = After(notes, c)
        /\ Answer(t, AnswerTo(notes, c))
  /\ UNCHANGED holder

\* A writer has the lock: it reads the file if its kind of call needs to,
\* and truncates it if there is something to write.
Open(t) ==
  /\ At(t, "lock") /\ calls[t].call.op \in Writers
  /\ LET c == calls[t].call
     IN /\ MayEnter(t, c.path) /\ Leave(c.path)
        /\ IF Opens(notes, c) /\ Rewrites(Before(notes, c), c)
             THEN /\ holder' = [holder EXCEPT ![c.path] = t]
                  /\ notes' = [notes EXCEPT ![c.path] = Empty]
                  /\ calls' = [calls EXCEPT ![t].at = "truncated", ![t].old = notes[c.path]]
             ELSE Answer(t, AnswerTo(notes, c)) /\ UNCHANGED <<notes, holder>>

\* Mistake: the lock is not released.
WrongWrite(t) ==
  /\ At(t, "truncated")
  /\ LET c == calls[t].call
     IN notes' = [notes EXCEPT ![c.path] = Written(Content(calls[t].old), c)]
  /\ Answer(t, Done) /\ UNCHANGED <<queue, holder>>

\* The text is written and the lock released.
Write(t) ==
  /\ At(t, "truncated")
  /\ LET c == calls[t].call
     IN /\ notes' = [notes EXCEPT ![c.path] = Written(Content(calls[t].old), c)]
        /\ Free({c.path})
  /\ Answer(t, Done) /\ UNCHANGED queue

\* move_note has its first lock and asks for the second.
LockFirst(t) ==
  /\ At(t, "lock") /\ calls[t].call.op \in Movers
  /\ LET c == calls[t].call
     IN /\ MayEnter(t, FirstLock(c))
        /\ holder' = [holder EXCEPT ![FirstLock(c)] = t]
        /\ queue' = [[queue EXCEPT ![FirstLock(c)] = Tail(@)]
                       EXCEPT ![SecondLock(c)] = Append(@, t)]
  /\ Stand(t, "second") /\ UNCHANGED notes

\* It has both: it looks, renames and releases them.
Move(t) ==
  /\ At(t, "second")
  /\ LET c == calls[t].call
     IN /\ MayEnter(t, SecondLock(c)) /\ Leave(SecondLock(c))
        /\ notes' = After(notes, c)
        /\ Free({FirstLock(c), SecondLock(c)})
        /\ Answer(t, AnswerTo(notes, c))

\* A file access fails: before the truncation, or after it.
IoError(t) ==
  /\ "io" \in Faults
  /\ LET c == calls[t].call
     IN \/ /\ At(t, "lock") /\ c.op \notin Movers \cup {"search"}
           /\ MayEnter(t, c.path) /\ Leave(c.path) /\ UNCHANGED holder
        \/ At(t, "truncated") /\ Free({c.path}) /\ UNCHANGED queue
        \/ /\ At(t, "second") /\ MayEnter(t, SecondLock(c)) /\ Leave(SecondLock(c))
           /\ Free({FirstLock(c), SecondLock(c)})
  /\ Answer(t, Refused) /\ UNCHANGED notes

\* The daemon ends and starts again: the files are what is left.
Crash ==
  /\ "crash" \in Faults
  /\ queue' = [p \in Paths |-> <<>>] /\ holder' = [p \in Paths |-> None]
  /\ calls' = [t \in Tasks |-> NoCall]
  /\ UNCHANGED notes

Access(t) ==
  \/ Read(t) \/ Search(t) \/ Delete(t) \/ Open(t) \/ Write(t)
  \/ LockFirst(t) \/ Move(t) \/ IoError(t)

VaultNext ==
  \/ \E t \in Tasks : \E c \in VaultCalls : Invoke(t, c)
  \/ \E t \in Tasks : Access(t)
  \/ Crash

VaultSpec == VaultInit /\ [][VaultNext]_vaultVars

\* The runtime polls a task that is woken, and the file system answers.
VaultFairness ==
  \A t \in Tasks : WF_vaultVars(Access(t))

FairVaultSpec == VaultSpec /\ VaultFairness
-----------------------------------------------------------------------------
(* Properties *)

Who == Tasks \cup {None}

VaultTypeOK ==
  /\ DOMAIN notes = Paths
  /\ queue \in [Paths -> Seq(Tasks)]
  /\ holder \in [Paths -> Who]
  /\ DOMAIN calls = Tasks
  /\ \A t \in Tasks :
       /\ DOMAIN calls[t] = DOMAIN NoCall /\ calls[t].at \in Places
       /\ ~At(t, "idle") => IsCall(calls[t].call)

\* Who holds the lock of p for writing, by where the calls stand.
Holding(t, p) ==
  \/ At(t, "truncated") /\ calls[t].call.path = p
  \/ At(t, "second") /\ FirstLock(calls[t].call) = p

\* A lock is held by the one call that is inside of it, and never longer: of two
\* calls only one stands where it has truncated a note or waits for a second lock.
LocksMatchCalls ==
  \A p \in Paths, t \in Tasks : holder[p] = t <=> Holding(t, p)

VaultInv == VaultTypeOK /\ LocksMatchCalls

\* The notes as those see them who respect the locks: a note that is being
\* rewritten still has its former content.
Visible ==
  [p \in Paths |->
     IF holder[p] = None THEN notes[p]
     ELSE IF calls[holder[p]].at = "truncated" THEN calls[holder[p]].old ELSE notes[p]]

\* The callers of the abstract store.
Callers ==
  [t \in Tasks |->
     [call |-> calls[t].call, pending |-> ~Idle(t), answer |-> calls[t].answer]]

Store == INSTANCE NoteStore WITH notes <- Visible, calls <- Callers

\* The vault implements the atomic store: no call reads a note that is half
\* written, and of two writers of a note neither loses what the other wrote.
NotesAtomic == Store!Spec

\* Every call is answered: the locks are fair, and moves take their two in one
\* order ("Lock both paths in deterministic order to prevent deadlocks").
CallsAnswered == \A t \in Tasks : ~Idle(t) ~> Idle(t)
=============================================================================
