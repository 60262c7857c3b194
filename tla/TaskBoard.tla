----------------------------- MODULE TaskBoard -----------------------------
(***************************************************************************)
(* team/task_board.rs on the vault of mcp/vault.rs, as the handlers of     *)
(* dashboard/web/teams.rs use it: tasks are notes, and every operation is  *)
(* a sequence of calls on them.  Other requests use the vault directly.    *)
(*                                                                         *)
(* Note 0 is tasks/INDEX.md, note i the task with number i (INDEX sorts    *)
(* before task-...), the remaining ones are unrelated.  The frontmatter of *)
(* a task note is its status and its owner; a note whose frontmatter does  *)
(* not parse is no task.                                                   *)
(***************************************************************************)
EXTENDS Vault, FiniteSets

CONSTANTS
  Agents,          \* who claims
  MaxTask,         \* bound on the numbers of tasks
  BoardCalls,      \* which operations of the board are requested
  OneCallPerTask   \* at most one operation at a time on a task, one creation

AllBoardCalls == {"create", "claim", "release", "start", "complete", "fail"}
TaskIds == 1..MaxTask
Index == 0

ASSUME BoardAssumption ==
  /\ MaxTask \in Nat /\ 0..MaxTask \subseteq Paths
  /\ BoardCalls \subseteq AllBoardCalls /\ OneCallPerTask \in BOOLEAN

Statuses == {"pending", "claimed", "inprogress", "completed", "failed"}
Stages == {"check", "update", "write", "reading", "index"}

\* The notes of tasks, and an operation of the board under way.
TaskHeads == [status : Statuses, owner : Agents \cup {None}]
TaskNotes == [head : TaskHeads \cup {None}, body : {<<>>}]
Jobs ==
  [op : AllBoardCalls, id : TaskIds, agent : Agents \cup {None}, stage : Stages,
   todo : SUBSET TaskIds]

\* What is answered, to the caller of an operation.
Answers == {"true", "false", "error"}
Operation ==
  [op : AllBoardCalls, id : TaskIds \cup {None}, agent : Agents \cup {None},
   answer : Answers \cup {None}]

ASSUME NoneAssumption ==
  None \notin TaskHeads \cup TaskNotes \cup Jobs \cup Answers \cup Operation

VARIABLES
  job,         \* task -> None, or the operation of the board it performs
  winners      \* task id -> the agents told that they claimed it, until a
               \* release lets it go (for the properties)

boardVars == <<job, winners>>
vars == <<vaultVars, boardVars>>

TaskHead(status, owner) == [status |-> status, owner |-> owner]
IsTask(answer) == answer.ok /\ answer.note.head # None
Piece(head, body) == [head |-> head, body |-> body]

\* list_notes("tasks"): the task files there are, whatever they contain.
TaskFiles == {i \in TaskIds : notes[i] # None}
NextTaskId == IF TaskFiles = {} THEN 1
              ELSE 1 + CHOOSE i \in TaskFiles : \A j \in TaskFiles : j <= i

\* Mistake: a task that is claimed can be claimed.
WrongAllows(op, status) == status \in {"pending", "claimed"}

\* What an operation makes of the task when it may.
Allows(op, status) ==
  CASE op = "claim"    -> status = "pending"
    [] op = "release"  -> status = "claimed"
    [] op = "start"    -> status = "claimed"
    [] op = "complete" -> status \in {"claimed", "inprogress"}
    [] OTHER           -> TRUE

\* claim_task answers false when somebody has the task, the rest is an error.
Refusal(op, status) ==
  IF op = "claim" /\ status \in {"claimed", "inprogress"} THEN "false" ELSE "error"

\* Mistake: a release leaves the owner as it is.
WrongUpdated(j, head) ==
  CASE j.op = "claim"   -> TaskHead("claimed", j.agent)
    [] j.op = "release" -> [head EXCEPT !.status = "pending"]
    [] j.op = "start"   -> [head EXCEPT !.status = "inprogress"]
    [] OTHER            -> [head EXCEPT !.status = "failed"]

Updated(j, head) ==
  CASE j.op = "claim"    -> TaskHead("claimed", j.agent)
    [] j.op = "release"  -> TaskHead("pending", None)
    [] j.op = "start"    -> [head EXCEPT !.status = "inprogress"]
    [] j.op = "complete" -> [head EXCEPT !.status = "completed"]
    [] OTHER             -> [head EXCEPT !.status = "failed"]

Busy(t) == job[t] # None
\* Under way, and not only with the index any more.
Changing(t) == IF Busy(t) THEN job[t].stage \in {"check", "update", "write"} ELSE FALSE
Replied(t, stage) == Busy(t) /\ job[t].stage = stage /\ At(t, "answered")

ReadCall(i) == Call("read", i, i, None)
WriteCall(i, piece) == Call("overwrite", i, i, piece)

Go(t, stage) == job' = [job EXCEPT ![t].stage = stage]
Return(t) == job' = [job EXCEPT ![t] = None]
Forget(t) == calls' = [calls EXCEPT ![t] = NoCall]

BoardInit ==
  /\ VaultInit
  /\ \A p \in Paths : notes[p] # None => p > MaxTask
  /\ job = [t \in Tasks |-> None]
  /\ winners = [i \in TaskIds |-> {}]
-----------------------------------------------------------------------------

\* A request on a task reads it first, but fail_task, which only updates.
Request(t, op, i, a) ==
  /\ op \in BoardCalls \ {"create"} /\ ~Busy(t) /\ Idle(t)
  /\ OneCallPerTask => \A u \in Tasks : Changing(u) => job[u].id # i
  /\ job' = [job EXCEPT ![t] =
               [op |-> op, id |-> i, agent |-> IF op = "claim" THEN a ELSE None,
                stage |-> IF op = "fail" THEN "update" ELSE "check",
                todo |-> {}]]
  /\ Invoke(t, ReadCall(i)) /\ UNCHANGED winners

\* create_task: the number after the largest there is, then the file.
Create(t) ==
  /\ "create" \in BoardCalls /\ ~Busy(t) /\ Idle(t) /\ NextTaskId <= MaxTask
  /\ OneCallPerTask => \A u \in Tasks : Changing(u) => job[u].op # "create"
  /\ job' = [job EXCEPT ![t] =
               [op |-> "create", id |-> NextTaskId, agent |-> None, stage |-> "write",
                todo |-> {}]]
  /\ Invoke(t, WriteCall(NextTaskId, Piece(TaskHead("pending", None), <<>>)))
  /\ UNCHANGED winners

\* The operation looks at what get_task returned, and has it read again.
Check(t) ==
  /\ Replied(t, "check")
  /\ LET found == calls[t].answer
     IN IF IsTask(found) /\ Allows(job[t].op, found.note.head.status)
          THEN Go(t, "update") /\ Invoke(t, ReadCall(job[t].id))
          ELSE Return(t) /\ Forget(t) /\ UNCHANGED <<notes, queue, holder>>
  /\ UNCHANGED winners

\* update_task: the fields given, on the task as it was read the second time.
Update(t) ==
  /\ Replied(t, "update")
  /\ LET found == calls[t].answer
         j == job[t]
     IN IF IsTask(found)
          THEN /\ Go(t, "write")
               /\ Invoke(t, WriteCall(j.id, Piece(Updated(j, found.note.head), found.note.body)))
               /\ winners' = IF j.op = "release" THEN [winners EXCEPT ![j.id] = {}] ELSE winners
          ELSE /\ Return(t) /\ Forget(t)
               /\ UNCHANGED <<notes, queue, holder, winners>>

\* The task is written.  What follows is best effort: regenerate_index lists
\* the tasks and reads them one by one (which statuses it lists is left out).
ReadNext(t, todo) ==
  IF todo = {}
    THEN Go(t, "index") /\ Invoke(t, WriteCall(Index, Piece(None, <<"index">>)))
    ELSE LET i == CHOOSE n \in todo : \A m \in todo : n <= m
         IN /\ job' = [job EXCEPT ![t].stage = "reading", ![t].todo = todo \ {i}]
            /\ Invoke(t, ReadCall(i))

Saved(t) ==
  /\ Replied(t, "write")
  /\ IF calls[t].answer.ok
       THEN ReadNext(t, TaskFiles)
       ELSE Return(t) /\ Forget(t) /\ UNCHANGED <<notes, queue, holder>>
  /\ winners' = IF calls[t].answer.ok /\ job[t].op = "claim"
                  THEN [winners EXCEPT ![job[t].id] = @ \cup {job[t].agent}] ELSE winners

ReadOne(t) ==
  /\ Replied(t, "reading") /\ ReadNext(t, job[t].todo)
  /\ UNCHANGED winners

Indexed(t) ==
  /\ Replied(t, "index") /\ Return(t) /\ Forget(t)
  /\ UNCHANGED <<notes, queue, holder, winners>>

\* The vault tool and the note handlers of the dashboard.
UseVault(t) ==
  /\ ~Busy(t)
  /\ \E c \in VaultCalls : Invoke(t, c)
  /\ UNCHANGED boardVars

Restart ==
  /\ Crash /\ job' = [t \in Tasks |-> None] /\ UNCHANGED winners

Next ==
  \/ \E t \in Tasks : UseVault(t)
  \/ \E t \in Tasks : Create(t)
  \/ \E t \in Tasks, op \in BoardCalls, i \in TaskIds, a \in Agents : Request(t, op, i, a)
  \/ \E t \in Tasks : Check(t)
  \/ \E t \in Tasks : Update(t)
  \/ \E t \in Tasks : Saved(t)
  \/ \E t \in Tasks : ReadOne(t)
  \/ \E t \in Tasks : Indexed(t)
  \/ \E t \in Tasks : Access(t) /\ UNCHANGED boardVars
  \/ Restart

Spec == BoardInit /\ [][Next]_vars
-----------------------------------------------------------------------------
(* Properties *)

\* What an operation answers, as soon as it is settled.
Told(j, k) ==
  CASE j.stage = "check" /\ k.at = "answered" ->
         IF ~IsTask(k.answer) THEN "error"
         ELSE IF Allows(j.op, k.answer.note.head.status) THEN None
         ELSE Refusal(j.op, k.answer.note.head.status)
    [] j.stage = "update" /\ k.at = "answered" -> IF IsTask(k.answer) THEN None ELSE "error"
    [] j.stage = "write" /\ k.at = "answered"  -> IF k.answer.ok THEN "true" ELSE "error"
    [] j.stage \in {"reading", "index"}        -> "true"
    [] OTHER                                   -> None

\* The operation of a job that has made the call k, as its requester sees it.
OperationOf(j, k) ==
  IF j = None THEN None
  ELSE [op |-> j.op, id |-> IF j.op = "create" THEN None ELSE j.id, agent |-> j.agent,
        answer |-> Told(j, k)]

BoardTasks == [i \in TaskIds |-> IF Visible[i] = None THEN None ELSE Visible[i].head]

Operations == [t \in Tasks |-> OperationOf(job[t], calls[t])]

Atomic == INSTANCE Board WITH tasks <- BoardTasks, operations <- Operations

\* While no two operations change one task at the same time, the board behaves
\* as if each were a single step, whatever happens meanwhile to the other
\* tasks, to INDEX.md and through the vault.
BoardAtomic == Atomic!Spec

Quiet(i) == \A t \in Tasks : Changing(t) => job[t].id # i

\* Whom claim_task told that it has a task owns it until it lets it go, though
\* every update rewrites the whole note from a copy.
ClaimHolds ==
  \A i \in TaskIds : \A a \in winners[i] :
    Quiet(i) /\ BoardTasks[i] # None => BoardTasks[i].owner = a

\* "Atomically claim a task": no two agents have the same task.
ClaimExclusive == \A i \in TaskIds : \A a, b \in winners[i] : a = b
=============================================================================
