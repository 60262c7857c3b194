-------------------------- MODULE TaskBoard_proofs --------------------------
(***************************************************************************)
(* Proofs about the task board, for any number of tasks, agents, requests  *)
(* and notes: its operations are single steps of Board, and a claim holds. *)
(*                                                                         *)
(* An operation writes a task from a copy it has read in an earlier step.  *)
(* The invariant says what such an operation still knows of its task       *)
(* (Knows), and why nobody invalidates it: the operations that change one  *)
(* task are apart (Apart), and the locks of the vault do the rest (IInv).  *)
(***************************************************************************)
EXTENDS TaskBoard, Vault_proofs, WellFoundedInduction

-----------------------------------------------------------------------------
(* What is known of a task while an operation is at work on it *)

\* Only the operations of the board write the notes of tasks.
OthersLeaveTasks ==
  \A c \in VaultCalls : c.op \in Readers \/ {c.path, c.to} \cap TaskIds = {}

\* The call that an operation has made, by its stage.
Fits(j, k) ==
  /\ k.at # "idle" /\ (j.op = "claim" => j.agent \in Agents)
  /\ j.stage \in {"check", "update"} => j.op # "create" /\ k.call = ReadCall(j.id)
  /\ j.stage = "write" => k.call = WriteCall(j.id, k.call.piece)
  /\ j.stage = "reading" => k.call.op = "read"
  /\ j.stage = "index" => k.call = WriteCall(Index, k.call.piece)

\* The note of a task.
IsTaskNote(note) == note # None /\ note.head # None

\* What an operation that is to write a task knows of its note, although it has
\* read it in other steps.
Knows(j, k, note, won) ==
  /\ j.stage \in {"check", "update"} /\ k.at = "answered" /\ IsTask(k.answer) =>
       IsTaskNote(note) /\ note = k.answer.note
  /\ j.stage = "update" /\ j.op # "fail" => IsTaskNote(note) /\ Allows(j.op, note.head.status)
  /\ j.stage = "write" /\ k.at # "answered" /\ j.op # "create" =>
       /\ IsTaskNote(note) /\ Allows(j.op, note.head.status)
       /\ k.call.piece = Piece(Updated(j, note.head), note.body)
       /\ j.op = "release" => won = {}
  /\ j.stage = "write" /\ k.at # "answered" /\ j.op = "create" =>
       note = None /\ k.call.piece = Piece(TaskHead("pending", None), <<>>)
  /\ j.stage = "write" /\ k.at = "answered" /\ k.answer.ok /\ j.op = "claim" =>
       note # None /\ note.head = TaskHead("claimed", j.agent)

\* Who was told that he has a task owns it, if it has not lost its text.
Wins(note, won) ==
  \A a \in won : /\ note # None
                 /\ note.head # None => note.head.owner = a /\ note.head.status # "pending"

\* Of the operations that change a task one at most did not create it, and one
\* task at most is being created.
Apart ==
  \A t, u \in Tasks : Changing(t) /\ Changing(u) /\ t # u =>
    IF job[t].op = "create" THEN job[u].op # "create"
    ELSE job[u].op = "create" \/ job[u].id # job[t].id

JobsOK ==
  /\ job \in [Tasks -> Jobs \cup {None}]
  /\ winners \in [TaskIds -> SUBSET Agents]
  /\ \A t \in Tasks :
       IF job[t] = None THEN calls[t].at = "idle" \/ calls[t].call \in VaultCalls
       ELSE Fits(job[t], calls[t])

TasksOK ==
  /\ \A t \in Tasks : job[t] # None =>
       Knows(job[t], calls[t], Visible[job[t].id], winners[job[t].id])
  /\ \A i \in TaskIds : Visible[i] \in TaskNotes \cup {None} /\ Wins(Visible[i], winners[i])

BoardInv == IInv /\ JobsOK /\ Apart /\ TasksOK

-----------------------------------------------------------------------------
(* Numbers and calls *)

LEMMA PathsOfTasks ==
  /\ TaskIds \subseteq Paths /\ Index \in Paths /\ Index \notin TaskIds
  /\ TaskIds \subseteq Nat
BY BoardAssumption DEF TaskIds, Index

\* Every set of numbers of tasks has a smallest and a largest one.
LEMMA Least ==
  ASSUME NEW S, S \subseteq Nat, S # {}
  PROVE  \E n \in S : \A m \in S : n <= m
<1> DEFINE less == {pair \in Nat \X Nat : pair[1] < pair[2]}
<1>1. IsWellFoundedOn(less, Nat)
  BY NatLessThanWellFounded, Zenon DEF OpToRel
<1>2. PICK n \in S : \A m \in S : <<m, n>> \notin less
  BY <1>1, WFMin, Zenon
<1>3. ASSUME NEW m \in S PROVE n <= m
  <2>1. n \in Nat /\ m \in Nat
    OBVIOUS
  <2>2. <<m, n>> \notin less
    BY <1>2
  <2>3. ~(m < n)
    BY <2>1, <2>2
  <2>4. QED
    BY <2>1, <2>3
<1>4. QED
  BY <1>3

LEMMA Largest ==
  ASSUME NEW S, S \subseteq TaskIds, S # {}
  PROVE  \E n \in S : \A m \in S : m <= n
<1> DEFINE T == {MaxTask - i : i \in S}
<1>1. MaxTask \in Nat /\ S \subseteq 1..MaxTask
  BY BoardAssumption DEF TaskIds
<1>2. T \subseteq Nat /\ T # {}
  <2>1. ASSUME NEW i \in S PROVE MaxTask - i \in Nat
    <3>1. i \in 1..MaxTask
      BY <1>1
    <3>2. QED
      BY <1>1, <3>1
  <2>2. QED
    BY <2>1
<1> HIDE DEF T
<1>3. PICK d \in T : \A e \in T : d <= e
  BY <1>2, Least
<1>4. PICK n \in S : d = MaxTask - n
  BY DEF T
<1>5. ASSUME NEW m \in S PROVE m <= n
  <2>1. MaxTask - m \in T
    BY DEF T
  <2>2. d <= MaxTask - m
    BY <1>3, <2>1
  <2>3. n \in 1..MaxTask /\ m \in 1..MaxTask
    BY <1>1
  <2>4. QED
    BY <1>1, <1>4, <2>2, <2>3
<1>6. QED
  BY <1>5

\* create_task takes a number that no file has.
LEMMA NewNumber ==
  ASSUME NextTaskId <= MaxTask
  PROVE  NextTaskId \in TaskIds /\ notes[NextTaskId] = None
<1>1. CASE TaskFiles = {}
  <2>1. NextTaskId = 1
    BY <1>1 DEF NextTaskId
  <2>2. NextTaskId \in TaskIds
    BY <2>1, BoardAssumption DEF TaskIds
  <2>3. QED
    BY <1>1, <2>2 DEF TaskFiles
<1>2. CASE TaskFiles # {}
  <2> DEFINE n == CHOOSE i \in TaskFiles : \A j \in TaskFiles : j <= i
  <2>1. TaskFiles \subseteq TaskIds
    BY DEF TaskFiles
  <2>2. n \in TaskFiles /\ \A j \in TaskFiles : j <= n
    BY <1>2, <2>1, Largest
  <2>3. NextTaskId = 1 + n
    BY <1>2 DEF NextTaskId
  <2> HIDE DEF n
  <2>4. n \in Nat /\ n \in TaskIds
    BY <2>1, <2>2, PathsOfTasks
  <2>5. NextTaskId \in TaskIds
    BY <2>3, <2>4, BoardAssumption DEF TaskIds
  <2>6. NextTaskId \notin TaskFiles
    BY <2>2, <2>3, <2>4, <2>5, PathsOfTasks
  <2>7. QED
    BY <2>5, <2>6 DEF TaskFiles
<1>3. QED
  BY <1>1, <1>2

\* The calls of the board name notes of the vault.
LEMMA BoardCallsAreCalls ==
  ASSUME NEW i \in TaskIds \cup {Index}, NEW piece
  PROVE  IsCall(ReadCall(i)) /\ IsCall(WriteCall(i, piece))
BY PathsOfTasks DEF IsCall, ReadCall, WriteCall, Call, Ops, Readers, Writers, Creators

\* None is nothing else.
LEMMA NoneIsNothing ==
  /\ None \notin TaskHeads /\ None \notin TaskNotes /\ None \notin Jobs
  /\ None # "true" /\ None # "false" /\ None # "error" /\ None \notin Operation
BY NoneAssumption DEF Answers

-----------------------------------------------------------------------------
(* What the steps of the vault leave alone *)

LEMMA InvokeEffect ==
  ASSUME IInv, NEW t \in Tasks, NEW c, Invoke(t, c)
  PROVE  /\ Idle(t) /\ DOMAIN calls' = Tasks /\ \A u \in Tasks \ {t} : calls'[u] = calls[u]
         /\ calls'[t] = [call |-> c, at |-> "lock", answer |-> None, old |-> None]
         /\ Visible' = Visible
<1>1. DOMAIN calls = Tasks
  BY DEF IInv, VaultInv, VaultTypeOK
<1>2. /\ Idle(t) /\ DOMAIN calls' = Tasks /\ \A u \in Tasks \ {t} : calls'[u] = calls[u]
      /\ calls'[t] = [call |-> c, at |-> "lock", answer |-> None, old |-> None]
      /\ UNCHANGED <<notes, holder>>
  BY <1>1 DEF Invoke
<1>3. ~At(t, "truncated") /\ ~At(t, "second")
  BY <1>2 DEF Idle, At
<1>4. ASSUME NEW p \in Paths PROVE Visible'[p] = Visible[p]
  <2>1. holder'[p] = holder[p] /\ notes'[p] = notes[p] /\ holder[p] \in Who
    BY <1>2 DEF IInv, VaultInv, VaultTypeOK
  <2>2. holder[p] # t
    BY <1>3, Outside DEF IInv
  <2>3. QED
    BY <1>2, <2>1, <2>2, VisibleNext
<1>5. QED
  BY <1>2, <1>4 DEF Visible

LEMMA ForgetEffect ==
  ASSUME IInv, NEW t \in Tasks, Idle(t), Forget(t), UNCHANGED <<notes, queue, holder>>
  PROVE  /\ calls'[t] = NoCall /\ \A u \in Tasks \ {t} : calls'[u] = calls[u]
         /\ Visible' = Visible /\ IInv'
<1>1. VaultTypeOK /\ VaultInv
  BY DEF IInv, VaultInv
<1>2. /\ DOMAIN calls' = Tasks /\ calls'[t] = NoCall /\ \A u \in Tasks \ {t} : calls'[u] = calls[u]
  BY <1>1 DEF Forget, VaultTypeOK
<1>3. ~At(t, "truncated") /\ ~At(t, "second")
  BY DEF Idle, At
<1>4. \A p \in Paths : holder[p] # t
  BY <1>1, <1>3, Outside
<1>5. ASSUME NEW p \in Paths PROVE Visible'[p] = Visible[p]
  <2>1. holder'[p] = holder[p] /\ notes'[p] = notes[p] /\ holder[p] \in Who
    BY <1>1 DEF VaultTypeOK
  <2>2. QED
    BY <1>2, <1>4, <2>1, VisibleNext
<1>6. VaultTypeOK'
  BY <1>1, <1>2 DEF VaultTypeOK, NoCall, At, Places
<1>7. LocksMatchCalls'
  <2> SUFFICES ASSUME NEW p \in Paths, NEW u \in Tasks PROVE holder'[p] = u <=> Holding(u, p)'
    BY DEF LocksMatchCalls
  <2>1. CASE u = t
    BY <1>2, <1>4, <2>1 DEF Holding, At, NoCall
  <2>2. CASE u # t
    BY <1>1, <1>2, <2>2, OthersKeep
  <2>3. QED
    BY <2>1, <2>2
<1>8. Rewriting(t)' /\ Moving(t)'
  BY <1>2 DEF Rewriting, Moving, At, NoCall
<1>9. \A u \in Tasks \ {t} : Rewriting(u)' /\ Moving(u)'
  BY <1>2, OthersKeepNotes
<1>10. QED
  BY <1>2, <1>5, <1>6, <1>7, <1>8, <1>9 DEF Visible, IInv, VaultInv

LEMMA AccessEffect ==
  ASSUME IInv, NEW t \in Tasks, Access(t)
  PROVE  /\ ~Idle(t) /\ ~At(t, "idle") /\ calls'[t].at # "idle"
         /\ calls'[t].call = calls[t].call
         /\ \A u \in Tasks \ {t} : calls'[u] = calls[u]
<1>0. VaultTypeOK
  BY DEF IInv, VaultInv
<1>1. ~Idle(t) /\ ~At(t, "idle")
  BY DEF Access, Read, Search, Delete, Open, Write, LockFirst, Move, IoError, Idle, At
<1>2. ASSUME NEW a, Answer(t, a)
      PROVE  /\ calls'[t].at # "idle" /\ calls'[t].call = calls[t].call
             /\ \A u \in Tasks \ {t} : calls'[u] = calls[u]
  BY <1>0, <1>2, AnswerEffect
<1>3. CASE Open(t)
  <2>1. CASE \E a : Answer(t, a)
    <3>1. PICK a : Answer(t, a)
      BY <2>1
    <3>2. QED
      BY <1>1, <1>2, <3>1
  <2>2. CASE calls' = [calls EXCEPT ![t].at = "truncated", ![t].old = notes[calls[t].call.path]]
    BY <1>0, <1>1, <2>2, TruncateEffect
  <2>3. QED
    BY <1>3, <2>1, <2>2 DEF Open
<1>4. CASE LockFirst(t)
  BY <1>0, <1>1, <1>4, StandEffect DEF LockFirst
<1>5. CASE ~Open(t) /\ ~LockFirst(t)
  <2>1. \E a : Answer(t, a)
    BY <1>5 DEF Access, Read, Search, Delete, Write, Move, IoError
  <2>2. PICK a : Answer(t, a)
    BY <2>1
  <2>3. QED
    BY <1>1, <1>2, <2>2
<1>6. QED
  BY <1>3, <1>4, <1>5

-----------------------------------------------------------------------------
(* What an operation knows of its task *)

LEMMA BusyTask ==
  ASSUME BoardInv, NEW t \in Tasks, Busy(t)
  PROVE  /\ job[t] \in Jobs /\ job[t].id \in TaskIds /\ job[t].stage \in Stages
         /\ Fits(job[t], calls[t]) /\ ~At(t, "idle")
         /\ Knows(job[t], calls[t], Visible[job[t].id], winners[job[t].id])
BY DEF BoardInv, JobsOK, TasksOK, Busy, Jobs, Fits, At

\* Operations that only list the tasks rely on nothing.
LEMMA KnowsNoMore ==
  ASSUME NEW j, NEW k, j.stage \in {"reading", "index"}
  PROVE  \A note, won : Knows(j, k, note, won)
BY DEF Knows

\* Who has found a task can rely on nothing while there is none.
LEMMA KnowsNoNote ==
  ASSUME NEW j, NEW k, NEW won, j.op # "create", Knows(j, k, None, won)
  PROVE  \A n, w : Knows(j, k, n, w)
BY DEF Knows, IsTaskNote

\* Who creates a task has written it, or there is none.
LEMMA KnowsCreated ==
  ASSUME NEW j, NEW k, NEW note, NEW won, j.op = "create", Fits(j, k), note # None,
         Knows(j, k, note, won)
  PROVE  \A n, w : Knows(j, k, n, w)
BY DEF Knows, Fits

\* So nobody relies on a task that another is about to change.
LEMMA OthersKnow ==
  ASSUME BoardInv, NEW t \in Tasks, NEW u \in Tasks, u # t, Busy(u), Changing(t),
         job[u].id = job[t].id,
         Visible[job[t].id] = None <=> job[t].op = "create"
  PROVE  \A n, w : Knows(job[u], calls[u], n, w)
<1>1. /\ Fits(job[u], calls[u]) /\ job[u].stage \in Stages
      /\ Knows(job[u], calls[u], Visible[job[u].id], winners[job[u].id])
  BY BusyTask
<1>2. CASE ~Changing(u)
  <2>1. job[u].stage \in {"reading", "index"}
    BY <1>1, <1>2 DEF Changing, Stages
  <2>2. QED
    BY <2>1, KnowsNoMore
<1>3. CASE Changing(u)
  <2>1. job[t].op = "create" <=> job[u].op # "create"
    BY <1>3 DEF BoardInv, Apart
  <2>2. QED
    BY <1>1, <2>1, KnowsNoNote, KnowsCreated
<1>4. QED
  BY <1>2, <1>3

-----------------------------------------------------------------------------
(* What an access does to the tasks *)

LEMMA CallersNow ==
  ASSUME IInv, NEW t \in Tasks
  PROVE  /\ Callers[t].call = calls[t].call /\ Callers[t].answer = calls[t].answer
         /\ Callers[t].pending = ~Idle(t)
         /\ DOMAIN Callers = Tasks
BY DEF Callers

LEMMA AnsweredThen ==
  ASSUME NEW t \in Tasks, NEW c, NEW a, Callers'[t] = Store!Answered(c, a),
         calls'[t].at # "idle"
  PROVE  calls'[t].at = "answered" /\ calls'[t].answer = a
<1>1. Callers'[t].pending = ~Idle(t)' /\ Callers'[t].answer = calls'[t].answer
  BY DEF Callers
<1>2. Callers'[t].pending = FALSE /\ Callers'[t].answer = a
  BY DEF Store!Answered
<1>3. ~Idle(t)' = FALSE /\ calls'[t].answer = a
  BY <1>1, <1>2
<1>4. Idle(t)'
  BY <1>3
<1>5. QED
  BY <1>3, <1>4 DEF Idle

LEMMA WaitingThen ==
  ASSUME NEW t \in Tasks, Callers' = Callers, ~Idle(t)
  PROVE  calls'[t].at # "answered"
<1>1. /\ Callers'[t].pending = ~Idle(t)'
      /\ Callers[t].pending = ~Idle(t)
  BY DEF Callers
<1>2. ~Idle(t)' = ~Idle(t)
  BY <1>1
<1>3. ~Idle(t)'
  BY <1>2
<1>4. QED
  BY <1>3 DEF Idle

\* A call changes no note but those it names, and a reader none.
LEMMA AfterElsewhere ==
  ASSUME NEW n, NEW c, NEW i \in DOMAIN n, c.op \in Readers \/ i \notin {c.path, c.to}
  PROVE  After(n, c)[i] = n[i]
<1>1. CASE ~Succeeds(n, c) \/ c.op \in Readers
  BY <1>1, AfterIs
<1>2. CASE i \notin {c.path, c.to}
  BY <1>2 DEF After, AfterMove
<1>3. QED
  BY <1>1, <1>2

\* Only a call of the board makes a task different.
LEMMA OtherAccess ==
  ASSUME OthersLeaveTasks, BoardInv, IInv', NEW t \in Tasks, ~Busy(t), Access(t),
         NEW i \in TaskIds
  PROVE  Visible'[i] = Visible[i]
<1> DEFINE c == calls[t].call
<1>1. c \in VaultCalls /\ IInv /\ ~At(t, "idle")
  BY AccessEffect DEF BoardInv, JobsOK, Busy, At
<1>2. c.op \in Readers \/ i \notin {c.path, c.to}
  BY <1>1 DEF OthersLeaveTasks
<1>3. i \in Paths
  BY PathsOfTasks
<1>4. CASE Store!Perform(t)
  <2>1. Visible' = After(Visible, c)
    BY <1>1, <1>4, CallersNow, SameAnswers DEF Store!Perform
  <2>2. i \in DOMAIN Visible
    BY <1>3 DEF Visible
  <2>3. QED
    BY <1>2, <2>1, <2>2, AfterElsewhere
<1>5. CASE Store!Fail(t)
  <2>1. Visible' = Visible \/ (c.op \in Writers /\ Visible' = [Visible EXCEPT ![c.path] = Empty])
    BY <1>1, <1>5, CallersNow, SameSets DEF Store!Fail
  <2>2. QED
    BY <1>2, <1>3, <2>1 DEF Visible, Writers, Creators, Editors, Readers
<1>6. CASE Store!SearchInPassing(t) \/ Visible' = Visible
  BY <1>6 DEF Store!SearchInPassing
<1>7. QED
  BY <1>1, <1>4, <1>5, <1>6, AccessIsStep

\* What the calls of an operation come to: nothing yet, a failure, a note that
\* was read, one that was written, or one that was lost.
Unsettled(t) == Visible' = Visible /\ calls'[t].at # "answered"
Failing(t) ==
  /\ \A i \in TaskIds : Visible'[i] = Visible[i]
  /\ calls'[t].at = "answered" /\ calls'[t].answer = Refused
Reading(t) ==
  /\ Visible' = Visible
  /\ calls'[t].at = "answered"
  /\ \/ job[t].stage = "reading"
     \/ /\ job[t].stage \in {"check", "update"} /\ Visible[job[t].id] # None
        /\ calls'[t].answer = Found(Visible[job[t].id])
Indexing(t) ==
  /\ \A i \in TaskIds : Visible'[i] = Visible[i]
  /\ calls'[t].at = "answered" /\ job[t].stage = "index"
Writing(t) ==
  /\ job[t].stage = "write"
  /\ Visible' = [Visible EXCEPT ![job[t].id] =
                   Piece(calls[t].call.piece.head, calls[t].call.piece.body)]
  /\ calls'[t].at = "answered" /\ calls'[t].answer = Done
Losing(t) ==
  /\ job[t].stage = "write"
  /\ Visible' = [Visible EXCEPT ![job[t].id] = Empty]
  /\ calls'[t].at = "answered" /\ calls'[t].answer = Refused

LEMMA BoardAccess ==
  ASSUME BoardInv, IInv', NEW t \in Tasks, Busy(t), Access(t)
  PROVE  \/ Unsettled(t) \/ Failing(t) \/ Reading(t) \/ Indexing(t)
         \/ Writing(t) \/ Losing(t)
<1> DEFINE c == calls[t].call
           i == job[t].id
<1>1. /\ IInv /\ ~Idle(t) /\ ~At(t, "idle") /\ calls'[t].at # "idle"
      /\ job[t].stage \in Stages /\ i \in TaskIds /\ Fits(job[t], calls[t])
  BY AccessEffect, BusyTask DEF BoardInv
<1>2. i \in Paths /\ Index \in Paths /\ Index \notin TaskIds
  BY <1>1, PathsOfTasks
<1>3. CASE job[t].stage \in {"check", "update", "reading"}
  <2>1. c.op = "read" /\ (job[t].stage # "reading" => c.path = i)
    BY <1>1, <1>3 DEF Fits, ReadCall, Call
  <2>2. CASE Store!Perform(t)
    <3>1. /\ Visible' = After(Visible, c) /\ Callers'[t] = Store!Answered(c, AnswerTo(Visible, c))
      BY <1>1, <2>2, CallersNow, SameAnswers DEF Store!Perform
    <3>2. calls'[t].at = "answered" /\ calls'[t].answer = AnswerTo(Visible, c)
      BY <1>1, <3>1, AnsweredThen
    <3>3. Visible' = Visible
      BY <2>1, <3>1, AfterIs DEF Readers
    <3>4. AnswerTo(Visible, c) = IF Visible[c.path] = None THEN Refused ELSE Found(Visible[c.path])
      BY <2>1 DEF AnswerTo, Succeeds, Writers, Creators, Editors, Movers, Readers
    <3>5. QED
      BY <1>3, <2>1, <3>2, <3>3, <3>4 DEF Failing, Reading
  <2>3. CASE Store!Fail(t)
    <3>1. Visible' = Visible /\ Callers'[t] = Store!Answered(c, Refused)
      BY <1>1, <2>1, <2>3, CallersNow, SameSets DEF Store!Fail, Writers, Creators, Editors
    <3>2. calls'[t].at = "answered" /\ calls'[t].answer = Refused
      BY <1>1, <3>1, AnsweredThen
    <3>3. QED
      BY <3>1, <3>2 DEF Failing
  <2>4. ~Store!SearchInPassing(t)
    BY <1>1, <2>1, CallersNow DEF Store!SearchInPassing
  <2>5. CASE Visible' = Visible /\ Callers' = Callers
    BY <1>1, <2>5, WaitingThen DEF Unsettled
  <2>6. QED
    BY <1>1, <2>2, <2>3, <2>4, <2>5, AccessIsStep
<1>4. CASE job[t].stage \in {"write", "index"}
  <2> DEFINE p == IF job[t].stage = "write" THEN i ELSE Index
  <2>1. c.op = "overwrite" /\ c.path = p /\ p \in Paths
    BY <1>1, <1>2, <1>4 DEF Fits, WriteCall, Call
  <2>2. c.op \in Writers /\ c.op \in Creators /\ c.op \notin Readers
    BY <2>1 DEF Writers, Creators, Readers
  <2>3. CASE Store!Perform(t)
    <3>1. /\ Visible' = After(Visible, c) /\ Callers'[t] = Store!Answered(c, AnswerTo(Visible, c))
      BY <1>1, <2>3, CallersNow, SameAnswers DEF Store!Perform
    <3>2. calls'[t].at = "answered" /\ calls'[t].answer = AnswerTo(Visible, c)
      BY <1>1, <3>1, AnsweredThen
    <3>3. Succeeds(Visible, c) /\ Rewrites(Before(Visible, c), c)
      BY <2>1, <2>2, SucceedsIs DEF Opens, Rewrites
    <3>4. AnswerTo(Visible, c) = Done
      BY <2>2, <3>3 DEF AnswerTo
    <3>5. Visible' = [Visible EXCEPT ![p] = Written(Before(Visible, c), c)]
      BY <2>1, <2>2, <3>1, <3>3, AfterIs
    <3>6. Written(Before(Visible, c), c) = Piece(c.piece.head, c.piece.body)
      BY <2>1 DEF Written, Piece
    <3>7. CASE job[t].stage = "write"
      BY <3>2, <3>4, <3>5, <3>6, <3>7 DEF Writing
    <3>8. CASE job[t].stage = "index"
      <4>1. \A k \in TaskIds : Visible'[k] = Visible[k]
        BY <1>2, <3>5, <3>8, PathsOfTasks DEF Visible
      <4>2. QED
        BY <3>2, <3>8, <4>1 DEF Indexing
    <3>9. QED
      BY <1>4, <3>7, <3>8
  <2>4. CASE Store!Fail(t)
    <3>1. /\ Visible' = Visible \/ Visible' = [Visible EXCEPT ![p] = Empty]
          /\ Callers'[t] = Store!Answered(c, Refused)
      BY <1>1, <2>1, <2>4, CallersNow, SameSets DEF Store!Fail
    <3>2. calls'[t].at = "answered" /\ calls'[t].answer = Refused
      BY <1>1, <3>1, AnsweredThen
    <3>3. CASE Visible' = Visible
      BY <3>2, <3>3 DEF Failing
    <3>4. CASE job[t].stage = "write" /\ Visible' = [Visible EXCEPT ![p] = Empty]
      BY <3>2, <3>4 DEF Losing
    <3>5. CASE job[t].stage = "index" /\ Visible' = [Visible EXCEPT ![p] = Empty]
      <4>1. \A k \in TaskIds : Visible'[k] = Visible[k]
        BY <1>2, <3>5, PathsOfTasks DEF Visible
      <4>2. QED
        BY <3>2, <4>1 DEF Failing
    <3>6. QED
      BY <1>4, <3>1, <3>3, <3>4, <3>5
  <2>5. ~Store!SearchInPassing(t)
    BY <1>1, <2>1, CallersNow DEF Store!SearchInPassing
  <2>6. CASE Visible' = Visible /\ Callers' = Callers
    BY <1>1, <2>6, WaitingThen DEF Unsettled
  <2>7. QED
    BY <1>1, <2>3, <2>4, <2>5, <2>6, AccessIsStep
<1>5. QED
  BY <1>1, <1>3, <1>4 DEF Stages

-----------------------------------------------------------------------------
(* The invariant is inductive. *)

LEMMA JobsKept ==
  ASSUME BoardInv, NEW t \in Tasks, NEW j \in Jobs \cup {None}, job' = [job EXCEPT ![t] = j],
         winners' \in [TaskIds -> SUBSET Agents],
         \A u \in Tasks \ {t} : calls'[u] = calls[u],
         IF j = None THEN calls'[t].at = "idle" \/ calls'[t].call \in VaultCalls
         ELSE Fits(j, calls'[t])
  PROVE  JobsOK' /\ job'[t] = j /\ \A u \in Tasks \ {t} : job'[u] = job[u]
<1>1. job \in [Tasks -> Jobs \cup {None}]
  BY DEF BoardInv, JobsOK
<1>2. job' \in [Tasks -> Jobs \cup {None}] /\ job'[t] = j /\ \A u \in Tasks \ {t} : job'[u] = job[u]
  BY <1>1
<1>3. ASSUME NEW u \in Tasks
      PROVE  IF job'[u] = None THEN calls'[u].at = "idle" \/ calls'[u].call \in VaultCalls
             ELSE Fits(job'[u], calls'[u])
  BY <1>2 DEF BoardInv, JobsOK
<1>4. QED
  BY <1>2, <1>3 DEF JobsOK

LEMMA ApartKept ==
  ASSUME BoardInv, NEW t \in Tasks, \A u \in Tasks \ {t} : job'[u] = job[u],
         Changing(t)' => Changing(t) /\ job'[t].op = job[t].op /\ job'[t].id = job[t].id
  PROVE  Apart'
<1>1. \A u \in Tasks \ {t} : Changing(u)' = Changing(u)
  BY DEF Changing, Busy
<1>2. QED
  BY <1>1 DEF BoardInv, Apart

LEMMA TasksKept ==
  ASSUME BoardInv, NEW t \in Tasks, NEW i \in TaskIds,
         \A u \in Tasks \ {t} : job'[u] = job[u] /\ calls'[u] = calls[u],
         \A k \in TaskIds \ {i} : Visible'[k] = Visible[k] /\ winners'[k] = winners[k],
         \/ Visible'[i] = Visible[i] /\ winners'[i] = winners[i]
         \/ Changing(t) /\ job[t].id = i /\ (Visible[i] = None <=> job[t].op = "create"),
         Visible'[i] \in TaskNotes \cup {None}, Wins(Visible'[i], winners'[i]),
         job'[t] # None =>
           Knows(job'[t], calls'[t], Visible'[job'[t].id], winners'[job'[t].id])
  PROVE  TasksOK'
<1>1. ASSUME NEW u \in Tasks \ {t}, job'[u] # None
      PROVE  Knows(job'[u], calls'[u], Visible'[job'[u].id], winners'[job'[u].id])
  <2>1. /\ Busy(u) /\ job[u].id \in TaskIds
        /\ Knows(job[u], calls[u], Visible[job[u].id], winners[job[u].id])
    BY <1>1, BusyTask DEF Busy
  <2>2. CASE job[u].id # i \/ (Visible'[i] = Visible[i] /\ winners'[i] = winners[i])
    BY <2>1, <2>2
  <2>3. CASE job[u].id = i /\ Changing(t) /\ job[t].id = i
             /\ (Visible[i] = None <=> job[t].op = "create")
    BY <2>1, <2>3, OthersKnow
  <2>4. QED
    BY <2>2, <2>3
<1>2. \A u \in Tasks : job'[u] # None =>
         Knows(job'[u], calls'[u], Visible'[job'[u].id], winners'[job'[u].id])
  BY <1>1
<1>3. \A k \in TaskIds : Visible'[k] \in TaskNotes \cup {None} /\ Wins(Visible'[k], winners'[k])
  BY DEF BoardInv, TasksOK
<1>4. QED
  BY <1>2, <1>3 DEF TasksOK

\* A step in which no task changes.
LEMMA NothingChanges ==
  ASSUME BoardInv, NEW t \in Tasks,
         \A u \in Tasks \ {t} : job'[u] = job[u] /\ calls'[u] = calls[u],
         \A k \in TaskIds : Visible'[k] = Visible[k], winners' = winners,
         job'[t] # None =>
           /\ job'[t].id \in TaskIds
           /\ Knows(job'[t], calls'[t], Visible[job'[t].id], winners[job'[t].id])
  PROVE  TasksOK'
<1>1. ASSUME NEW u \in Tasks, job'[u] # None
      PROVE  Knows(job'[u], calls'[u], Visible'[job'[u].id], winners'[job'[u].id])
  <2>1. CASE u # t
    BY <1>1, <2>1, BusyTask DEF Busy
  <2>2. CASE u = t
    BY <1>1, <2>2
  <2>3. QED
    BY <2>1, <2>2
<1>2. \A k \in TaskIds : Visible'[k] \in TaskNotes \cup {None} /\ Wins(Visible'[k], winners'[k])
  BY DEF BoardInv, TasksOK
<1>3. QED
  BY <1>1, <1>2 DEF TasksOK

\* What is written in place of a task that the operation may change.
LEMMA UpdatedNote ==
  ASSUME NEW j \in Jobs, j.op # "create", NEW note \in TaskNotes, IsTaskNote(note),
         Allows(j.op, note.head.status), NEW won, Wins(note, won),
         j.op = "release" => won = {},
         NEW new, new = Piece(Updated(j, note.head), note.body)
  PROVE  /\ new \in TaskNotes /\ Wins(new, won)
         /\ j.op = "claim" => new.head = TaskHead("claimed", j.agent)
<1>1. /\ note.head \in TaskHeads /\ note.body = <<>> /\ note # None /\ note.head # None
      /\ note.head.owner \in Agents \cup {None} /\ j.agent \in Agents \cup {None}
  BY DEF TaskNotes, IsTaskNote, TaskHeads, Jobs
<1>2. Updated(j, note.head) \in TaskHeads
  BY <1>1 DEF Updated, TaskHeads, TaskHead, Statuses
<1>3. new \in TaskNotes /\ new.head = Updated(j, note.head)
  BY <1>1, <1>2 DEF TaskNotes, Piece
<1>4. new # None
  BY <1>3, NoneIsNothing
<1>5. CASE j.op \in {"claim", "release"}
  <2>1. won = {}
    BY <1>1, <1>5 DEF Wins, Allows
  <2>2. QED
    BY <1>3, <1>5, <2>1 DEF Wins, Updated
<1>6. CASE j.op \notin {"claim", "release"}
  <2>1. Updated(j, note.head).owner = note.head.owner /\ Updated(j, note.head).status # "pending"
    BY <1>1, <1>6 DEF Updated, TaskHeads
  <2>2. QED
    BY <1>1, <1>3, <1>4, <1>6, <2>1 DEF Wins
<1>7. QED
  BY <1>5, <1>6

\* Requests that use the vault without the board.
LEMMA VaultStepInv ==
  ASSUME OthersLeaveTasks, BoardInv, NEW t \in Tasks, ~Busy(t),
         IInv', UNCHANGED boardVars,
         \A u \in Tasks \ {t} : calls'[u] = calls[u],
         \A i \in TaskIds : Visible'[i] = Visible[i],
         calls'[t].call \in VaultCalls
  PROVE  BoardInv'
<1>1. job' = job /\ winners' = winners /\ job'[t] = None
  BY DEF boardVars, Busy
<1>2. JobsOK'
  <2>1. ASSUME NEW u \in Tasks
        PROVE  IF job'[u] = None THEN calls'[u].at = "idle" \/ calls'[u].call \in VaultCalls
               ELSE Fits(job'[u], calls'[u])
    BY <1>1 DEF BoardInv, JobsOK, Busy
  <2>2. QED
    BY <1>1, <2>1 DEF BoardInv, JobsOK
<1>3. Apart'
  BY <1>1, ApartKept DEF Changing, Busy
<1>4. TasksOK'
  BY <1>1, NothingChanges
<1>5. QED
  BY <1>2, <1>3, <1>4 DEF BoardInv

LEMMA UseVaultInv ==
  ASSUME OthersLeaveTasks, BoardInv, NEW t \in Tasks, UseVault(t)
  PROVE  BoardInv'
<1>1. PICK c \in VaultCalls : Invoke(t, c)
  BY DEF UseVault
<1>2. ~Busy(t) /\ UNCHANGED boardVars /\ IInv
  BY DEF UseVault, BoardInv
<1>3. IsCall(c)
  BY <1>1, VaultAssumption
<1>4. IInv'
  BY <1>1, <1>2, <1>3, InvokeInv
<1>5. /\ \A u \in Tasks \ {t} : calls'[u] = calls[u]
      /\ calls'[t] = [call |-> c, at |-> "lock", answer |-> None, old |-> None]
      /\ Visible' = Visible
  BY <1>1, <1>2, InvokeEffect
<1>6. calls'[t].call \in VaultCalls
  BY <1>5
<1>7. QED
  BY <1>2, <1>4, <1>5, <1>6, VaultStepInv

\* What an operation writes is a task that suits those who won it.
LEMMA WrittenNote ==
  ASSUME BoardInv, NEW t \in Tasks, Busy(t), ~Idle(t), job[t].stage = "write"
  PROVE  LET j == job[t]
             piece == calls[t].call.piece
             note == Piece(piece.head, piece.body)
         IN /\ note \in TaskNotes /\ Wins(note, winners[j.id])
            /\ j.op = "claim" => note.head = TaskHead("claimed", j.agent)
<1> DEFINE j == job[t]
           i == job[t].id
           piece == calls[t].call.piece
           note == Piece(piece.head, piece.body)
<1>1. /\ j \in Jobs /\ i \in TaskIds /\ calls[t].at # "answered"
      /\ Knows(j, calls[t], Visible[i], winners[i])
  BY BusyTask DEF Idle
<1>2. Visible[i] \in TaskNotes \cup {None} /\ Wins(Visible[i], winners[i])
  BY <1>1 DEF BoardInv, TasksOK
<1>3. CASE j.op = "create"
  <2>1. Visible[i] = None /\ piece = Piece(TaskHead("pending", None), <<>>)
    BY <1>1, <1>3 DEF Knows
  <2>2. winners[i] = {}
    BY <1>2, <2>1 DEF Wins
  <2>3. note = Piece(TaskHead("pending", None), <<>>)
    BY <2>1 DEF Piece
  <2>4. note \in TaskNotes
    BY <2>3 DEF Piece, TaskHead, TaskNotes, TaskHeads, Statuses
  <2>5. QED
    BY <1>3, <2>2, <2>4 DEF Wins
<1>4. CASE j.op # "create"
  <2>1. /\ IsTaskNote(Visible[i]) /\ Allows(j.op, Visible[i].head.status)
        /\ piece = Piece(Updated(j, Visible[i].head), Visible[i].body)
        /\ j.op = "release" => winners[i] = {}
    BY <1>1, <1>4 DEF Knows
  <2>2. Visible[i] \in TaskNotes
    BY <1>2, <2>1 DEF IsTaskNote
  <2>3. note = Piece(Updated(j, Visible[i].head), Visible[i].body)
    <3>1. /\ piece.head = Updated(j, Visible[i].head)
          /\ piece.body = Visible[i].body
      BY <2>1 DEF Piece
    <3> QED BY <3>1
  <2>4. PICK new : new = Piece(Updated(j, Visible[i].head), Visible[i].body)
    OBVIOUS
  <2> HIDE DEF j, i, piece, note
  <2>5. /\ new \in TaskNotes /\ Wins(new, winners[i])
        /\ j.op = "claim" => new.head = TaskHead("claimed", j.agent)
    BY <1>1, <1>2, <1>4, <2>1, <2>2, <2>4, UpdatedNote
  <2> QED BY <2>3, <2>4, <2>5 DEF i, j, note, piece
<1>5. QED
  BY <1>3, <1>4

LEMMA BusyAccessInv ==
  ASSUME BoardInv, IInv', NEW t \in Tasks, Busy(t), Access(t), UNCHANGED boardVars
  PROVE  BoardInv'
<1> DEFINE j == job[t]
           k == calls'[t]
           i == job[t].id
<1>1. /\ IInv /\ ~Idle(t) /\ ~At(t, "idle") /\ k.at # "idle" /\ k.call = calls[t].call
      /\ \A u \in Tasks \ {t} : calls'[u] = calls[u]
      /\ job' = job /\ winners' = winners /\ job'[t] = j /\ job[t] # None
  BY AccessEffect DEF BoardInv, boardVars, Busy
<1>2. /\ j \in Jobs /\ i \in TaskIds /\ j.stage \in Stages /\ Fits(j, calls[t])
      /\ Knows(j, calls[t], Visible[i], winners[i])
  BY BusyTask
<1>3. JobsOK'
  <2>1. Fits(j, k)
    BY <1>1, <1>2 DEF Fits
  <2>2. ASSUME NEW u \in Tasks
        PROVE  IF job'[u] = None THEN calls'[u].at = "idle" \/ calls'[u].call \in VaultCalls
               ELSE Fits(job'[u], calls'[u])
    BY <1>1, <2>1 DEF BoardInv, JobsOK
  <2>3. QED
    BY <1>1, <2>2 DEF BoardInv, JobsOK
<1>4. Apart'
  BY <1>1, ApartKept DEF Changing, Busy
<1>5. Visible[i] \in TaskNotes \cup {None} /\ Wins(Visible[i], winners[i])
  BY <1>2 DEF BoardInv, TasksOK
<1>6. calls[t].at # "answered"
  BY <1>1 DEF Idle
<1>7. ASSUME \A n \in TaskIds : Visible'[n] = Visible[n], Knows(j, k, Visible[i], winners[i])
      PROVE  TasksOK'
  BY <1>1, <1>2, <1>7, NothingChanges
<1>8. CASE Unsettled(t)
  <2>1. Knows(j, k, Visible[i], winners[i])
    BY <1>1, <1>2, <1>6, <1>8 DEF Unsettled, Knows
  <2>2. QED
    BY <1>3, <1>4, <1>7, <1>8, <2>1 DEF Unsettled, BoardInv
<1>9. CASE Failing(t)
  <2>1. Knows(j, k, Visible[i], winners[i])
    BY <1>2, <1>9 DEF Failing, Knows, Refused, IsTask
  <2>2. QED
    BY <1>3, <1>4, <1>7, <1>9, <2>1 DEF Failing, BoardInv
<1>10. CASE Reading(t)
  <2>1. Knows(j, k, Visible[i], winners[i])
    <3>1. CASE j.stage = "reading"
      BY <3>1, KnowsNoMore
    <3>2. CASE j.stage \in {"check", "update"}
      BY <1>2, <1>10, <3>2 DEF Reading, Knows, Found, IsTask, IsTaskNote
    <3>3. QED
      BY <1>10, <3>1, <3>2 DEF Reading
  <2>2. QED
    BY <1>3, <1>4, <1>7, <1>10, <2>1 DEF Reading, BoardInv
<1>11. CASE Indexing(t)
  <2>1. Knows(j, k, Visible[i], winners[i])
    BY <1>11, KnowsNoMore DEF Indexing
  <2>2. QED
    BY <1>3, <1>4, <1>7, <1>11, <2>1 DEF Indexing, BoardInv
<1>12. ASSUME j.stage = "write", NEW note \in TaskNotes, Visible' = [Visible EXCEPT ![i] = note],
              Wins(note, winners[i]), Knows(j, k, note, winners[i])
       PROVE  TasksOK'
  <2>1. i \in Paths /\ i \in DOMAIN Visible
    BY <1>2, PathsOfTasks DEF Visible
  <2>2. Visible'[i] = note /\ \A n \in TaskIds \ {i} : Visible'[n] = Visible[n]
    BY <1>12, <2>1
  <2>3. Changing(t) /\ (Visible[i] = None <=> j.op = "create")
    BY <1>1, <1>2, <1>6, <1>12 DEF Changing, Busy, Knows, IsTaskNote
  <2>4. QED
    BY <1>1, <1>2, <1>12, <2>2, <2>3, TasksKept
<1>13. CASE Writing(t)
  <2> DEFINE piece == calls[t].call.piece
             note == Piece(piece.head, piece.body)
  <2>1. /\ j.stage = "write" /\ Visible' = [Visible EXCEPT ![i] = note]
        /\ k.at = "answered"
    BY <1>13 DEF Writing
  <2>2. note \in TaskNotes /\ Wins(note, winners[i])
        /\ (j.op = "claim" => note.head = TaskHead("claimed", j.agent))
    BY <1>1, <2>1, WrittenNote
  <2>3. note # None
    BY <2>2, NoneIsNothing
  <2>4. Knows(j, k, note, winners[i])
    BY <2>1, <2>2, <2>3 DEF Knows
  <2>5. QED
    BY <1>3, <1>4, <1>12, <2>1, <2>2, <2>4 DEF BoardInv
<1>14. CASE Losing(t)
  <2>1. Empty \in TaskNotes /\ Empty.head = None /\ Empty # None
    BY VaultAssumption DEF Empty, TaskNotes
  <2>2. Wins(Empty, winners[i])
    BY <2>1 DEF Wins
  <2>3. Knows(j, k, Empty, winners[i])
    BY <1>14 DEF Losing, Knows, Refused
  <2>4. QED
    BY <1>3, <1>4, <1>12, <1>14, <2>1, <2>2, <2>3 DEF Losing, BoardInv
<1>15. QED
  BY <1>8, <1>9, <1>10, <1>11, <1>13, <1>14, BoardAccess

\* An operation makes a call, for the first time or instead of its last one.
LEMMA CallEffect ==
  ASSUME BoardInv, NEW t \in Tasks, NEW c, IsCall(c), Invoke(t, c),
         NEW j \in Jobs, job' = [job EXCEPT ![t] = j],
         winners' \in [TaskIds -> SUBSET Agents],
         Fits(j, [call |-> c, at |-> "lock", answer |-> None, old |-> None])
  PROVE  /\ IInv' /\ JobsOK' /\ Visible' = Visible
         /\ job'[t] = j /\ calls'[t].at = "lock" /\ calls'[t].call = c
         /\ \A u \in Tasks \ {t} : job'[u] = job[u] /\ calls'[u] = calls[u]
<1>1. IInv /\ j # None
  BY NoneIsNothing DEF BoardInv
<1>2. IInv'
  BY <1>1, InvokeInv
<1>3. /\ \A u \in Tasks \ {t} : calls'[u] = calls[u]
      /\ calls'[t] = [call |-> c, at |-> "lock", answer |-> None, old |-> None]
      /\ Visible' = Visible
  BY <1>1, InvokeEffect
<1>4. JobsOK' /\ job'[t] = j /\ \A u \in Tasks \ {t} : job'[u] = job[u]
  BY <1>1, <1>3, JobsKept
<1>5. calls'[t].at = "lock" /\ calls'[t].call = c
  BY <1>3
<1>6. QED
  BY <1>2, <1>3, <1>4, <1>5

\* An operation is answered: its request is gone.
LEMMA ReturnInv ==
  ASSUME BoardInv, NEW t \in Tasks, Idle(t), Return(t), Forget(t),
         UNCHANGED <<notes, queue, holder, winners>>
  PROVE  BoardInv' /\ Visible' = Visible /\ job'[t] = None
         /\ \A u \in Tasks \ {t} : job'[u] = job[u] /\ calls'[u] = calls[u]
<1>1. IInv /\ winners \in [TaskIds -> SUBSET Agents]
  BY DEF BoardInv, JobsOK
<1>2. /\ calls'[t] = NoCall /\ \A u \in Tasks \ {t} : calls'[u] = calls[u]
      /\ Visible' = Visible /\ IInv'
  BY <1>1, ForgetEffect
<1>3. calls'[t].at = "idle"
  BY <1>2 DEF NoCall
<1>4. JobsOK' /\ job'[t] = None /\ \A u \in Tasks \ {t} : job'[u] = job[u]
  BY <1>1, <1>2, <1>3, JobsKept DEF Return
<1>5. Apart'
  BY <1>4, ApartKept DEF Changing, Busy
<1>6. TasksOK'
  BY <1>2, <1>4, NothingChanges
<1>7. QED
  BY <1>2, <1>4, <1>5, <1>6 DEF BoardInv

LEMMA CreateEffect ==
  ASSUME OneCallPerTask, BoardInv, NEW t \in Tasks, Create(t)
  PROVE  /\ BoardInv' /\ Visible' = Visible /\ ~Busy(t) /\ winners' = winners
         /\ job'[t] # None /\ job'[t].op = "create" /\ job'[t].agent = None
         /\ job'[t].stage = "write" /\ calls'[t].at = "lock"
         /\ \A u \in Tasks \ {t} : job'[u] = job[u] /\ calls'[u] = calls[u]
<1> DEFINE i == NextTaskId
           piece == Piece(TaskHead("pending", None), <<>>)
           j == [op |-> "create", id |-> i, agent |-> None, stage |-> "write", todo |-> {}]
           k == [call |-> WriteCall(i, piece), at |-> "lock", answer |-> None, old |-> None]
<1>1. /\ "create" \in BoardCalls /\ ~Busy(t) /\ i <= MaxTask
      /\ \A u \in Tasks : Changing(u) => job[u].op # "create"
      /\ job' = [job EXCEPT ![t] = j] /\ Invoke(t, WriteCall(i, piece)) /\ winners' = winners
  BY DEF Create
<1>2. i \in TaskIds /\ i \in Paths /\ notes[i] = None
  BY <1>1, NewNumber, PathsOfTasks
<1> HIDE DEF i
<1>3. j \in Jobs /\ IsCall(WriteCall(i, piece)) /\ winners' \in [TaskIds -> SUBSET Agents]
  BY <1>1, <1>2, BoardCallsAreCalls DEF Jobs, AllBoardCalls, Stages, BoardInv, JobsOK
<1>4. Fits(j, k)
  BY DEF Fits, WriteCall, Call
<1>5. /\ IInv' /\ JobsOK' /\ Visible' = Visible
      /\ job'[t] = j /\ calls'[t].at = "lock" /\ calls'[t].call = WriteCall(i, piece)
      /\ \A u \in Tasks \ {t} : job'[u] = job[u] /\ calls'[u] = calls[u]
  BY <1>1, <1>3, <1>4, CallEffect
<1>6. Visible[i] = None
  <2>1. ASSUME holder[i] # None, calls[holder[i]].at = "truncated" PROVE FALSE
    <3>1. holder[i] \in Tasks /\ At(holder[i], "truncated")
      BY <1>2, <2>1 DEF BoardInv, IInv, VaultInv, VaultTypeOK, Who, At
    <3>2. calls[holder[i]].call.path = i
      BY <1>2, <3>1 DEF BoardInv, IInv, VaultInv, LocksMatchCalls, Holding, At
    <3>3. notes[i] = Empty
      BY <3>1, <3>2 DEF BoardInv, IInv, Rewriting
    <3>4. QED
      BY <1>2, <3>3, VaultAssumption
  <2>2. QED
    BY <1>2, <2>1 DEF Visible
<1>7. Apart'
  <2>1. \A u \in Tasks \ {t} : Changing(u)' = Changing(u)
    BY <1>5 DEF Changing, Busy
  <2>2. job'[t].op = "create"
    BY <1>5
  <2>3. \A u \in Tasks \ {t} : Changing(u)' => job'[u].op # "create"
    BY <1>1, <1>5, <2>1
  <2>4. QED
    BY <1>5, <2>1, <2>2, <2>3 DEF BoardInv, Apart
<1>8. TasksOK'
  <2>1. Knows(j, calls'[t], Visible[i], winners[i])
    BY <1>5, <1>6 DEF Knows, WriteCall, Call
  <2>2. job'[t].id \in TaskIds /\ Knows(job'[t], calls'[t], Visible[job'[t].id], winners[job'[t].id])
    BY <1>2, <1>5, <2>1
  <2>3. QED
    BY <1>1, <1>5, <2>2, NothingChanges
<1>9. job'[t] # None /\ job'[t].op = "create" /\ job'[t].agent = None /\ job'[t].stage = "write"
  <2>1. job'[t] = j /\ j # None
    BY <1>3, <1>5, NoneIsNothing
  <2>2. QED
    BY <2>1
<1>10. BoardInv'
  BY <1>5, <1>7, <1>8 DEF BoardInv
<1>11. QED
  BY <1>1, <1>5, <1>9, <1>10

LEMMA RequestEffect ==
  ASSUME OneCallPerTask, BoardInv, NEW t \in Tasks, NEW op \in BoardCalls, NEW i \in TaskIds,
         NEW a \in Agents, Request(t, op, i, a)
  PROVE  /\ BoardInv' /\ Visible' = Visible /\ ~Busy(t) /\ winners' = winners
         /\ job'[t] # None /\ job'[t] \in Jobs /\ calls'[t].at = "lock"
         /\ job'[t].stage \in {"check", "update"}
         /\ \A u \in Tasks \ {t} : job'[u] = job[u] /\ calls'[u] = calls[u]
<1> DEFINE j == [op |-> op, id |-> i, agent |-> IF op = "claim" THEN a ELSE None,
                 stage |-> IF op = "fail" THEN "update" ELSE "check", todo |-> {}]
<1>1. /\ op # "create" /\ ~Busy(t)
      /\ \A u \in Tasks : Changing(u) => job[u].id # i
      /\ job' = [job EXCEPT ![t] = j] /\ Invoke(t, ReadCall(i)) /\ winners' = winners
  BY DEF Request
<1>2. j \in Jobs /\ IsCall(ReadCall(i)) /\ winners' \in [TaskIds -> SUBSET Agents]
  BY <1>1, BoardCallsAreCalls, BoardAssumption DEF Jobs, Stages, BoardInv, JobsOK
<1>3. /\ j.id = i /\ j.op = op /\ j # None
      /\ j.stage \in {"check", "update"} /\ (j.stage = "update" => op = "fail")
      /\ op = "claim" => j.agent \in Agents
  BY <1>2, NoneIsNothing
<1> HIDE DEF j
<1>3a. Fits(j, [call |-> ReadCall(i), at |-> "lock", answer |-> None, old |-> None])
  BY <1>1, <1>3 DEF Fits
<1>4. /\ IInv' /\ JobsOK' /\ Visible' = Visible
      /\ job'[t] = j /\ calls'[t].at = "lock"
      /\ \A u \in Tasks \ {t} : job'[u] = job[u] /\ calls'[u] = calls[u]
  <2>1. job' = [job EXCEPT ![t] = j] /\ Invoke(t, ReadCall(i))
    BY <1>1
  <2>2. j \in Jobs /\ IsCall(ReadCall(i)) /\ winners' \in [TaskIds -> SUBSET Agents]
    BY <1>2
  <2>3. BoardInv /\ t \in Tasks
    OBVIOUS
  <2>4. /\ IInv' /\ JobsOK' /\ Visible' = Visible
        /\ job'[t] = j /\ calls'[t].at = "lock" /\ calls'[t].call = ReadCall(i)
        /\ \A u \in Tasks \ {t} : job'[u] = job[u] /\ calls'[u] = calls[u]
    BY <1>3a, <2>1, <2>2, <2>3, CallEffect, Zenon
  <2> QED BY <2>4
<1>5. /\ job'[t].id = i /\ job'[t].op = op /\ j # None
      /\ job'[t].stage \in {"check", "update"} /\ (job'[t].stage = "update" => op = "fail")
  BY <1>3, <1>4
<1>6. Apart'
  <2>1. \A u \in Tasks \ {t} : Changing(u)' = Changing(u)
    BY <1>4 DEF Changing, Busy
  <2>2. \A u \in Tasks \ {t} : Changing(u)' => job'[u].id # i
    BY <1>1, <1>4, <2>1
  <2>3. QED
    BY <1>1, <1>4, <1>5, <2>1, <2>2 DEF BoardInv, Apart
<1>7. TasksOK'
  <2>1. Knows(job'[t], calls'[t], Visible[i], winners[i])
    BY <1>4, <1>5 DEF Knows
  <2>2. QED
    BY <1>1, <1>4, <1>5, <2>1, NothingChanges
<1>8. BoardInv'
  BY <1>4, <1>6, <1>7 DEF BoardInv
<1>9. QED
  BY <1>1, <1>2, <1>4, <1>5, <1>8

\* Going on with an operation keeps what it is about.
LEMMA Going ==
  ASSUME BoardInv, NEW t \in Tasks, Busy(t), NEW stage \in Stages
  PROVE  LET j == [job[t] EXCEPT !.stage = stage]
         IN /\ j \in Jobs /\ j.op = job[t].op /\ j.id = job[t].id /\ j.agent = job[t].agent
            /\ j.stage = stage
            /\ Go(t, stage) => job' = [job EXCEPT ![t] = j]
BY BusyTask DEF Jobs, Go

LEMMA CheckEffect ==
  ASSUME BoardInv, NEW t \in Tasks, Check(t)
  PROVE  /\ BoardInv' /\ Visible' = Visible /\ winners' = winners /\ Busy(t)
         /\ \A u \in Tasks \ {t} : job'[u] = job[u] /\ calls'[u] = calls[u]
         /\ LET found == calls[t].answer
            IN IF IsTask(found) /\ Allows(job[t].op, found.note.head.status)
                 THEN /\ job'[t] \in Jobs /\ job'[t].stage = "update" /\ calls'[t].at = "lock"
                      /\ job'[t].op = job[t].op /\ job'[t].id = job[t].id
                      /\ job'[t].agent = job[t].agent
                 ELSE job'[t] = None
<1> DEFINE found == calls[t].answer
           i == job[t].id
           j == [job[t] EXCEPT !.stage = "update"]
<1>1. Busy(t) /\ job[t].stage = "check" /\ calls[t].at = "answered" /\ Idle(t) /\ winners' = winners
  BY DEF Check, Replied, At, Idle
<1>2. /\ i \in TaskIds /\ Fits(job[t], calls[t])
      /\ Knows(job[t], calls[t], Visible[i], winners[i])
      /\ winners' \in [TaskIds -> SUBSET Agents]
  BY <1>1, BusyTask DEF BoardInv, JobsOK
<1>3. CASE IsTask(found) /\ Allows(job[t].op, found.note.head.status)
  <2>1. Go(t, "update") /\ Invoke(t, ReadCall(i))
    BY <1>3 DEF Check
  <2>2. /\ j \in Jobs /\ j.op = job[t].op /\ j.id = i /\ j.agent = job[t].agent
        /\ j.stage = "update" /\ job' = [job EXCEPT ![t] = j]
    BY <1>1, <2>1, Going DEF Stages
  <2> HIDE DEF j
  <2>3. Fits(j, [call |-> ReadCall(i), at |-> "lock", answer |-> None, old |-> None])
    BY <1>1, <1>2, <2>2 DEF Fits
  <2>4. /\ IInv' /\ JobsOK' /\ Visible' = Visible
        /\ job'[t] = j /\ calls'[t].at = "lock"
        /\ \A u \in Tasks \ {t} : job'[u] = job[u] /\ calls'[u] = calls[u]
    BY <1>2, <2>1, <2>2, <2>3, CallEffect, BoardCallsAreCalls
  <2>5. Apart'
    BY <1>1, <2>2, <2>4, ApartKept DEF Changing
  <2>6. IsTaskNote(Visible[i]) /\ Allows(job[t].op, Visible[i].head.status)
    BY <1>1, <1>2, <1>3 DEF Knows
  <2>7. Knows(j, calls'[t], Visible[i], winners[i])
    BY <2>2, <2>4, <2>6 DEF Knows
  <2>8. TasksOK'
    BY <1>1, <1>2, <2>2, <2>4, <2>7, NothingChanges
  <2>9. QED
    BY <1>1, <1>3, <2>2, <2>4, <2>5, <2>8 DEF BoardInv
<1>4. CASE ~(IsTask(found) /\ Allows(job[t].op, found.note.head.status))
  <2>1. Return(t) /\ Forget(t) /\ UNCHANGED <<notes, queue, holder, winners>>
    BY <1>4 DEF Check
  <2>2. QED
    BY <1>1, <1>4, <2>1, ReturnInv
<1>5. QED
  BY <1>3, <1>4

LEMMA UpdateEffect ==
  ASSUME BoardInv, NEW t \in Tasks, Update(t)
  PROVE  /\ BoardInv' /\ Visible' = Visible /\ Busy(t)
         /\ \A u \in Tasks \ {t} : job'[u] = job[u] /\ calls'[u] = calls[u]
         /\ IF IsTask(calls[t].answer)
              THEN /\ job'[t] \in Jobs /\ job'[t].stage = "write" /\ calls'[t].at = "lock"
                   /\ job'[t].op = job[t].op /\ job'[t].id = job[t].id
                   /\ job'[t].agent = job[t].agent
              ELSE job'[t] = None
<1> DEFINE found == calls[t].answer
           i == job[t].id
           j == [job[t] EXCEPT !.stage = "write"]
           piece == Piece(Updated(job[t], found.note.head), found.note.body)
<1>1. Busy(t) /\ job[t].stage = "update" /\ calls[t].at = "answered" /\ Idle(t)
  BY DEF Update, Replied, At, Idle
<1>2. /\ i \in TaskIds /\ Fits(job[t], calls[t]) /\ job[t].op # "create"
      /\ Knows(job[t], calls[t], Visible[i], winners[i])
  BY <1>1, BusyTask DEF Fits
<1>3. CASE IsTask(found)
  <2>1. /\ Go(t, "write") /\ Invoke(t, WriteCall(i, piece))
        /\ winners' = IF job[t].op = "release" THEN [winners EXCEPT ![i] = {}] ELSE winners
    BY <1>3 DEF Update
  <2>2. /\ j \in Jobs /\ j.op = job[t].op /\ j.id = i /\ j.agent = job[t].agent
        /\ j.stage = "write" /\ job' = [job EXCEPT ![t] = j]
    BY <1>1, <2>1, Going DEF Stages
  <2> HIDE DEF j
  <2>3. Fits(j, [call |-> WriteCall(i, piece), at |-> "lock", answer |-> None, old |-> None])
    BY <1>1, <1>2, <2>2 DEF Fits, WriteCall, Call
  <2>4. winners \in [TaskIds -> SUBSET Agents] /\ winners' \in [TaskIds -> SUBSET Agents]
    BY <2>1 DEF BoardInv, JobsOK
  <2>5. /\ IInv' /\ JobsOK' /\ Visible' = Visible
        /\ job'[t] = j /\ calls'[t].at = "lock" /\ calls'[t].call = WriteCall(i, piece)
        /\ \A u \in Tasks \ {t} : job'[u] = job[u] /\ calls'[u] = calls[u]
    BY <1>2, <2>1, <2>2, <2>3, <2>4, CallEffect, BoardCallsAreCalls
  <2>6. Apart'
    BY <1>1, <2>2, <2>5, ApartKept DEF Changing
  <2>7. /\ Changing(t) /\ IsTaskNote(Visible[i]) /\ Visible[i] = found.note
        /\ (Visible[i] = None <=> job[t].op = "create")
    BY <1>1, <1>2, <1>3 DEF Changing, Knows, IsTaskNote
  <2>8. Allows(job[t].op, Visible[i].head.status)
    BY <1>1, <1>2 DEF Knows, Allows
  <2>9. /\ winners'[i] = (IF job[t].op = "release" THEN {} ELSE winners[i])
        /\ \A n \in TaskIds \ {i} : winners'[n] = winners[n]
    BY <1>2, <2>1, <2>4
  <2>10. Visible[i] \in TaskNotes \cup {None} /\ Wins(Visible[i], winners'[i])
    BY <1>2, <2>9 DEF BoardInv, TasksOK, Wins
  <2>11. Knows(j, calls'[t], Visible[i], winners'[i])
    <3>1. Updated(j, Visible[i].head) = Updated(job[t], found.note.head)
      BY <2>2, <2>7 DEF Updated
    <3>2. calls'[t].call.piece = Piece(Updated(j, Visible[i].head), Visible[i].body)
      BY <2>5, <2>7, <3>1 DEF WriteCall, Call
    <3>3. QED
      BY <1>2, <2>2, <2>5, <2>7, <2>8, <2>9, <3>2 DEF Knows
  <2>12. TasksOK'
    <3>1. Visible'[i] = Visible[i] /\ \A n \in TaskIds \ {i} : Visible'[n] = Visible[n]
      BY <2>5
    <3>2. job'[t].id = i
      BY <2>2, <2>5
    <3>3. Visible'[i] \in TaskNotes \cup {None} /\ Wins(Visible'[i], winners'[i])
      BY <2>10, <3>1
    <3>4. Knows(job'[t], calls'[t], Visible'[job'[t].id], winners'[job'[t].id])
      BY <2>5, <2>11, <3>1, <3>2
    <3>5. QED
      BY <1>2, <2>5, <2>7, <2>9, <3>1, <3>3, <3>4, TasksKept
  <2>13. BoardInv'
    BY <2>5, <2>6, <2>12 DEF BoardInv
  <2>14. QED
    BY <1>1, <1>3, <2>2, <2>5, <2>13
<1>4. CASE ~IsTask(found)
  <2>1. Return(t) /\ Forget(t) /\ UNCHANGED <<notes, queue, holder, winners>>
    BY <1>4 DEF Update
  <2>2. QED
    BY <1>1, <1>4, <2>1, ReturnInv
<1>5. QED
  BY <1>3, <1>4

\* What follows a write only lists the tasks.
LEMMA ReadNextEffect ==
  ASSUME BoardInv, NEW t \in Tasks, Busy(t), NEW todo \in SUBSET TaskIds, ReadNext(t, todo),
         winners' \in [TaskIds -> SUBSET Agents]
  PROVE  /\ IInv' /\ JobsOK' /\ Apart' /\ Visible' = Visible
         /\ job'[t] \in Jobs /\ job'[t].stage \in {"reading", "index"}
         /\ job'[t].op = job[t].op /\ job'[t].id = job[t].id /\ job'[t].agent = job[t].agent
         /\ \A u \in Tasks \ {t} : job'[u] = job[u] /\ calls'[u] = calls[u]
<1>0. job[t] \in Jobs /\ Fits(job[t], calls[t])
  BY BusyTask
<1>1. ASSUME NEW c, IsCall(c), Invoke(t, c), NEW j \in Jobs, job' = [job EXCEPT ![t] = j],
             j.op = job[t].op, j.id = job[t].id, j.agent = job[t].agent,
             Fits(j, [call |-> c, at |-> "lock", answer |-> None, old |-> None]),
             j.stage \in {"reading", "index"}
      PROVE  /\ IInv' /\ JobsOK' /\ Apart' /\ Visible' = Visible
             /\ job'[t] \in Jobs /\ job'[t].stage \in {"reading", "index"}
             /\ job'[t].op = job[t].op /\ job'[t].id = job[t].id /\ job'[t].agent = job[t].agent
             /\ \A u \in Tasks \ {t} : job'[u] = job[u] /\ calls'[u] = calls[u]
  <2>1. /\ IInv' /\ JobsOK' /\ Visible' = Visible /\ job'[t] = j
        /\ \A u \in Tasks \ {t} : job'[u] = job[u] /\ calls'[u] = calls[u]
    BY <1>1, CallEffect
  <2>2. ~Changing(t)'
    BY <1>1, <2>1 DEF Changing
  <2>3. Apart'
    BY <2>1, <2>2, ApartKept
  <2>4. QED
    BY <1>1, <2>1, <2>3
<1>2. CASE todo = {}
  <2> DEFINE j == [job[t] EXCEPT !.stage = "index"]
             c == WriteCall(Index, Piece(None, <<"index">>))
  <2>1. Go(t, "index") /\ Invoke(t, c)
    BY <1>2 DEF ReadNext
  <2>2. /\ j \in Jobs /\ j.op = job[t].op /\ j.id = job[t].id /\ j.agent = job[t].agent
        /\ j.stage = "index" /\ job' = [job EXCEPT ![t] = j]
    BY <2>1, Going DEF Stages
  <2> HIDE DEF j
  <2>3. Fits(j, [call |-> c, at |-> "lock", answer |-> None, old |-> None])
    BY <1>0, <2>2 DEF Fits, WriteCall, Call
  <2>4. IsCall(c)
    BY BoardCallsAreCalls
  <2> HIDE DEF c
  <2>5. QED
    BY <1>1, <2>1, <2>2, <2>3, <2>4
<1>3. CASE todo # {}
  <2> DEFINE i == CHOOSE n \in todo : \A m \in todo : n <= m
             j == [job[t] EXCEPT !.stage = "reading", !.todo = todo \ {i}]
  <2>1. job' = [job EXCEPT ![t].stage = "reading", ![t].todo = todo \ {i}] /\ Invoke(t, ReadCall(i))
    BY <1>3 DEF ReadNext
  <2>2. i \in TaskIds
    BY <1>3, Least, PathsOfTasks
  <2> HIDE DEF i
  <2>3. /\ j \in Jobs /\ j.op = job[t].op /\ j.id = job[t].id /\ j.agent = job[t].agent
        /\ j.stage = "reading" /\ job' = [job EXCEPT ![t] = j]
    BY <1>0, <2>1 DEF Jobs, Stages
  <2> HIDE DEF j
  <2>4. Fits(j, [call |-> ReadCall(i), at |-> "lock", answer |-> None, old |-> None])
    BY <1>0, <2>3 DEF Fits, ReadCall, Call
  <2>5. IsCall(ReadCall(i))
    BY <2>2, BoardCallsAreCalls
  <2>6. QED
    BY <1>1, <2>1, <2>3, <2>4, <2>5
<1>4. QED
  BY <1>2, <1>3

LEMMA SavedEffect ==
  ASSUME BoardInv, NEW t \in Tasks, Saved(t)
  PROVE  /\ BoardInv' /\ Visible' = Visible /\ Busy(t)
         /\ \A u \in Tasks \ {t} : job'[u] = job[u] /\ calls'[u] = calls[u]
         /\ IF calls[t].answer.ok
              THEN /\ job'[t] \in Jobs /\ job'[t].stage \in {"reading", "index"}
                   /\ job'[t].op = job[t].op /\ job'[t].id = job[t].id
                   /\ job'[t].agent = job[t].agent
              ELSE job'[t] = None
<1> DEFINE i == job[t].id
           won == winners[i] \cup {job[t].agent}
<1>1. Busy(t) /\ job[t].stage = "write" /\ calls[t].at = "answered" /\ Idle(t)
  BY DEF Saved, Replied, At, Idle
<1>2. /\ i \in TaskIds /\ Fits(job[t], calls[t])
      /\ Knows(job[t], calls[t], Visible[i], winners[i])
      /\ winners \in [TaskIds -> SUBSET Agents]
  BY <1>1, BusyTask DEF BoardInv, JobsOK
<1>3. CASE calls[t].answer.ok
  <2>1. /\ ReadNext(t, TaskFiles) /\ TaskFiles \in SUBSET TaskIds
        /\ winners' = IF job[t].op = "claim" THEN [winners EXCEPT ![i] = won] ELSE winners
    BY <1>3 DEF Saved, TaskFiles
  <2>2. job[t].op = "claim" => job[t].agent \in Agents
    BY <1>2 DEF Fits
  <2>3. winners' \in [TaskIds -> SUBSET Agents]
    BY <1>2, <2>1, <2>2
  <2>4. /\ IInv' /\ JobsOK' /\ Apart' /\ Visible' = Visible
        /\ job'[t] \in Jobs /\ job'[t].stage \in {"reading", "index"}
        /\ job'[t].op = job[t].op /\ job'[t].id = i /\ job'[t].agent = job[t].agent
        /\ \A u \in Tasks \ {t} : job'[u] = job[u] /\ calls'[u] = calls[u]
    BY <1>1, <2>1, <2>3, ReadNextEffect
  <2>5. \A note, w : Knows(job'[t], calls'[t], note, w)
    BY <2>4, KnowsNoMore
  <2>6. CASE job[t].op # "claim"
    <3>1. TasksOK'
      BY <1>2, <2>1, <2>4, <2>5, <2>6, NothingChanges
    <3>2. QED
      BY <1>1, <1>3, <2>4, <3>1 DEF BoardInv
  <2>7. CASE job[t].op = "claim"
    <3>1. /\ Visible[i] # None /\ Visible[i].head = TaskHead("claimed", job[t].agent)
          /\ Changing(t)
      BY <1>1, <1>2, <1>3, <2>7 DEF Knows, Changing
    <3>2. winners'[i] = won /\ \A n \in TaskIds \ {i} : winners'[n] = winners[n]
      BY <1>2, <2>1, <2>7
    <3>3. Visible[i] \in TaskNotes \cup {None} /\ Wins(Visible[i], winners[i])
      BY <1>2 DEF BoardInv, TasksOK
    <3>4. Wins(Visible[i], won)
      BY <3>1, <3>3 DEF Wins, TaskHead
    <3>5. Visible'[i] = Visible[i] /\ \A n \in TaskIds \ {i} : Visible'[n] = Visible[n]
      BY <2>4
    <3>6. Visible'[i] \in TaskNotes \cup {None} /\ Wins(Visible'[i], winners'[i])
      BY <3>2, <3>3, <3>4, <3>5
    <3>7. TasksOK'
      <4>1. job[t].id = i /\ (Visible[i] = None <=> job[t].op = "create")
        BY <2>7, <3>1
      <4>2. Knows(job'[t], calls'[t], Visible'[job'[t].id], winners'[job'[t].id])
        BY <2>5
      <4>3. \A n \in TaskIds \ {i} : Visible'[n] = Visible[n] /\ winners'[n] = winners[n]
        BY <3>2, <3>5
      <4>4. QED
        BY <1>2, <2>4, <3>1, <3>6, <4>1, <4>2, <4>3, TasksKept
    <3>8. QED
      BY <1>1, <1>3, <2>4, <3>7 DEF BoardInv
  <2>8. QED
    BY <2>6, <2>7
<1>4. CASE ~calls[t].answer.ok
  <2>1. Return(t) /\ Forget(t) /\ UNCHANGED <<notes, queue, holder, winners>>
    BY <1>4 DEF Saved
  <2>2. QED
    BY <1>1, <1>4, <2>1, ReturnInv
<1>5. QED
  BY <1>3, <1>4

LEMMA ReadOneEffect ==
  ASSUME BoardInv, NEW t \in Tasks, ReadOne(t)
  PROVE  /\ BoardInv' /\ Visible' = Visible /\ Busy(t) /\ job[t].stage = "reading"
         /\ \A u \in Tasks \ {t} : job'[u] = job[u] /\ calls'[u] = calls[u]
         /\ job'[t] \in Jobs /\ job'[t].stage \in {"reading", "index"}
         /\ job'[t].op = job[t].op /\ job'[t].id = job[t].id
         /\ job'[t].agent = job[t].agent
<1>1. /\ Busy(t) /\ job[t].stage = "reading" /\ ReadNext(t, job[t].todo) /\ winners' = winners
      /\ job[t].todo \in SUBSET TaskIds /\ winners \in [TaskIds -> SUBSET Agents]
      /\ job[t].id \in TaskIds
  BY BusyTask DEF ReadOne, Replied, Jobs, BoardInv, JobsOK
<1>2. /\ IInv' /\ JobsOK' /\ Apart' /\ Visible' = Visible
      /\ job'[t] \in Jobs /\ job'[t].stage \in {"reading", "index"}
      /\ job'[t].op = job[t].op /\ job'[t].id = job[t].id /\ job'[t].agent = job[t].agent
      /\ \A u \in Tasks \ {t} : job'[u] = job[u] /\ calls'[u] = calls[u]
  BY <1>1, ReadNextEffect
<1>3. TasksOK'
  BY <1>1, <1>2, KnowsNoMore, NothingChanges
<1>4. QED
  BY <1>1, <1>2, <1>3 DEF BoardInv

LEMMA IndexedEffect ==
  ASSUME BoardInv, NEW t \in Tasks, Indexed(t)
  PROVE  /\ BoardInv' /\ Visible' = Visible /\ Busy(t) /\ job[t].stage = "index"
         /\ \A u \in Tasks \ {t} : job'[u] = job[u] /\ calls'[u] = calls[u]
         /\ job'[t] = None
<1>1. /\ Busy(t) /\ job[t].stage = "index" /\ Idle(t)
      /\ Return(t) /\ Forget(t) /\ UNCHANGED <<notes, queue, holder, winners>>
  BY DEF Indexed, Replied, At, Idle
<1>2. QED
  BY <1>1, ReturnInv

\* The end of the daemon loses at most the tasks that were being written.
LEMMA RestartEffect ==
  ASSUME OthersLeaveTasks, BoardInv, Restart
  PROVE  /\ BoardInv' /\ \A t \in Tasks : job'[t] = None
         /\ \A i \in TaskIds :
              \/ Visible'[i] = Visible[i]
              \/ /\ Visible'[i] = Empty
                 /\ \E t \in Tasks : /\ Busy(t) /\ job[t].id = i /\ job[t].stage = "write"
                                     /\ ~Idle(t)
<1>1. /\ Crash /\ job' = [t \in Tasks |-> None] /\ winners' = winners /\ IInv
      /\ calls' = [t \in Tasks |-> NoCall]
  BY DEF Restart, Crash, BoardInv
<1>2. Store!Crash
  BY <1>1, CrashIsCrash
<1>3. IInv'
  BY <1>1, CrashInv
<1>4. ASSUME NEW i \in TaskIds
      PROVE  \/ Visible'[i] = Visible[i]
             \/ /\ Visible'[i] = Empty
                /\ \E t \in Tasks : /\ Busy(t) /\ job[t].id = i /\ job[t].stage = "write"
                                    /\ ~Idle(t)
  <2>1. i \in Paths /\ i # Index
    BY PathsOfTasks
  <2>2. PICK lost \in SUBSET {Callers[t].call.path :
                        t \in {u \in Tasks : Store!Pending(u) /\ Callers[u].call.op \in Store!Writers}} :
          /\ Visible' = [p \in Paths |-> IF p \in lost THEN Store!Empty ELSE Visible[p]]
          /\ Callers' = [t \in Tasks |-> Store!Nothing]
    BY <1>2, Zenon DEF Store!Crash
  <2>6. Store!Writers = Writers /\ Store!Empty = Empty
    BY SameSets
  <2>3. CASE i \notin lost
    BY <2>1, <2>2, <2>3
  <2>4. CASE i \in lost
    <3>1. PICK t \in Tasks : Store!Pending(t) /\ Callers[t].call.op \in Writers
                             /\ Callers[t].call.path = i
      BY <2>4, <2>6
    <3>2. ~Idle(t) /\ calls[t].call.op \in Writers /\ calls[t].call.path = i
      BY <1>1, <3>1, CallersNow DEF Store!Pending
    <3>3. Busy(t)
      <4>1. calls[t].at # "idle"
        BY <3>2 DEF Idle
      <4>2. ~Busy(t) => calls[t].call \in VaultCalls
        BY <4>1 DEF BoardInv, JobsOK, Busy
      <4>3. QED
        BY <3>2, <4>2 DEF OthersLeaveTasks, Writers, Creators, Editors, Readers
    <3>4. job[t].stage \in Stages /\ Fits(job[t], calls[t])
      BY <3>3, BusyTask
    <3>5. job[t].stage = "write" /\ job[t].id = i
      BY <2>1, <3>2, <3>4
      DEF Fits, Stages, ReadCall, WriteCall, Call, Writers, Creators, Editors
    <3>6. QED
      BY <2>1, <2>2, <2>4, <2>6, <3>2, <3>3, <3>5
  <2>5. QED
    BY <2>3, <2>4
<1>5. JobsOK'
  BY <1>1 DEF BoardInv, JobsOK, NoCall
<1>6. Apart'
  BY <1>1 DEF Apart, Changing, Busy
<1>7. TasksOK'
  <2>1. ASSUME NEW i \in TaskIds
        PROVE  Visible'[i] \in TaskNotes \cup {None} /\ Wins(Visible'[i], winners'[i])
    <3>1. Visible[i] \in TaskNotes \cup {None} /\ Wins(Visible[i], winners[i])
      BY DEF BoardInv, TasksOK
    <3>2. Empty \in TaskNotes /\ Wins(Empty, winners[i])
      BY VaultAssumption DEF Empty, TaskNotes, Wins
    <3>3. QED
      BY <1>1, <1>4, <3>1, <3>2
  <2>2. \A t \in Tasks : job'[t] = None
    BY <1>1
  <2>3. QED
    BY <2>1, <2>2 DEF TasksOK
<1>8. QED
  BY <1>1, <1>3, <1>4, <1>5, <1>6, <1>7 DEF BoardInv

LEMMA BoardInitInv == BoardInit => BoardInv
<1> SUFFICES ASSUME BoardInit PROVE BoardInv
  OBVIOUS
<1>1. /\ VaultInit /\ job = [t \in Tasks |-> None] /\ winners = [i \in TaskIds |-> {}]
      /\ \A p \in Paths : notes[p] # None => p > MaxTask
  BY DEF BoardInit
<1>2. IInv
  BY <1>1, InitInv
<1>3. JobsOK
  BY <1>1 DEF JobsOK, VaultInit, NoCall
<1>4. Apart
  BY <1>1 DEF Apart, Changing, Busy
<1>5. ASSUME NEW i \in TaskIds PROVE Visible[i] = None /\ winners[i] = {}
  <2>1. i \in Paths /\ ~(i > MaxTask)
    BY PathsOfTasks, BoardAssumption DEF TaskIds
  <2>2. QED
    BY <1>1, <2>1 DEF Visible, VaultInit
<1>6. TasksOK
  BY <1>1, <1>5 DEF TasksOK, Wins
<1>7. QED
  BY <1>2, <1>3, <1>4, <1>6 DEF BoardInv

LEMMA BoardStepInv ==
  ASSUME OneCallPerTask, OthersLeaveTasks, BoardInv, [Next]_vars
  PROVE  BoardInv'
<1>1. CASE UNCHANGED vars
  <2>1. /\ job' = job /\ winners' = winners /\ calls' = calls /\ notes' = notes
        /\ queue' = queue /\ holder' = holder
    BY <1>1 DEF vars, boardVars, vaultVars
  <2>2. IInv'
    BY <1>1, StepInv DEF BoardInv, vars
  <2>3. Visible' = Visible
    BY <2>1 DEF Visible
  <2>4. QED
    BY <2>1, <2>2, <2>3 DEF BoardInv, JobsOK, Apart, TasksOK, Changing, Busy
<1>2. ASSUME NEW t \in Tasks, Access(t), UNCHANGED boardVars PROVE BoardInv'
  <2>1. IInv /\ IInv'
    BY <1>2, AccessInv DEF BoardInv
  <2>2. CASE Busy(t)
    BY <1>2, <2>1, <2>2, BusyAccessInv
  <2>3. CASE ~Busy(t)
    <3>1. /\ \A u \in Tasks \ {t} : calls'[u] = calls[u]
          /\ calls'[t].call = calls[t].call /\ calls[t].at # "idle"
      BY <1>2, <2>1, AccessEffect DEF At
    <3>2. calls'[t].call \in VaultCalls
      BY <2>3, <3>1 DEF BoardInv, JobsOK, Busy
    <3>3. \A i \in TaskIds : Visible'[i] = Visible[i]
      BY <1>2, <2>1, <2>3, OtherAccess
    <3>4. QED
      BY <1>2, <2>1, <2>3, <3>1, <3>2, <3>3, VaultStepInv
  <2>4. QED
    BY <2>2, <2>3
<1>3. ASSUME NEW t \in Tasks, UseVault(t) PROVE BoardInv'
  BY <1>3, UseVaultInv
<1>4. ASSUME NEW t \in Tasks, Create(t) PROVE BoardInv'
  BY <1>4, CreateEffect
<1>5. ASSUME NEW t \in Tasks, NEW op \in BoardCalls, NEW i \in TaskIds, NEW a \in Agents,
             Request(t, op, i, a)
      PROVE  BoardInv'
  BY <1>5, RequestEffect
<1>6. ASSUME NEW t \in Tasks, Check(t) \/ Update(t) \/ Saved(t) \/ ReadOne(t) \/ Indexed(t)
      PROVE  BoardInv'
  BY <1>6, CheckEffect, UpdateEffect, SavedEffect, ReadOneEffect, IndexedEffect
<1>7. CASE Restart
  BY <1>7, RestartEffect
<1>8. QED
  BY <1>1, <1>2, <1>3, <1>4, <1>5, <1>6, <1>7 DEF Next

-----------------------------------------------------------------------------
(* Every step is one of the board that works in single steps. *)

LEMMA OperationIs ==
  ASSUME NEW j \in Jobs, NEW k
  PROVE  /\ OperationOf(j, k) # None
         /\ OperationOf(j, k).op = j.op /\ OperationOf(j, k).agent = j.agent
         /\ OperationOf(j, k).answer = Told(j, k)
         /\ j.op # "create" => OperationOf(j, k).id = j.id
<1> DEFINE o == [op |-> j.op, id |-> IF j.op = "create" THEN None ELSE j.id, agent |-> j.agent,
                 answer |-> Told(j, k)]
<1>1. j # None
  BY NoneIsNothing
<1>2. Told(j, k) \in Answers \cup {None}
  BY DEF Told, Answers, Refusal
<1>3. o \in Operation
  BY <1>2 DEF Operation, Jobs
<1>4. OperationOf(j, k) = o
  BY <1>1 DEF OperationOf
<1>5. QED
  BY <1>3, <1>4, NoneIsNothing

LEMMA OperationsThen ==
  ASSUME NEW t \in Tasks, \A u \in Tasks \ {t} : job'[u] = job[u] /\ calls'[u] = calls[u]
  PROVE  /\ Operations[t] = OperationOf(job[t], calls[t])
         /\ Operations'[t] = OperationOf(job'[t], calls'[t])
         /\ Operations' = [Operations EXCEPT ![t] = OperationOf(job'[t], calls'[t])]
         /\ Operations'[t] = Operations[t] => Operations' = Operations
BY DEF Operations

LEMMA TasksSame ==
  ASSUME \A i \in TaskIds : Visible'[i] = Visible[i]
  PROVE  BoardTasks' = BoardTasks
BY DEF BoardTasks

LEMMA TaskPut ==
  ASSUME NEW i \in TaskIds, NEW note, note # None, Visible' = [Visible EXCEPT ![i] = note]
  PROVE  BoardTasks' = [BoardTasks EXCEPT ![i] = note.head]
BY PathsOfTasks DEF BoardTasks, Visible

\* A request that comes or goes.
LEMMA Asks ==
  ASSUME NEW t \in Tasks, \A u \in Tasks \ {t} : job'[u] = job[u] /\ calls'[u] = calls[u],
         \A i \in TaskIds : Visible'[i] = Visible[i],
         job[t] \in Jobs => Told(job[t], calls[t]) # None, job[t] \in Jobs \cup {None},
         job'[t] \in Jobs => Told(job'[t], calls'[t]) = None, job'[t] \in Jobs \cup {None}
  PROVE  Atomic!Ask(t)
<1>0. \A k : OperationOf(None, k) = None
  BY DEF OperationOf
<1>1. Operations[t] = None \/ Operations[t].answer # None
  <2>1. CASE job[t] \in Jobs
    BY <2>1, OperationIs, OperationsThen
  <2>2. CASE job[t] = None
    BY <1>0, <2>2, OperationsThen
  <2>3. QED
    BY <2>1, <2>2
<1>2. Operations'[t] = None \/ Operations'[t].answer = None
  <2>1. CASE job'[t] \in Jobs
    BY <2>1, OperationIs, OperationsThen
  <2>2. CASE job'[t] = None
    BY <1>0, <2>2, OperationsThen
  <2>3. QED
    BY <2>1, <2>2
<1>3. Operations' = [Operations EXCEPT ![t] = Operations'[t]]
  BY OperationsThen
<1>4. QED
  BY <1>1, <1>2, <1>3, TasksSame DEF Atomic!Ask, Atomic!Pending

\* A step of an operation that changes neither the tasks nor its answer.
LEMMA Stutters ==
  ASSUME NEW t \in Tasks, \A u \in Tasks \ {t} : job'[u] = job[u] /\ calls'[u] = calls[u],
         \A i \in TaskIds : Visible'[i] = Visible[i], job[t] \in Jobs, job'[t] \in Jobs,
         job'[t].op = job[t].op, job'[t].id = job[t].id, job'[t].agent = job[t].agent,
         Told(job'[t], calls'[t]) = Told(job[t], calls[t])
  PROVE  UNCHANGED <<BoardTasks, Operations>>
<1>1. OperationOf(job'[t], calls'[t]) = OperationOf(job[t], calls[t])
  BY NoneIsNothing DEF OperationOf
<1>2. QED
  BY <1>1, OperationsThen, TasksSame

\* A step that settles an operation.
LEMMA Settles ==
  ASSUME NEW t \in Tasks, \A u \in Tasks \ {t} : job'[u] = job[u] /\ calls'[u] = calls[u],
         job[t] \in Jobs, job'[t] = job[t], Told(job[t], calls[t]) = None,
         NEW a, Told(job[t], calls'[t]) = a
  PROVE  /\ Atomic!Pending(t) /\ Atomic!Answer(t, a)
         /\ Operations[t].op = job[t].op /\ Operations[t].agent = job[t].agent
         /\ job[t].op # "create" => Operations[t].id = job[t].id
<1>1. /\ Operations[t] # None /\ Operations[t].answer = None
      /\ Operations[t].op = job[t].op /\ Operations[t].agent = job[t].agent
      /\ job[t].op # "create" => Operations[t].id = job[t].id
  BY OperationIs, OperationsThen
<1>2. OperationOf(job[t], calls'[t]) = [OperationOf(job[t], calls[t]) EXCEPT !.answer = a]
  BY NoneIsNothing DEF OperationOf
<1>3. Operations' = [Operations EXCEPT ![t] = [Operations[t] EXCEPT !.answer = a]]
  BY <1>2, OperationsThen
<1>4. Atomic!Answer(t, a)
  BY <1>3 DEF Atomic!Answer
<1>5. QED
  BY <1>1, <1>4 DEF Atomic!Pending

-----------------------------------------------------------------------------
(* The steps of an operation that has its access to the note *)

LEMMA FailingIsError ==
  ASSUME BoardInv, IInv', NEW t \in Tasks, Busy(t), Access(t), UNCHANGED boardVars, Failing(t)
  PROVE  Atomic!Do(t) \/ UNCHANGED <<BoardTasks, Operations>>
<1>1. /\ ~Idle(t) /\ \A u \in Tasks \ {t} : job'[u] = job[u] /\ calls'[u] = calls[u]
      /\ job'[t] = job[t] /\ job[t] \in Jobs /\ job[t].stage \in Stages
  BY AccessEffect, BusyTask DEF BoardInv, boardVars
<1>2. /\ \A i \in TaskIds : Visible'[i] = Visible[i]
      /\ calls'[t].at = "answered" /\ calls'[t].answer.ok = FALSE
  BY DEF Failing, Refused
<1>3. CASE job[t].stage \in {"reading", "index"}
  <2>1. Told(job[t], calls'[t]) = "true" /\ Told(job[t], calls[t]) = "true"
    BY <1>3 DEF Told
  <2>2. QED
    BY <1>1, <1>2, <2>1, Stutters
<1>4. CASE job[t].stage \in {"check", "update", "write"}
  <2>1. Told(job[t], calls'[t]) = "error" /\ Told(job[t], calls[t]) = None
    BY <1>1, <1>2, <1>4 DEF Told, IsTask, Idle
  <2>2. Atomic!Pending(t) /\ Atomic!Answer(t, "error")
    BY <1>1, <2>1, Settles
  <2>3. BoardTasks' = BoardTasks
    BY <1>2, TasksSame
  <2>4. QED
    BY <2>2, <2>3 DEF Atomic!Do, Atomic!Error
<1>5. QED
  BY <1>1, <1>3, <1>4 DEF Stages

LEMMA ReadingIsStep ==
  ASSUME BoardInv, IInv', NEW t \in Tasks, Busy(t), Access(t), UNCHANGED boardVars, Reading(t)
  PROVE  Atomic!Do(t) \/ UNCHANGED <<BoardTasks, Operations>>
<1> DEFINE i == job[t].id
           j == job[t]
           status == Visible[i].head.status
<1>1. /\ ~Idle(t) /\ \A u \in Tasks \ {t} : job'[u] = job[u] /\ calls'[u] = calls[u]
      /\ job'[t] = j /\ j \in Jobs /\ j.stage \in Stages /\ i \in TaskIds
      /\ Fits(j, calls[t])
  BY AccessEffect, BusyTask DEF BoardInv, boardVars
<1>2. Visible' = Visible /\ calls'[t].at = "answered"
  BY DEF Reading
<1>3. BoardTasks' = BoardTasks
  BY <1>2, TasksSame
<1>4. ASSUME Told(j, calls'[t]) = Told(j, calls[t]) PROVE UNCHANGED <<BoardTasks, Operations>>
  BY <1>1, <1>2, <1>4, Stutters
<1>5. ASSUME NEW a, Told(j, calls'[t]) = a, Told(j, calls[t]) = None
      PROVE  /\ Atomic!Pending(t) /\ Atomic!Answer(t, a)
             /\ Operations[t].op = j.op /\ (j.op # "create" => Operations[t].id = i)
  BY <1>1, <1>5, Settles
<1>6. CASE j.stage = "reading"
  BY <1>4, <1>6 DEF Told
<1>7. CASE j.stage \in {"check", "update"}
  <2>1. /\ Visible[i] # None /\ calls'[t].answer = Found(Visible[i]) /\ j.op # "create"
        /\ Told(j, calls[t]) = None
    BY <1>1, <1>7 DEF Reading, Fits, Told, Idle
  <2>2. IsTask(calls'[t].answer) <=> Visible[i].head # None
    BY <2>1 DEF IsTask, Found
  <2>3. CASE Told(j, calls'[t]) = "error"
    BY <1>3, <1>5, <2>1, <2>3 DEF Atomic!Do, Atomic!Error
  <2>4. CASE Told(j, calls'[t]) = None
    BY <1>4, <2>1, <2>4
  <2>5. CASE Told(j, calls'[t]) \notin {"error", None}
    <3>1. j.stage = "check" /\ Visible[i].head # None
      BY <1>2, <1>7, <2>2, <2>5 DEF Told
    <3>2. Told(j, calls'[t]) = Refusal(j.op, status)
      BY <1>2, <2>1, <2>2, <2>5, <3>1 DEF Told, Found
    <3>3. Told(j, calls'[t]) = "false" /\ j.op = "claim" /\ status \in {"claimed", "inprogress"}
      BY <2>5, <3>2 DEF Refusal
    <3>4. BoardTasks[i] # None /\ BoardTasks[i].status \in {"claimed", "inprogress"}
      BY <1>1, <2>1, <3>1, <3>3 DEF BoardTasks
    <3>5. Atomic!Claim(t, i)
      BY <1>3, <1>5, <2>1, <3>3, <3>4 DEF Atomic!Claim, Atomic!Is
    <3>6. QED
      BY <1>1, <1>5, <2>1, <3>3, <3>5 DEF Atomic!Do
  <2>6. QED
    BY <2>3, <2>4, <2>5
<1>8. QED
  BY <1>6, <1>7 DEF Reading

LEMMA WritingIsStep ==
  ASSUME BoardInv, IInv', NEW t \in Tasks, Busy(t), Access(t), UNCHANGED boardVars, Writing(t)
  PROVE  Atomic!Do(t)
<1> DEFINE i == job[t].id
           j == job[t]
           piece == calls[t].call.piece
           head == Visible[i].head
<1>1. /\ ~Idle(t) /\ \A u \in Tasks \ {t} : job'[u] = job[u] /\ calls'[u] = calls[u]
      /\ job'[t] = j /\ j \in Jobs /\ i \in TaskIds
      /\ Knows(j, calls[t], Visible[i], winners[i])
  BY AccessEffect, BusyTask DEF BoardInv, boardVars
<1>2. /\ j.stage = "write" /\ calls[t].at # "answered"
      /\ Visible' = [Visible EXCEPT ![i] = Piece(piece.head, piece.body)]
      /\ calls'[t].at = "answered" /\ calls'[t].answer.ok = TRUE
  BY <1>1 DEF Writing, Done, Idle
<1> DEFINE note == Piece(piece.head, piece.body)
<1>3. note.head = piece.head
  BY DEF Piece
<1> HIDE DEF note
<1>3a. note # None
  <2>1. note \in TaskNotes
    BY <1>1, <1>2, WrittenNote DEF note
  <2>2. QED
    BY <2>1, NoneIsNothing
<1>4. BoardTasks' = [BoardTasks EXCEPT ![i] = piece.head]
  <2>1. Visible' = [Visible EXCEPT ![i] = note]
    BY <1>2 DEF note
  <2>2. BoardTasks' = [BoardTasks EXCEPT ![i] = note.head]
    BY <1>1, <1>3a, <2>1, TaskPut
  <2>3. QED
    BY <1>3, <2>2
<1>5. /\ Atomic!Pending(t) /\ Atomic!Answer(t, "true")
      /\ Operations[t].op = j.op /\ Operations[t].agent = j.agent
      /\ j.op # "create" => Operations[t].id = i
  <2>1. Told(j, calls'[t]) = "true" /\ Told(j, calls[t]) = None
    BY <1>2 DEF Told
  <2>2. QED
    BY <1>1, <2>1, Settles
<1>6. CASE j.op = "create"
  <2>1. Visible[i] = None /\ piece.head = [status |-> "pending", owner |-> None]
    BY <1>1, <1>2, <1>6 DEF Knows, Piece, TaskHead
  <2>2. BoardTasks[i] = None
    BY <1>1, <2>1 DEF BoardTasks
  <2>3. Atomic!Create(t)
    BY <1>1, <1>4, <1>5, <1>6, <2>1, <2>2 DEF Atomic!Create, Atomic!Put
  <2>4. QED
    BY <1>5, <2>3 DEF Atomic!Do
<1>7. CASE j.op # "create"
  <2>1. /\ Visible[i] # None /\ head # None /\ Allows(j.op, head.status)
        /\ piece.head = Updated(j, head)
    BY <1>1, <1>2, <1>7 DEF Knows, IsTaskNote, Piece
  <2>2. BoardTasks[i] = head /\ head \in TaskHeads
    BY <1>1, <2>1 DEF BoardTasks, BoardInv, TasksOK, TaskNotes
  <2> DEFINE h == BoardTasks[i]
  <2>3. h # None /\ h \in TaskHeads /\ Allows(j.op, h.status) /\ piece.head = Updated(j, h)
    BY <2>1, <2>2
  <2> HIDE DEF h
  <2>4. /\ Operations[t].op = j.op /\ Operations[t].agent = j.agent /\ Operations[t].id = i
        /\ h = BoardTasks[i] /\ BoardTasks' = [BoardTasks EXCEPT ![i] = Updated(j, h)]
    BY <1>4, <1>5, <1>7, <2>3 DEF h
  <2>5. \A s \in Statuses : [h EXCEPT !.status = s] = [status |-> s, owner |-> h.owner]
    BY <2>3 DEF TaskHeads
  <2>6. j.op = "claim" => Atomic!Claim(t, i)
    BY <1>5, <2>3, <2>4
    DEF Atomic!Claim, Atomic!Is, Atomic!Put, Allows, Updated, TaskHead
  <2>7. j.op = "release" => Atomic!Release(t, i)
    BY <1>5, <2>3, <2>4
    DEF Atomic!Release, Atomic!Is, Atomic!Put, Allows, Updated, TaskHead
  <2>8. j.op = "start" => Atomic!Start(t, i)
    BY <1>5, <2>3, <2>4, <2>5
    DEF Atomic!Start, Atomic!Is, Atomic!Put, Allows, Updated, Statuses
  <2>9. j.op = "complete" => Atomic!Complete(t, i)
    BY <1>5, <2>3, <2>4, <2>5
    DEF Atomic!Complete, Atomic!Is, Atomic!Put, Allows, Updated, Statuses
  <2>10. j.op = "fail" => Atomic!GiveUp(t, i)
    BY <1>5, <2>3, <2>4, <2>5
    DEF Atomic!GiveUp, Atomic!Put, Updated, Statuses
  <2>11. \/ Atomic!Claim(t, i) \/ Atomic!Release(t, i) \/ Atomic!Start(t, i)
         \/ Atomic!Complete(t, i) \/ Atomic!GiveUp(t, i)
    BY <1>1, <1>7, <2>6, <2>7, <2>8, <2>9, <2>10 DEF Jobs, AllBoardCalls
  <2>12. QED
    BY <1>1, <1>5, <2>4, <2>11 DEF Atomic!Do
<1>8. QED
  BY <1>6, <1>7

LEMMA LosingIsError ==
  ASSUME BoardInv, IInv', NEW t \in Tasks, Busy(t), Access(t), UNCHANGED boardVars, Losing(t)
  PROVE  Atomic!Do(t)
<1> DEFINE i == job[t].id
           j == job[t]
<1>1. /\ ~Idle(t) /\ \A u \in Tasks \ {t} : job'[u] = job[u] /\ calls'[u] = calls[u]
      /\ job'[t] = j /\ j \in Jobs /\ i \in TaskIds
      /\ Knows(j, calls[t], Visible[i], winners[i])
  BY AccessEffect, BusyTask DEF BoardInv, boardVars
<1>2. /\ j.stage = "write" /\ calls[t].at # "answered"
      /\ Visible' = [Visible EXCEPT ![i] = Empty]
      /\ calls'[t].at = "answered" /\ calls'[t].answer.ok = FALSE
  BY <1>1 DEF Losing, Refused, Idle
<1>3. /\ Atomic!Pending(t) /\ Atomic!Answer(t, "error")
      /\ j.op # "create" => Operations[t].id = i
  <2>1. Told(j, calls'[t]) = "error" /\ Told(j, calls[t]) = None
    BY <1>2 DEF Told
  <2>2. QED
    BY <1>1, <2>1, Settles
<1>4. BoardTasks' = [BoardTasks EXCEPT ![i] = None]
  <2>1. Empty # None /\ Empty.head = None
    BY VaultAssumption DEF Empty
  <2>2. QED
    BY <1>1, <1>2, <2>1, TaskPut
<1>5. CASE j.op = "create"
  <2>1. Visible[i] = None
    BY <1>1, <1>2, <1>5 DEF Knows
  <2>2. BoardTasks' = BoardTasks
    BY <1>1, <1>4, <2>1 DEF BoardTasks
  <2>3. QED
    BY <1>3, <2>2 DEF Atomic!Do, Atomic!Error
<1>6. CASE j.op # "create"
  BY <1>1, <1>3, <1>4, <1>6 DEF Atomic!Do, Atomic!Error
<1>7. QED
  BY <1>5, <1>6

LEMMA AccessIsBoardStep ==
  ASSUME OthersLeaveTasks, BoardInv, NEW t \in Tasks, Access(t), UNCHANGED boardVars
  PROVE  Atomic!Do(t) \/ UNCHANGED <<BoardTasks, Operations>>
<1>1. /\ IInv' /\ ~Idle(t) /\ \A u \in Tasks \ {t} : job'[u] = job[u] /\ calls'[u] = calls[u]
      /\ job'[t] = job[t]
  BY AccessInv, AccessEffect DEF BoardInv, boardVars
<1>2. CASE ~Busy(t)
  <2>1. BoardTasks' = BoardTasks
    BY <1>1, <1>2, OtherAccess, TasksSame
  <2>2. Operations' = Operations
    BY <1>1, <1>2, OperationsThen DEF OperationOf, Busy
  <2>3. QED
    BY <2>1, <2>2
<1>3. CASE Busy(t) /\ (Unsettled(t) \/ Indexing(t))
  <2>1. job[t] \in Jobs /\ \A i \in TaskIds : Visible'[i] = Visible[i]
    BY <1>3, BusyTask DEF Unsettled, Indexing
  <2>2. Told(job[t], calls'[t]) = Told(job[t], calls[t])
    BY <1>1, <1>3 DEF Told, Unsettled, Indexing, Idle
  <2>3. QED
    BY <1>1, <2>1, <2>2, Stutters
<1>4. QED
  BY <1>1, <1>2, <1>3, BoardAccess, FailingIsError, ReadingIsStep, WritingIsStep, LosingIsError

LEMMA RestartIsCrash ==
  ASSUME OthersLeaveTasks, BoardInv, Restart
  PROVE  Atomic!Crash
<1> DEFINE writing == {i \in TaskIds : \E t \in Tasks : Atomic!Pending(t) /\ Operations[t].id = i}
           lost == {i \in writing : Visible'[i] = Empty}
<1>1. /\ \A t \in Tasks : job'[t] = None
      /\ \A i \in TaskIds :
           \/ Visible'[i] = Visible[i]
           \/ /\ Visible'[i] = Empty
              /\ \E t \in Tasks : Busy(t) /\ job[t].id = i /\ job[t].stage = "write" /\ ~Idle(t)
  BY RestartEffect
<1>2. Empty # None /\ Empty.head = None
  BY VaultAssumption DEF Empty
<1>3. ASSUME NEW i \in TaskIds
      PROVE  BoardTasks'[i] = IF i \in lost THEN None ELSE BoardTasks[i]
  <2>1. CASE i \in lost
    BY <1>2, <2>1 DEF BoardTasks
  <2>2. CASE i \notin lost /\ Visible'[i] = Visible[i]
    BY <2>2 DEF BoardTasks
  <2>3. CASE i \notin lost /\ Visible'[i] # Visible[i]
    <3>1. PICK t \in Tasks : Busy(t) /\ job[t].id = i /\ job[t].stage = "write" /\ ~Idle(t)
      BY <1>1, <2>3
    <3>2. job[t] \in Jobs /\ Knows(job[t], calls[t], Visible[i], winners[i])
      BY <3>1, BusyTask
    <3>3. Visible'[i] = Empty /\ calls[t].at # "answered"
      BY <1>1, <2>3, <3>1 DEF Idle
    <3>4. CASE job[t].op = "create"
      <4>1. Visible[i] = None
        BY <3>1, <3>2, <3>3, <3>4 DEF Knows
      <4>2. QED
        BY <1>2, <2>3, <3>3, <4>1 DEF BoardTasks
    <3>5. CASE job[t].op # "create"
      <4>1. Told(job[t], calls[t]) = None
        BY <3>1, <3>3 DEF Told
      <4>2. Operations[t] # None /\ Operations[t].answer = None /\ Operations[t].id = i
        BY <3>1, <3>2, <3>5, <4>1, OperationIs DEF Operations
      <4>3. i \in writing
        BY <4>2 DEF Atomic!Pending
      <4>4. QED
        BY <2>3, <3>3, <4>3
    <3>6. QED
      BY <3>4, <3>5
  <2>4. QED
    BY <2>1, <2>2, <2>3
<1>4. BoardTasks' = [i \in TaskIds |-> IF i \in lost THEN None ELSE BoardTasks[i]]
  BY <1>3 DEF BoardTasks
<1>5. Operations' = [t \in Tasks |-> None]
  BY <1>1 DEF Operations, OperationOf
<1>6. lost \in SUBSET writing
  OBVIOUS
<1>7. QED
  BY <1>4, <1>5, <1>6 DEF Atomic!Crash

LEMMA BoardInitIsInit == BoardInit => Atomic!Init
<1> SUFFICES ASSUME BoardInit PROVE Atomic!Init
  OBVIOUS
<1>1. ASSUME NEW i \in TaskIds PROVE Visible[i] = None
  <2>1. i \in Paths /\ ~(i > MaxTask)
    BY PathsOfTasks, BoardAssumption DEF TaskIds
  <2>2. QED
    BY <2>1 DEF Visible, BoardInit, VaultInit
<1>2. BoardTasks = [i \in TaskIds |-> None]
  BY <1>1 DEF BoardTasks
<1>3. Operations = [t \in Tasks |-> None]
  BY DEF Operations, OperationOf, BoardInit
<1>4. QED
  BY <1>2, <1>3 DEF Atomic!Init

LEMMA BoardStepIsStep ==
  ASSUME OneCallPerTask, OthersLeaveTasks, BoardInv, [Next]_vars
  PROVE  Atomic!Next \/ UNCHANGED <<BoardTasks, Operations>>
<1>0. \A t \in Tasks : Busy(t) => job[t] \in Jobs
  BY BusyTask
<1>1. CASE UNCHANGED vars
  BY <1>1 DEF vars, boardVars, vaultVars, BoardTasks, Operations, Visible
<1>2. ASSUME NEW t \in Tasks, Access(t), UNCHANGED boardVars
      PROVE  Atomic!Next \/ UNCHANGED <<BoardTasks, Operations>>
  BY <1>2, AccessIsBoardStep DEF Atomic!Next
<1>3. ASSUME NEW t \in Tasks, UseVault(t) PROVE UNCHANGED <<BoardTasks, Operations>>
  <2>1. PICK c \in VaultCalls : Invoke(t, c)
    BY <1>3 DEF UseVault
  <2>2. /\ job[t] = None /\ job' = job /\ IInv
    BY <1>3 DEF UseVault, Busy, boardVars, BoardInv
  <2>3. Visible' = Visible /\ \A u \in Tasks \ {t} : calls'[u] = calls[u]
    BY <2>1, <2>2, InvokeEffect
  <2>4. Operations' = Operations
    BY <2>2, <2>3, OperationsThen DEF OperationOf
  <2>5. QED
    BY <2>3, <2>4, TasksSame
<1>4. ASSUME NEW t \in Tasks, Create(t) PROVE Atomic!Ask(t)
  <2>1. /\ BoardInv' /\ Visible' = Visible /\ job[t] = None /\ job'[t] # None
        /\ job'[t].stage = "write" /\ calls'[t].at = "lock"
        /\ \A u \in Tasks \ {t} : job'[u] = job[u] /\ calls'[u] = calls[u]
    BY <1>4, CreateEffect DEF Busy
  <2>2. job'[t] \in Jobs
    BY <2>1 DEF BoardInv, JobsOK
  <2>3. Told(job'[t], calls'[t]) = None
    BY <2>1 DEF Told
  <2>4. QED
    BY <2>1, <2>2, <2>3, Asks, NoneIsNothing
<1>5. ASSUME NEW t \in Tasks, NEW op \in BoardCalls, NEW i \in TaskIds, NEW a \in Agents,
             Request(t, op, i, a)
      PROVE  Atomic!Ask(t)
  <2>1. /\ Visible' = Visible /\ job[t] = None /\ job'[t] \in Jobs
        /\ job'[t].stage \in {"check", "update"} /\ calls'[t].at = "lock"
        /\ \A u \in Tasks \ {t} : job'[u] = job[u] /\ calls'[u] = calls[u]
    BY <1>5, RequestEffect DEF Busy
  <2>2. Told(job'[t], calls'[t]) = None
    BY <2>1 DEF Told
  <2>3. QED
    BY <2>1, <2>2, Asks, NoneIsNothing
<1>6. ASSUME NEW t \in Tasks, Check(t)
      PROVE  Atomic!Ask(t) \/ UNCHANGED <<BoardTasks, Operations>>
  <2> DEFINE found == calls[t].answer
  <2>1. /\ Visible' = Visible /\ job[t] \in Jobs
        /\ \A u \in Tasks \ {t} : job'[u] = job[u] /\ calls'[u] = calls[u]
        /\ job[t].stage = "check" /\ calls[t].at = "answered"
    BY <1>0, <1>6, CheckEffect DEF Check, Replied, At
  <2>2. CASE IsTask(found) /\ Allows(job[t].op, found.note.head.status)
    <3>1. /\ job'[t] \in Jobs /\ job'[t].stage = "update" /\ calls'[t].at = "lock"
          /\ job'[t].op = job[t].op /\ job'[t].id = job[t].id /\ job'[t].agent = job[t].agent
      BY <1>6, <2>2, CheckEffect
    <3>2. Told(job'[t], calls'[t]) = None /\ Told(job[t], calls[t]) = None
      BY <2>1, <2>2, <3>1 DEF Told
    <3>3. QED
      BY <2>1, <3>1, <3>2, Stutters
  <2>3. CASE ~(IsTask(found) /\ Allows(job[t].op, found.note.head.status))
    <3>1. job'[t] = None
      BY <1>6, <2>3, CheckEffect
    <3>2. Told(job[t], calls[t]) # None
      BY <2>1, <2>3, NoneIsNothing DEF Told, Refusal
    <3>3. QED
      BY <2>1, <3>1, <3>2, Asks, NoneIsNothing
  <2>4. QED
    BY <2>2, <2>3
<1>7. ASSUME NEW t \in Tasks, Update(t)
      PROVE  Atomic!Ask(t) \/ UNCHANGED <<BoardTasks, Operations>>
  <2>1. /\ Visible' = Visible /\ job[t] \in Jobs
        /\ \A u \in Tasks \ {t} : job'[u] = job[u] /\ calls'[u] = calls[u]
        /\ job[t].stage = "update" /\ calls[t].at = "answered"
    BY <1>0, <1>7, UpdateEffect DEF Update, Replied, At
  <2>2. CASE IsTask(calls[t].answer)
    <3>1. /\ job'[t] \in Jobs /\ job'[t].stage = "write" /\ calls'[t].at = "lock"
          /\ job'[t].op = job[t].op /\ job'[t].id = job[t].id /\ job'[t].agent = job[t].agent
      BY <1>7, <2>2, UpdateEffect
    <3>2. Told(job'[t], calls'[t]) = None /\ Told(job[t], calls[t]) = None
      BY <2>1, <2>2, <3>1 DEF Told
    <3>3. QED
      BY <2>1, <3>1, <3>2, Stutters
  <2>3. CASE ~IsTask(calls[t].answer)
    <3>1. job'[t] = None
      BY <1>7, <2>3, UpdateEffect
    <3>2. Told(job[t], calls[t]) # None
      BY <2>1, <2>3, NoneIsNothing DEF Told
    <3>3. QED
      BY <2>1, <3>1, <3>2, Asks, NoneIsNothing
  <2>4. QED
    BY <2>2, <2>3
<1>8. ASSUME NEW t \in Tasks, Saved(t)
      PROVE  Atomic!Ask(t) \/ UNCHANGED <<BoardTasks, Operations>>
  <2>1. /\ Visible' = Visible /\ job[t] \in Jobs
        /\ \A u \in Tasks \ {t} : job'[u] = job[u] /\ calls'[u] = calls[u]
        /\ job[t].stage = "write" /\ calls[t].at = "answered"
    BY <1>0, <1>8, SavedEffect DEF Saved, Replied, At
  <2>2. CASE calls[t].answer.ok
    <3>1. /\ job'[t] \in Jobs /\ job'[t].stage \in {"reading", "index"}
          /\ job'[t].op = job[t].op /\ job'[t].id = job[t].id /\ job'[t].agent = job[t].agent
      BY <1>8, <2>2, SavedEffect
    <3>2. Told(job'[t], calls'[t]) = "true" /\ Told(job[t], calls[t]) = "true"
      BY <2>1, <2>2, <3>1 DEF Told
    <3>3. QED
      BY <2>1, <3>1, <3>2, Stutters
  <2>3. CASE ~calls[t].answer.ok
    <3>1. job'[t] = None
      BY <1>8, <2>3, SavedEffect
    <3>2. Told(job[t], calls[t]) # None
      BY <2>1, <2>3, NoneIsNothing DEF Told
    <3>3. QED
      BY <2>1, <3>1, <3>2, Asks, NoneIsNothing
  <2>4. QED
    BY <2>2, <2>3
<1>9. ASSUME NEW t \in Tasks, ReadOne(t) PROVE UNCHANGED <<BoardTasks, Operations>>
  <2>1. /\ Visible' = Visible /\ job[t] \in Jobs /\ job[t].stage = "reading"
        /\ \A u \in Tasks \ {t} : job'[u] = job[u] /\ calls'[u] = calls[u]
        /\ job'[t] \in Jobs /\ job'[t].stage \in {"reading", "index"}
        /\ job'[t].op = job[t].op /\ job'[t].id = job[t].id /\ job'[t].agent = job[t].agent
    BY <1>0, <1>9, ReadOneEffect
  <2>2. Told(job'[t], calls'[t]) = "true" /\ Told(job[t], calls[t]) = "true"
    BY <2>1 DEF Told
  <2>3. QED
    BY <2>1, <2>2, Stutters
<1>10. ASSUME NEW t \in Tasks, Indexed(t) PROVE Atomic!Ask(t)
  <2>1. /\ Visible' = Visible /\ job[t] \in Jobs /\ job[t].stage = "index" /\ job'[t] = None
        /\ \A u \in Tasks \ {t} : job'[u] = job[u] /\ calls'[u] = calls[u]
    BY <1>0, <1>10, IndexedEffect
  <2>2. Told(job[t], calls[t]) # None
    BY <2>1, NoneIsNothing DEF Told
  <2>3. QED
    BY <2>1, <2>2, Asks, NoneIsNothing
<1>11. CASE Restart
  BY <1>11, RestartIsCrash DEF Atomic!Next
<1>12. QED
  BY <1>1, <1>2, <1>3, <1>4, <1>5, <1>6, <1>7, <1>8, <1>9, <1>10, <1>11 DEF Next, Atomic!Next

-----------------------------------------------------------------------------
(* The theorems *)

\* What the operations know of their tasks stays true, though they read, check and
\* write them in steps of their own (task_board.rs).
THEOREM BoardInvariant ==
  ASSUME OneCallPerTask, OthersLeaveTasks
  PROVE  Spec => []BoardInv
<1>1. BoardInv /\ [Next]_vars => BoardInv'
  BY BoardStepInv
<1>2. QED
  BY <1>1, BoardInitInv, PTL DEF Spec

\* team/task_board.rs on the locked vault is a board that works in single steps
\* (Board), for any number of tasks, agents and requests, while no two operations
\* change one task at the same time and nobody else writes the notes of tasks.
THEOREM BoardTheorem ==
  ASSUME OneCallPerTask, OthersLeaveTasks
  PROVE  Spec => BoardAtomic
<1>1. BoardInv /\ [Next]_vars => [Atomic!Next]_<<BoardTasks, Operations>>
  BY BoardStepIsStep
<1>2. QED
  BY <1>1, BoardInvariant, BoardInitIsInit, PTL
  DEF Spec, BoardAtomic, Atomic!Spec, Atomic!vars

\* Whom claim_task told that the task is his owns it until it lets it go, whatever
\* failed or was interrupted meanwhile.
THEOREM ClaimTheorem ==
  ASSUME OneCallPerTask, OthersLeaveTasks
  PROVE  Spec => []ClaimHolds
<1>1. BoardInv => ClaimHolds
  <2> SUFFICES ASSUME BoardInv, NEW i \in TaskIds, NEW a \in winners[i], BoardTasks[i] # None
               PROVE  BoardTasks[i].owner = a
    BY DEF ClaimHolds
  <2>1. Wins(Visible[i], winners[i])
    BY DEF BoardInv, TasksOK
  <2>2. Visible[i] # None /\ BoardTasks[i] = Visible[i].head
    BY <2>1 DEF Wins, BoardTasks
  <2>3. QED
    BY <2>1, <2>2 DEF Wins
<1>2. QED
  BY <1>1, BoardInvariant, PTL
=============================================================================
