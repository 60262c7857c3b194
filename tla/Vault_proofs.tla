---------------------------- MODULE Vault_proofs ----------------------------
(***************************************************************************)
(* Proofs about the vault, for any number of requests, notes and calls:    *)
(* the locks are where the calls stand, and VaultSpec implements the       *)
(* atomic NoteStore.                                                       *)
(***************************************************************************)
EXTENDS Vault, TLAPS

\* What the refinement needs beyond VaultInv: a note that is being rewritten is
\* empty, and the call that rewrites it was allowed to by what it has read.
Rewriting(t) ==
  At(t, "truncated") =>
    LET c == calls[t].call
    IN /\ c.op \in Writers /\ notes[c.path] = Empty
       /\ calls[t].old # None \/ c.op \in Creators
       /\ Rewrites(Content(calls[t].old), c)

Moving(t) == At(t, "second") => calls[t].call.op \in Movers

IInv == VaultInv /\ \A t \in Tasks : Rewriting(t) /\ Moving(t)
-----------------------------------------------------------------------------
(* What the helpers do to the calls. *)

LEMMA LocksInPaths ==
  ASSUME NEW c, IsCall(c)
  PROVE  FirstLock(c) \in Paths /\ SecondLock(c) \in Paths /\ c.path \in Paths /\ c.to \in Paths
BY DEF IsCall, FirstLock, SecondLock, LockOrder

LEMMA AnswerEffect ==
  ASSUME VaultTypeOK, NEW t \in Tasks, NEW a, Answer(t, a)
  PROVE  /\ DOMAIN calls' = Tasks /\ DOMAIN calls'[t] = DOMAIN NoCall
         /\ calls'[t].at = "answered" /\ calls'[t].answer = a
         /\ calls'[t].call = calls[t].call
         /\ \A u \in Tasks \ {t} : calls'[u] = calls[u]
BY DEF VaultTypeOK, Answer, NoCall

LEMMA StandEffect ==
  ASSUME VaultTypeOK, NEW t \in Tasks, NEW place, Stand(t, place)
  PROVE  /\ DOMAIN calls' = Tasks /\ DOMAIN calls'[t] = DOMAIN NoCall
         /\ calls'[t].at = place /\ calls'[t].answer = calls[t].answer
         /\ calls'[t].call = calls[t].call
         /\ \A u \in Tasks \ {t} : calls'[u] = calls[u]
BY DEF VaultTypeOK, Stand, NoCall

LEMMA TruncateEffect ==
  ASSUME VaultTypeOK, NEW t \in Tasks, NEW old,
         calls' = [calls EXCEPT ![t].at = "truncated", ![t].old = old]
  PROVE  /\ DOMAIN calls' = Tasks /\ DOMAIN calls'[t] = DOMAIN NoCall
         /\ calls'[t].at = "truncated" /\ calls'[t].answer = calls[t].answer
         /\ calls'[t].call = calls[t].call /\ calls'[t].old = old
         /\ \A u \in Tasks \ {t} : calls'[u] = calls[u]
BY DEF VaultTypeOK, NoCall

LEMMA AppendType ==
  ASSUME NEW q \in [Paths -> Seq(Tasks)], NEW p \in Paths, NEW t \in Tasks
  PROVE  [q EXCEPT ![p] = Append(@, t)] \in [Paths -> Seq(Tasks)]
OBVIOUS

LEMMA QueueTypes ==
  ASSUME VaultTypeOK, NEW p \in Paths
  PROVE  /\ \A t \in Tasks : [queue EXCEPT ![p] = Append(@, t)] \in [Paths -> Seq(Tasks)]
         /\ queue[p] # <<>> => [queue EXCEPT ![p] = Tail(@)] \in [Paths -> Seq(Tasks)]
BY DEF VaultTypeOK

-----------------------------------------------------------------------------
(* The invariant is inductive. *)

\* What a call at the end of its stay with one lock does to the others: if the
\* caller is not inside, and the locks of nobody change, they still match.
LEMMA OthersKeep ==
  ASSUME VaultInv, NEW t \in Tasks, \A u \in Tasks \ {t} : calls'[u] = calls[u],
         NEW u \in Tasks \ {t}, NEW p \in Paths
  PROVE  Holding(u, p)' <=> holder[p] = u
BY DEF VaultInv, LocksMatchCalls, Holding, At

\* A call that stands outside of every lock holds none.
LEMMA Outside ==
  ASSUME VaultInv, NEW t \in Tasks, ~At(t, "truncated"), ~At(t, "second"), NEW p \in Paths
  PROVE  holder[p] # t
BY DEF VaultInv, LocksMatchCalls, Holding

\* The types of what is left when t leaves the queue of p and is answered.
LEMMA AnsweredTypes ==
  ASSUME VaultTypeOK, NEW t \in Tasks, ~At(t, "idle"), NEW a, Answer(t, a),
         DOMAIN notes' = Paths, queue' \in [Paths -> Seq(Tasks)], holder' \in [Paths -> Who]
  PROVE  VaultTypeOK'
<1>1. /\ DOMAIN calls' = Tasks /\ DOMAIN calls'[t] = DOMAIN NoCall /\ calls'[t].at = "answered"
      /\ calls'[t].call = calls[t].call /\ \A u \in Tasks \ {t} : calls'[u] = calls[u]
  BY AnswerEffect
<1>2. QED
  BY <1>1 DEF VaultTypeOK, At, Places

\* An answered call is inside of no lock: the others hold what they held.
LEMMA AnsweredLocks ==
  ASSUME VaultInv, NEW t \in Tasks, NEW a, Answer(t, a),
         \A p \in Paths : holder'[p] = IF holder[p] = t THEN None ELSE holder[p]
  PROVE  LocksMatchCalls'
<1>0. VaultTypeOK
  BY DEF VaultInv
<1>1. calls'[t].at = "answered" /\ \A u \in Tasks \ {t} : calls'[u] = calls[u]
  BY <1>0, AnswerEffect
<1> SUFFICES ASSUME NEW p \in Paths, NEW u \in Tasks PROVE holder'[p] = u <=> Holding(u, p)'
  BY DEF LocksMatchCalls
<1>2. CASE u = t
  BY <1>1, <1>2, VaultAssumption DEF Holding, At
<1>3. CASE u # t
  <2>1. Holding(u, p)' <=> holder[p] = u
    BY <1>1, <1>3, OthersKeep
  <2>2. QED
    BY <2>1, <1>3, VaultAssumption
<1>4. QED
  BY <1>2, <1>3

LEMMA InitInv == VaultInit => IInv
<1> SUFFICES ASSUME VaultInit PROVE IInv
  OBVIOUS
<1>1. VaultTypeOK
  BY DEF VaultInit, VaultTypeOK, NoCall, Who, Places, At
<1>2. LocksMatchCalls
  BY VaultAssumption DEF VaultInit, LocksMatchCalls, Holding, At, NoCall
<1>3. \A t \in Tasks : Rewriting(t) /\ Moving(t)
  BY DEF VaultInit, Rewriting, Moving, At, NoCall
<1>4. QED
  BY <1>1, <1>2, <1>3 DEF IInv, VaultInv

\* The others keep what they have read and truncated when t changes no note that
\* one of them has locked.
LEMMA OthersKeepNotes ==
  ASSUME IInv, NEW t \in Tasks, \A u \in Tasks \ {t} : calls'[u] = calls[u],
         \A p \in Paths : holder[p] \notin {None, t} => notes'[p] = notes[p],
         NEW u \in Tasks \ {t}
  PROVE  Rewriting(u)' /\ Moving(u)'
<1>1. Moving(u)'
  BY DEF IInv, Moving, At
<1>2. ASSUME At(u, "truncated")
      PROVE  calls[u].call.path \in Paths /\ holder[calls[u].call.path] = u
  BY <1>2, LocksInPaths DEF IInv, VaultInv, VaultTypeOK, LocksMatchCalls, Holding, At
<1>3. Rewriting(u)'
  <2>1. CASE At(u, "truncated")
    <3>1. notes'[calls[u].call.path] = notes[calls[u].call.path]
      BY <1>2, <2>1, VaultAssumption
    <3>2. calls'[u] = calls[u] /\ Rewriting(u)
      BY DEF IInv
    <3>3. QED
      BY <3>1, <3>2 DEF Rewriting, At
  <2>2. CASE ~At(u, "truncated")
    BY <2>2 DEF Rewriting, At
  <2>3. QED
    BY <2>1, <2>2
<1>4. QED
  BY <1>1, <1>3

\* A call that is answered has nothing left to keep.
LEMMA AnsweredKeeps ==
  ASSUME IInv, NEW t \in Tasks, NEW a, Answer(t, a),
         \A p \in Paths : holder[p] \notin {None, t} => notes'[p] = notes[p]
  PROVE  \A u \in Tasks : Rewriting(u)' /\ Moving(u)'
<1>0. VaultTypeOK
  BY DEF IInv, VaultInv
<1>1. calls'[t].at = "answered" /\ \A u \in Tasks \ {t} : calls'[u] = calls[u]
  BY <1>0, AnswerEffect
<1>2. Rewriting(t)' /\ Moving(t)'
  BY <1>1 DEF Rewriting, Moving, At
<1>3. \A u \in Tasks \ {t} : Rewriting(u)' /\ Moving(u)'
  BY <1>1, OthersKeepNotes
<1>4. QED
  BY <1>2, <1>3

\* So an answer preserves the invariant when it only lets go of locks of its own.
LEMMA AnswerInv ==
  ASSUME IInv, NEW t \in Tasks, ~At(t, "idle"), NEW a, Answer(t, a),
         DOMAIN notes' = Paths, queue' \in [Paths -> Seq(Tasks)], DOMAIN holder' = Paths,
         holder' = [p \in Paths |-> holder'[p]],
         \A p \in Paths : holder'[p] = IF holder[p] = t THEN None ELSE holder[p],
         \A p \in Paths : holder[p] \notin {None, t} => notes'[p] = notes[p]
  PROVE  IInv'
<1>1. VaultInv /\ VaultTypeOK
  BY DEF IInv, VaultInv
<1>2. holder' \in [Paths -> Who]
  BY <1>1 DEF VaultTypeOK, Who
<1>3. VaultTypeOK'
  BY <1>1, <1>2, AnsweredTypes
<1>4. LocksMatchCalls'
  BY <1>1, AnsweredLocks
<1>5. \A u \in Tasks : Rewriting(u)' /\ Moving(u)'
  BY AnsweredKeeps
<1>6. QED
  BY <1>3, <1>4, <1>5 DEF IInv, VaultInv

LEMMA InvokeInv ==
  ASSUME IInv, NEW t \in Tasks, NEW c, IsCall(c), Invoke(t, c)
  PROVE  IInv'
<1>0. VaultInv /\ VaultTypeOK
  BY DEF IInv, VaultInv
<1>1. /\ DOMAIN calls' = Tasks /\ \A u \in Tasks \ {t} : calls'[u] = calls[u]
      /\ calls'[t] = [call |-> c, at |-> "lock", answer |-> None, old |-> None]
  BY <1>0 DEF Invoke, VaultTypeOK
<1>2. FirstLock(c) \in Paths
  BY LocksInPaths
<1>3. queue' \in [Paths -> Seq(Tasks)]
  BY <1>0, <1>2, QueueTypes DEF Invoke, VaultTypeOK
<1>4. VaultTypeOK'
  BY <1>0, <1>1, <1>3 DEF Invoke, VaultTypeOK, NoCall, At, Places
<1>5. LocksMatchCalls'
  <2> SUFFICES ASSUME NEW p \in Paths, NEW u \in Tasks PROVE holder'[p] = u <=> Holding(u, p)'
    BY DEF LocksMatchCalls
  <2>1. CASE u = t
    <3>1. ~At(t, "truncated") /\ ~At(t, "second")
      BY DEF Invoke, Idle, At
    <3>2. holder[p] # t
      BY <1>0, <3>1, Outside
    <3>3. QED
      BY <1>1, <2>1, <3>2 DEF Invoke, Holding, At
  <2>2. CASE u # t
    BY <1>0, <1>1, <2>2, OthersKeep DEF Invoke
  <2>3. QED
    BY <2>1, <2>2
<1>6. Rewriting(t)' /\ Moving(t)'
  BY <1>1 DEF Rewriting, Moving, At
<1>7. \A u \in Tasks \ {t} : Rewriting(u)' /\ Moving(u)'
  BY <1>1, OthersKeepNotes DEF Invoke
<1>8. QED
  BY <1>4, <1>5, <1>6, <1>7 DEF IInv, VaultInv

\* What enters a lock is a call, and leaves the queue.
LEMMA Entered ==
  ASSUME IInv, NEW t \in Tasks, ~At(t, "idle")
  PROVE  /\ IsCall(calls[t].call)
         /\ \A p \in Paths : Leave(p) /\ MayEnter(t, p) => queue' \in [Paths -> Seq(Tasks)]
<1>1. VaultTypeOK
  BY DEF IInv, VaultInv
<1>2. IsCall(calls[t].call)
  BY <1>1 DEF VaultTypeOK
<1>3. \A p \in Paths : Leave(p) /\ MayEnter(t, p) => queue' \in [Paths -> Seq(Tasks)]
  BY <1>1, QueueTypes DEF Leave, MayEnter
<1>4. QED
  BY <1>2, <1>3

\* A call that is outside of every lock and is answered at once.
LEMMA PassingInv ==
  ASSUME IInv, NEW t \in Tasks, At(t, "lock"), NEW a, Answer(t, a),
         queue' \in [Paths -> Seq(Tasks)], UNCHANGED holder, DOMAIN notes' = Paths,
         \A p \in Paths : holder[p] # None => notes'[p] = notes[p]
  PROVE  IInv'
<1>1. VaultInv /\ VaultTypeOK
  BY DEF IInv, VaultInv
<1>2. \A p \in Paths : holder[p] # t
  BY <1>1, Outside DEF At
<1>3. QED
  BY <1>1, <1>2, AnswerInv DEF VaultTypeOK, At

-----------------------------------------------------------------------------
(* One lemma per action. *)

LEMMA ReadInv ==
  ASSUME IInv, NEW t \in Tasks, Read(t)
  PROVE  IInv'
<1>1. At(t, "lock") /\ Answer(t, AnswerTo(notes, calls[t].call)) /\ UNCHANGED <<notes, holder>>
  BY DEF Read
<1>2. ~At(t, "idle")
  BY <1>1 DEF At
<1>3. queue' \in [Paths -> Seq(Tasks)]
  BY <1>2, Entered, LocksInPaths DEF Read
<1>4. QED
  BY <1>1, <1>3, PassingInv DEF IInv, VaultInv, VaultTypeOK

LEMMA SearchInv ==
  ASSUME IInv, NEW t \in Tasks, Search(t)
  PROVE  IInv'
<1>1. At(t, "lock") /\ Answer(t, AnswerTo(notes, calls[t].call)) /\ UNCHANGED <<notes, queue, holder>>
  BY DEF Search
<1>2. QED
  BY <1>1, PassingInv DEF IInv, VaultInv, VaultTypeOK

LEMMA DeleteInv ==
  ASSUME IInv, NEW t \in Tasks, Delete(t)
  PROVE  IInv'
<1>1. /\ At(t, "lock") /\ Answer(t, AnswerTo(notes, calls[t].call)) /\ UNCHANGED holder
      /\ MayEnter(t, calls[t].call.path) /\ notes' = After(notes, calls[t].call)
      /\ calls[t].call.op = "delete"
  BY DEF Delete
<1>2. ~At(t, "idle")
  BY <1>1 DEF At
<1>3. queue' \in [Paths -> Seq(Tasks)]
  BY <1>2, Entered, LocksInPaths DEF Delete
<1>4. notes' = notes \/ notes' = [notes EXCEPT ![calls[t].call.path] = None]
  BY <1>1 DEF After, Writers, Creators, Editors, Readers
<1>5. DOMAIN notes' = Paths /\ \A p \in Paths : holder[p] # None => notes'[p] = notes[p]
  BY <1>1, <1>4 DEF IInv, VaultInv, VaultTypeOK, MayEnter
<1>6. QED
  BY <1>1, <1>3, <1>5, PassingInv

LEMMA WriteInv ==
  ASSUME IInv, NEW t \in Tasks, Write(t)
  PROVE  IInv'
<1> DEFINE path == calls[t].call.path
<1>1. /\ At(t, "truncated") /\ Answer(t, Done) /\ UNCHANGED queue /\ Free({path})
      /\ notes' = [notes EXCEPT ![path] = Written(Content(calls[t].old), calls[t].call)]
  BY DEF Write
<1>2. ~At(t, "idle")
  BY <1>1 DEF At
<1>3. path \in Paths
  BY <1>2, Entered, LocksInPaths
<1>4. \A p \in Paths : holder[p] = t <=> p = path
  BY <1>1 DEF IInv, VaultInv, LocksMatchCalls, Holding, At
<1>5. \A p \in Paths : holder'[p] = IF holder[p] = t THEN None ELSE holder[p]
  BY <1>1, <1>4 DEF Free
<1>6. DOMAIN holder' = Paths /\ holder' = [p \in Paths |-> holder'[p]]
  BY <1>1 DEF Free
<1>7. DOMAIN notes' = Paths /\ \A p \in Paths : holder[p] \notin {None, t} => notes'[p] = notes[p]
  BY <1>1, <1>4 DEF IInv, VaultInv, VaultTypeOK
<1>8. queue' \in [Paths -> Seq(Tasks)]
  BY <1>1 DEF IInv, VaultInv, VaultTypeOK
<1>9. QED
  BY <1>1, <1>2, <1>5, <1>6, <1>7, <1>8, AnswerInv

\* A move, or one that fails, lets go of both of its locks.
LEMMA MoverLocks ==
  ASSUME IInv, NEW t \in Tasks, At(t, "second"),
         MayEnter(t, SecondLock(calls[t].call)), Leave(SecondLock(calls[t].call)),
         Free({FirstLock(calls[t].call), SecondLock(calls[t].call)})
  PROVE  /\ ~At(t, "idle") /\ queue' \in [Paths -> Seq(Tasks)]
         /\ DOMAIN holder' = Paths /\ holder' = [p \in Paths |-> holder'[p]]
         /\ \A p \in Paths : holder'[p] = IF holder[p] = t THEN None ELSE holder[p]
<1>1. ~At(t, "idle")
  BY DEF At
<1>2. \A p \in Paths : holder[p] = t <=> p = FirstLock(calls[t].call)
  BY DEF IInv, VaultInv, LocksMatchCalls, Holding, At
<1>3. IsCall(calls[t].call)
  BY <1>1, Entered
<1>4. SecondLock(calls[t].call) \in Paths /\ holder[SecondLock(calls[t].call)] = None
  BY <1>3, LocksInPaths DEF MayEnter
<1>5. queue' \in [Paths -> Seq(Tasks)]
  BY <1>1, <1>4, Entered
<1>6. \A p \in Paths : holder'[p] = IF holder[p] = t THEN None ELSE holder[p]
  BY <1>2, <1>4 DEF Free
<1>7. DOMAIN holder' = Paths /\ holder' = [p \in Paths |-> holder'[p]]
  BY DEF Free
<1>8. QED
  BY <1>1, <1>5, <1>6, <1>7

LEMMA MoveInv ==
  ASSUME IInv, NEW t \in Tasks, Move(t)
  PROVE  IInv'
<1> DEFINE c == calls[t].call
<1>1. /\ At(t, "second") /\ MayEnter(t, SecondLock(c)) /\ Leave(SecondLock(c))
      /\ Free({FirstLock(c), SecondLock(c)})
      /\ notes' = After(notes, c) /\ Answer(t, AnswerTo(notes, c))
  BY DEF Move
<1>2. /\ ~At(t, "idle") /\ queue' \in [Paths -> Seq(Tasks)]
      /\ DOMAIN holder' = Paths /\ holder' = [p \in Paths |-> holder'[p]]
      /\ \A p \in Paths : holder'[p] = IF holder[p] = t THEN None ELSE holder[p]
  BY <1>1, MoverLocks
<1>3. IsCall(c) /\ c.op \in Movers /\ c.path \in Paths /\ c.to \in Paths
  BY <1>1, <1>2, Entered, LocksInPaths DEF IInv, Moving
<1>4. {FirstLock(c), SecondLock(c)} = {c.path, c.to}
  BY <1>3 DEF FirstLock, SecondLock, LockOrder
<1>5. notes' = notes \/ notes' = [notes EXCEPT ![c.to] = notes[c.path], ![c.path] = None]
  BY <1>1, <1>3 DEF After, AfterMove, Movers, Writers, Creators, Editors, Readers
<1>6. holder[FirstLock(c)] = t /\ holder[SecondLock(c)] = None
  BY <1>1, <1>3, LocksInPaths DEF IInv, VaultInv, LocksMatchCalls, Holding, MayEnter
<1>7. \A p \in {c.path, c.to} : holder[p] \in {None, t}
  BY <1>4, <1>6
<1>8. DOMAIN notes' = Paths /\ \A p \in Paths : holder[p] \notin {None, t} => notes'[p] = notes[p]
  BY <1>3, <1>5, <1>7 DEF IInv, VaultInv, VaultTypeOK
<1>9. QED
  BY <1>1, <1>2, <1>8, AnswerInv

LEMMA IoErrorInv ==
  ASSUME IInv, NEW t \in Tasks, IoError(t)
  PROVE  IInv'
<1> DEFINE c == calls[t].call
<1>0. Answer(t, Refused) /\ UNCHANGED notes
  BY DEF IoError
<1>1. DOMAIN notes' = Paths /\ \A p \in Paths : notes'[p] = notes[p]
  BY <1>0 DEF IInv, VaultInv, VaultTypeOK
<1>2. CASE At(t, "lock") /\ MayEnter(t, c.path) /\ Leave(c.path) /\ UNCHANGED holder
  <2>1. ~At(t, "idle")
    BY <1>2 DEF At
  <2>2. queue' \in [Paths -> Seq(Tasks)]
    BY <1>2, <2>1, Entered, LocksInPaths
  <2>3. QED
    BY <1>0, <1>1, <1>2, <2>2, PassingInv
<1>3. CASE At(t, "truncated") /\ Free({c.path}) /\ UNCHANGED queue
  <2>1. ~At(t, "idle")
    BY <1>3 DEF At
  <2>2. \A p \in Paths : holder[p] = t <=> p = c.path
    BY <1>3 DEF IInv, VaultInv, LocksMatchCalls, Holding, At
  <2>3. \A p \in Paths : holder'[p] = IF holder[p] = t THEN None ELSE holder[p]
    BY <1>3, <2>2 DEF Free
  <2>4. DOMAIN holder' = Paths /\ holder' = [p \in Paths |-> holder'[p]]
    BY <1>3 DEF Free
  <2>5. queue' \in [Paths -> Seq(Tasks)]
    BY <1>3 DEF IInv, VaultInv, VaultTypeOK
  <2>6. QED
    BY <1>0, <1>1, <2>1, <2>3, <2>4, <2>5, AnswerInv
<1>4. CASE /\ At(t, "second") /\ MayEnter(t, SecondLock(c)) /\ Leave(SecondLock(c))
           /\ Free({FirstLock(c), SecondLock(c)})
  <2>1. /\ ~At(t, "idle") /\ queue' \in [Paths -> Seq(Tasks)]
        /\ DOMAIN holder' = Paths /\ holder' = [p \in Paths |-> holder'[p]]
        /\ \A p \in Paths : holder'[p] = IF holder[p] = t THEN None ELSE holder[p]
    BY <1>4, MoverLocks
  <2>2. QED
    BY <1>0, <1>1, <2>1, AnswerInv
<1>5. QED
  BY <1>2, <1>3, <1>4 DEF IoError

\* A writer that has something to write goes inside, with what it has read.
LEMMA TruncateInv ==
  ASSUME IInv, NEW t \in Tasks, At(t, "lock"), NEW c, c = calls[t].call, c.op \in Writers,
         MayEnter(t, c.path), Leave(c.path), Opens(notes, c), Rewrites(Before(notes, c), c),
         holder' = [holder EXCEPT ![c.path] = t], notes' = [notes EXCEPT ![c.path] = Empty],
         calls' = [calls EXCEPT ![t].at = "truncated", ![t].old = notes[c.path]]
  PROVE  IInv'
<1>0. VaultInv /\ VaultTypeOK /\ ~At(t, "idle") /\ ~At(t, "truncated") /\ ~At(t, "second")
  BY DEF IInv, VaultInv, At
<1>1. /\ DOMAIN calls' = Tasks /\ DOMAIN calls'[t] = DOMAIN NoCall
      /\ calls'[t].at = "truncated" /\ calls'[t].call = c /\ calls'[t].old = notes[c.path]
      /\ \A u \in Tasks \ {t} : calls'[u] = calls[u]
  BY <1>0, TruncateEffect
<1>2. IsCall(c) /\ c.path \in Paths /\ queue' \in [Paths -> Seq(Tasks)]
  BY <1>0, Entered, LocksInPaths
<1>3. holder[c.path] = None
  BY DEF MayEnter
<1>4. DOMAIN notes' = Paths /\ holder' \in [Paths -> Who]
  BY <1>0, <1>2 DEF VaultTypeOK, Who
<1>5. VaultTypeOK'
  BY <1>0, <1>1, <1>2, <1>4 DEF VaultTypeOK, At, Places
<1>6. LocksMatchCalls'
  <2> SUFFICES ASSUME NEW p \in Paths, NEW u \in Tasks PROVE holder'[p] = u <=> Holding(u, p)'
    BY DEF LocksMatchCalls
  <2>1. CASE u = t
    <3>1. holder[p] # t
      BY <1>0, Outside
    <3>2. holder'[p] = t <=> p = c.path
      BY <1>0, <3>1 DEF VaultTypeOK
    <3>3. Holding(t, p)' <=> p = c.path
      BY <1>1 DEF Holding, At
    <3>4. QED
      BY <2>1, <3>2, <3>3
  <2>2. CASE u # t
    <3>1. Holding(u, p)' <=> holder[p] = u
      BY <1>0, <1>1, <2>2, OthersKeep
    <3>2. holder'[p] = u <=> holder[p] = u
      BY <1>0, <1>3, <2>2, VaultAssumption DEF VaultTypeOK
    <3>3. QED
      BY <3>1, <3>2
  <2>3. QED
    BY <2>1, <2>2
<1>7. Rewriting(t)' /\ Moving(t)'
  <2>1. notes'[c.path] = Empty
    BY <1>0, <1>2 DEF VaultTypeOK
  <2>2. notes[c.path] # None \/ c.op \in Creators
    BY DEF Opens
  <2>3. Rewrites(Content(notes[c.path]), c)
    BY DEF Before
  <2>4. Rewriting(t)'
    BY <1>1, <2>1, <2>2, <2>3 DEF Rewriting, At
  <2>5. Moving(t)'
    BY <1>1 DEF Moving, At
  <2>6. QED
    BY <2>4, <2>5
<1>8. \A u \in Tasks \ {t} : Rewriting(u)' /\ Moving(u)'
  <2>1. \A p \in Paths : holder[p] \notin {None, t} => notes'[p] = notes[p]
    BY <1>0, <1>3 DEF VaultTypeOK
  <2>2. QED
    BY <1>1, <2>1, OthersKeepNotes
<1>9. QED
  BY <1>5, <1>6, <1>7, <1>8 DEF IInv, VaultInv

LEMMA OpenInv ==
  ASSUME IInv, NEW t \in Tasks, Open(t)
  PROVE  IInv'
<1> DEFINE c == calls[t].call
<1>1. At(t, "lock") /\ c.op \in Writers /\ MayEnter(t, c.path) /\ Leave(c.path)
  BY DEF Open
<1>2. CASE Opens(notes, c) /\ Rewrites(Before(notes, c), c)
  BY <1>1, <1>2, TruncateInv DEF Open
<1>3. CASE ~(Opens(notes, c) /\ Rewrites(Before(notes, c), c))
  <2>1. Answer(t, AnswerTo(notes, c)) /\ UNCHANGED <<notes, holder>>
    BY <1>3 DEF Open
  <2>2. ~At(t, "idle")
    BY <1>1 DEF At
  <2>3. queue' \in [Paths -> Seq(Tasks)]
    BY <1>1, <2>2, Entered, LocksInPaths
  <2>4. QED
    BY <1>1, <2>1, <2>3, PassingInv DEF IInv, VaultInv, VaultTypeOK
<1>4. QED
  BY <1>2, <1>3

LEMMA LockFirstInv ==
  ASSUME IInv, NEW t \in Tasks, LockFirst(t)
  PROVE  IInv'
<1> DEFINE c == calls[t].call
           p1 == FirstLock(c)
           p2 == SecondLock(c)
<1>0. VaultInv /\ VaultTypeOK /\ At(t, "lock") /\ c.op \in Movers
  BY DEF IInv, VaultInv, LockFirst
<1>1. /\ MayEnter(t, p1) /\ Stand(t, "second") /\ UNCHANGED notes
      /\ holder' = [holder EXCEPT ![p1] = t]
      /\ queue' = [[queue EXCEPT ![p1] = Tail(@)] EXCEPT ![p2] = Append(@, t)]
  BY DEF LockFirst
<1>2. /\ DOMAIN calls' = Tasks /\ DOMAIN calls'[t] = DOMAIN NoCall
      /\ calls'[t].at = "second" /\ calls'[t].call = c
      /\ \A u \in Tasks \ {t} : calls'[u] = calls[u]
  BY <1>0, <1>1, StandEffect
<1>3. ~At(t, "idle") /\ ~At(t, "truncated") /\ ~At(t, "second")
  BY <1>0 DEF At
<1>4. IsCall(c) /\ p1 \in Paths /\ p2 \in Paths
  BY <1>3, Entered, LocksInPaths
<1>5. queue' \in [Paths -> Seq(Tasks)]
  <2>1. [queue EXCEPT ![p1] = Tail(@)] \in [Paths -> Seq(Tasks)]
    BY <1>0, <1>1, <1>4, QueueTypes DEF MayEnter
  <2>2. QED
    BY <1>1, <1>4, <2>1, AppendType
<1>6. VaultTypeOK'
  BY <1>0, <1>1, <1>2, <1>3, <1>4, <1>5 DEF VaultTypeOK, At, Places, Who
<1>7. LocksMatchCalls'
  <2> SUFFICES ASSUME NEW p \in Paths, NEW u \in Tasks PROVE holder'[p] = u <=> Holding(u, p)'
    BY DEF LocksMatchCalls
  <2>1. CASE u = t
    <3>1. holder[p] # t
      BY <1>0, <1>3, Outside
    <3>2. holder'[p] = t <=> p = p1
      BY <1>0, <1>1, <3>1 DEF VaultTypeOK
    <3>3. Holding(t, p)' <=> p = p1
      BY <1>2 DEF Holding, At
    <3>4. QED
      BY <2>1, <3>2, <3>3
  <2>2. CASE u # t
    <3>1. Holding(u, p)' <=> holder[p] = u
      BY <1>0, <1>2, <2>2, OthersKeep
    <3>2. holder'[p] = u <=> holder[p] = u
      BY <1>0, <1>1, <2>2, VaultAssumption DEF VaultTypeOK, MayEnter
    <3>3. QED
      BY <3>1, <3>2
  <2>3. QED
    BY <2>1, <2>2
<1>8. Rewriting(t)' /\ Moving(t)'
  BY <1>0, <1>2 DEF Rewriting, Moving, At
<1>9. \A u \in Tasks \ {t} : Rewriting(u)' /\ Moving(u)'
  BY <1>1, <1>2, OthersKeepNotes
<1>10. QED
  BY <1>6, <1>7, <1>8, <1>9 DEF IInv, VaultInv

LEMMA CrashInv ==
  ASSUME IInv, Crash
  PROVE  IInv'
<1>1. /\ notes' = notes /\ queue' = [p \in Paths |-> <<>>]
      /\ holder' = [p \in Paths |-> None] /\ calls' = [t \in Tasks |-> NoCall]
  BY DEF Crash
<1>2. VaultTypeOK'
  BY <1>1 DEF IInv, VaultInv, VaultTypeOK, NoCall, Who, Places, At
<1>3. LocksMatchCalls'
  BY <1>1, VaultAssumption DEF LocksMatchCalls, Holding, At, NoCall
<1>4. \A t \in Tasks : Rewriting(t)' /\ Moving(t)'
  BY <1>1 DEF Rewriting, Moving, At, NoCall
<1>5. QED
  BY <1>2, <1>3, <1>4 DEF IInv, VaultInv

LEMMA AccessInv ==
  ASSUME IInv, NEW t \in Tasks, Access(t)
  PROVE  IInv'
BY ReadInv, SearchInv, DeleteInv, OpenInv, WriteInv, LockFirstInv, MoveInv, IoErrorInv
DEF Access

LEMMA StepInv == IInv /\ [VaultNext]_vaultVars => IInv'
<1> SUFFICES ASSUME IInv, [VaultNext]_vaultVars PROVE IInv'
  OBVIOUS
<1>1. ASSUME NEW t \in Tasks, Access(t) PROVE IInv'
  BY <1>1, AccessInv
<1>2. CASE UNCHANGED vaultVars
  BY <1>2 DEF vaultVars, IInv, VaultInv, VaultTypeOK, LocksMatchCalls, Holding, Rewriting,
              Moving, At
<1>3. \A t \in Tasks, c \in VaultCalls : Invoke(t, c) => IInv'
  BY InvokeInv, VaultAssumption
<1>4. QED
  BY <1>1, <1>2, <1>3, CrashInv DEF VaultNext

\* The lock of a note is held by exactly the call that stands inside of it: two
\* requests never rewrite one note at a time, and no lock outlives its call
\* (mcp/vault.rs, path_lock and its users).
THEOREM VaultInvariant == VaultSpec => []VaultInv
<1>1. IInv => VaultInv
  BY DEF IInv
<1>2. QED
  BY InitInv, StepInv, <1>1, PTL DEF VaultSpec

-----------------------------------------------------------------------------
(* The vault implements the atomic store.  The operators of NoteStore are    *)
(* those of Notes.                                                           *)

LEMMA SameEdits ==
  ASSUME NEW old, NEW c
  PROVE  /\ Store!Written(old, c) = Written(old, c)
         /\ Store!Rewrites(old, c) <=> Rewrites(old, c)
         /\ Store!Content(old) = Content(old)
BY DEF Store!Written, Written, Store!Rewrites, Rewrites, Store!Content, Content, Store!Empty, Empty

LEMMA SameSets ==
  /\ Store!Writers = Writers /\ Store!Readers = Readers /\ Store!Movers = Movers
  /\ Store!Creators = Creators /\ Store!Empty = Empty
  /\ Store!Refused = Refused /\ Store!Done = Done
BY DEF Store!Writers, Writers, Store!Readers, Readers, Store!Movers, Movers, Store!Creators,
       Creators, Store!Editors, Editors, Store!Empty, Empty, Store!Refused, Refused, Store!Done, Done

LEMMA SameConditions ==
  ASSUME NEW n, NEW c
  PROVE  /\ Store!Opens(n, c) <=> Opens(n, c)
         /\ Store!Moves(n, c) <=> Moves(n, c)
         /\ Store!Before(n, c) = Before(n, c) /\ Store!AfterMove(n, c) = AfterMove(n, c)
         /\ Store!Found(n) = Found(n)
BY SameSets, SameEdits DEF Store!Opens, Opens, Store!Moves, Moves, Store!Before, Before,
       Store!AfterMove, AfterMove, Store!Found, Found

LEMMA SameAnswers ==
  ASSUME NEW n, NEW c
  PROVE  Store!AnswerTo(n, c) = AnswerTo(n, c) /\ Store!After(n, c) = After(n, c)
<1>1. Store!Succeeds(n, c) <=> Succeeds(n, c)
  BY SameSets, SameConditions DEF Store!Succeeds, Succeeds
<1>2. Store!AnswerTo(n, c) = AnswerTo(n, c)
  BY <1>1, SameSets, SameConditions DEF Store!AnswerTo, AnswerTo
<1>3a. /\ Store!Written(Before(n, c), c) = Written(Before(n, c), c)
       /\ (Store!Rewrites(Before(n, c), c) <=> Rewrites(Before(n, c), c))
  BY SameEdits
<1>3. Store!After(n, c) = After(n, c)
  <2>1. CASE Succeeds(n, c)
    <3> DEFINE w == Written(Before(n, c), c)
    <3>1. [n EXCEPT ![c.path] = Store!Written(Store!Before(n, c), c)] = [n EXCEPT ![c.path] = w]
      BY <1>3a, SameConditions
    <3> HIDE DEF w
    <3>2. CASE c.op \in Readers
      BY <1>1, <2>1, <3>2, SameSets DEF Store!After, After, Readers, Writers, Creators, Editors
    <3>3. CASE c.op \in Writers
      BY <1>1, <1>3a, <2>1, <3>1, <3>3, SameSets, SameConditions
      DEF Store!After, After, Readers, Writers, Creators, Editors, w
    <3>4. CASE c.op \notin Readers \cup Writers
      BY <1>1, <2>1, <3>4, SameSets, SameConditions DEF Store!After, After
    <3>5. QED
      BY <3>2, <3>3, <3>4
  <2>2. CASE ~Succeeds(n, c)
    BY <1>1, <2>2 DEF Store!After, After
  <2>3. QED
    BY <2>1, <2>2
<1>4. QED
  BY <1>2, <1>3

-----------------------------------------------------------------------------
(* What is visible of a note, now and after a step. *)

LEMMA VisibleNow ==
  ASSUME IInv, NEW p \in Paths
  PROVE  /\ holder[p] = None => Visible[p] = notes[p]
         /\ \A t \in Tasks : At(t, "truncated") /\ calls[t].call.path = p
              => holder[p] = t /\ Visible[p] = calls[t].old /\ notes[p] = Empty
         /\ \A t \in Tasks : At(t, "second") /\ FirstLock(calls[t].call) = p
              => holder[p] = t /\ Visible[p] = notes[p]
<1>1. holder[p] = None => Visible[p] = notes[p]
  BY DEF Visible
<1>2. ASSUME NEW t \in Tasks, At(t, "truncated"), calls[t].call.path = p
      PROVE  holder[p] = t /\ Visible[p] = calls[t].old /\ notes[p] = Empty
  <2>1. holder[p] = t
    BY <1>2 DEF IInv, VaultInv, LocksMatchCalls, Holding
  <2>2. Visible[p] = calls[t].old
    BY <1>2, <2>1, VaultAssumption DEF Visible, At
  <2>3. notes[p] = Empty
    BY <1>2 DEF IInv, Rewriting
  <2>4. QED
    BY <2>1, <2>2, <2>3
<1>3. ASSUME NEW t \in Tasks, At(t, "second"), FirstLock(calls[t].call) = p
      PROVE  holder[p] = t /\ Visible[p] = notes[p]
  <2>1. holder[p] = t
    BY <1>3 DEF IInv, VaultInv, LocksMatchCalls, Holding
  <2>2. Visible[p] = notes[p]
    BY <1>3, <2>1, VaultAssumption DEF Visible, At
  <2>3. QED
    BY <2>1, <2>2
<1>4. QED
  BY <1>1, <1>2, <1>3

\* After a step of t: a note whose lock is free, and one that another call has.
LEMMA VisibleNext ==
  ASSUME IInv, NEW t \in Tasks, \A u \in Tasks \ {t} : calls'[u] = calls[u], NEW p \in Paths,
         holder'[p] \in Who
  PROVE  /\ holder'[p] = None => Visible'[p] = notes'[p]
         /\ (holder'[p] = holder[p] /\ holder[p] # t /\ notes'[p] = notes[p])
              => Visible'[p] = Visible[p]
<1>1. holder'[p] = None => Visible'[p] = notes'[p]
  BY DEF Visible
<1>2. ASSUME holder'[p] = holder[p], holder[p] # t, notes'[p] = notes[p]
      PROVE  Visible'[p] = Visible[p]
  BY <1>2 DEF Visible, Who
<1>3. QED
  BY <1>1, <1>2

\* When one note changes, and no other.
LEMMA VisibleChange ==
  ASSUME NEW p \in Paths, NEW n, Visible'[p] = n, \A q \in Paths \ {p} : Visible'[q] = Visible[q]
  PROVE  Visible' = [Visible EXCEPT ![p] = n]
<1>1. Visible' = [q \in Paths |-> Visible'[q]]
  BY DEF Visible
<1>2. [Visible EXCEPT ![p] = n] = [q \in Paths |-> IF q = p THEN n ELSE Visible[q]]
  BY DEF Visible
<1>3. \A q \in Paths : Visible'[q] = IF q = p THEN n ELSE Visible[q]
  OBVIOUS
<1> QED BY <1>1, <1>2, <1>3

\* A call that stands outside of every lock leaves the locked notes as they are.
LEMMA PassingVisible ==
  ASSUME IInv, IInv', NEW t \in Tasks, ~At(t, "truncated"), ~At(t, "second"),
         \A u \in Tasks \ {t} : calls'[u] = calls[u], UNCHANGED holder,
         \A p \in Paths : holder[p] # None => notes'[p] = notes[p]
  PROVE  \A p \in Paths : Visible'[p] = IF holder[p] = None THEN notes'[p] ELSE Visible[p]
<1> SUFFICES ASSUME NEW p \in Paths
             PROVE  Visible'[p] = IF holder[p] = None THEN notes'[p] ELSE Visible[p]
  OBVIOUS
<1>1. holder'[p] \in Who /\ holder[p] # t
  BY Outside DEF IInv, VaultInv, VaultTypeOK
<1>2. QED
  BY <1>1, VisibleNext

\* So when it changes no note at all, nothing visible changes.
LEMMA PassingKeeps ==
  ASSUME IInv, IInv', NEW t \in Tasks, ~At(t, "truncated"), ~At(t, "second"),
         \A u \in Tasks \ {t} : calls'[u] = calls[u], UNCHANGED <<notes, holder>>
  PROVE  Visible' = Visible
<1>1. \A p \in Paths : Visible'[p] = IF holder[p] = None THEN notes[p] ELSE Visible[p]
  BY PassingVisible
<1>2. \A p \in Paths : Visible'[p] = Visible[p]
  BY <1>1, VisibleNow
<1>3. QED
  BY <1>2 DEF Visible

\* The callers that the store sees: t is answered, and the others are not disturbed.
LEMMA CallersAnswered ==
  ASSUME IInv, NEW t \in Tasks, ~Idle(t), NEW a, Answer(t, a)
  PROVE  /\ Store!Pending(t) /\ Callers[t].call = calls[t].call
         /\ Callers' = [Callers EXCEPT ![t] = Store!Answered(calls[t].call, a)]
<1>1. /\ calls'[t].at = "answered" /\ calls'[t].answer = a /\ calls'[t].call = calls[t].call
      /\ \A u \in Tasks \ {t} : calls'[u] = calls[u]
  BY AnswerEffect DEF IInv, VaultInv
<1>2. Store!Pending(t) /\ Callers[t].call = calls[t].call
  BY DEF Store!Pending, Callers
<1>3. Callers'[t] = Store!Answered(calls[t].call, a)
  BY <1>1 DEF Callers, Idle, Store!Answered
<1>4. \A u \in Tasks \ {t} : Callers'[u] = Callers[u]
  BY <1>1 DEF Callers, Idle
<1>5. Callers' = [Callers EXCEPT ![t] = Store!Answered(calls[t].call, a)]
  BY <1>3, <1>4 DEF Callers
<1>6. QED
  BY <1>2, <1>5

\* A call that goes on without an answer is to the store the same caller.
LEMMA CallersSame ==
  ASSUME IInv, NEW t \in Tasks, ~Idle(t), ~Idle(t)', calls'[t].call = calls[t].call,
         calls'[t].answer = calls[t].answer, \A u \in Tasks \ {t} : calls'[u] = calls[u]
  PROVE  Callers' = Callers
BY DEF Callers, Idle

-----------------------------------------------------------------------------
(* One lemma per action: the step of the store that it is. *)

\* An answer is given by the notes that a call names.
LEMMA AnswerDepends ==
  ASSUME NEW c, NEW n, NEW m, n[c.path] = m[c.path], c.op \in Movers => n[c.to] = m[c.to]
  PROVE  AnswerTo(n, c) = AnswerTo(m, c) /\ (Succeeds(n, c) <=> Succeeds(m, c))
<1>1. (Opens(n, c) <=> Opens(m, c)) /\ (c.op \in Movers => (Moves(n, c) <=> Moves(m, c)))
  BY DEF Opens, Moves
<1>2. Succeeds(n, c) <=> Succeeds(m, c)
  BY <1>1 DEF Succeeds
<1>3. QED
  BY <1>2 DEF AnswerTo, Found

LEMMA SucceedsIs ==
  ASSUME NEW n, NEW c
  PROVE  /\ c.op \in Writers => (Succeeds(n, c) <=> Opens(n, c))
         /\ c.op \in Movers => (Succeeds(n, c) <=> Moves(n, c))
BY DEF Succeeds, Writers, Creators, Editors, Movers

\* What a call does, by its kind.
LEMMA AfterIs ==
  ASSUME NEW n, NEW c
  PROVE  /\ ~Succeeds(n, c) \/ c.op \in Readers => After(n, c) = n
         /\ Succeeds(n, c) /\ c.op \in Writers => After(n, c) =
              IF Rewrites(Before(n, c), c)
                THEN [n EXCEPT ![c.path] = Written(Before(n, c), c)] ELSE n
         /\ Succeeds(n, c) /\ c.op = "delete" => After(n, c) = [n EXCEPT ![c.path] = None]
         /\ Succeeds(n, c) /\ c.op \in Movers => After(n, c) = AfterMove(n, c)
BY DEF After, Readers, Writers, Creators, Editors, Movers

LEMMA Performs ==
  ASSUME IInv, NEW t \in Tasks, ~Idle(t), NEW c, c = calls[t].call,
         Answer(t, AnswerTo(Visible, c)), Visible' = After(Visible, c)
  PROVE  Store!Perform(t)
<1>1. /\ Store!Pending(t) /\ Callers[t].call = c
      /\ Callers' = [Callers EXCEPT ![t] = Store!Answered(c, AnswerTo(Visible, c))]
  BY CallersAnswered
<1>2. QED
  BY <1>1, SameAnswers DEF Store!Perform

LEMMA InvokeIsInvoke ==
  ASSUME IInv, IInv', NEW t \in Tasks, NEW c, Invoke(t, c)
  PROVE  Store!Invoke(t, c)
<1>1. /\ \A u \in Tasks \ {t} : calls'[u] = calls[u]
      /\ calls'[t] = [call |-> c, at |-> "lock", answer |-> None, old |-> None]
      /\ ~At(t, "truncated") /\ ~At(t, "second")
  BY DEF Invoke, IInv, VaultInv, VaultTypeOK, Idle, At
<1>2. Visible' = Visible
  BY <1>1, PassingKeeps DEF Invoke
<1>3. ~Store!Pending(t)
  BY DEF Invoke, Store!Pending, Callers
<1>4. Callers'[t] = Store!Waiting(c)
  <2>1. (~Idle(t))' = TRUE
    BY <1>1 DEF Idle
  <2>2. Callers'[t] = [call |-> c, pending |-> (~Idle(t))', answer |-> None]
    BY <1>1 DEF Callers
  <2>3. QED
    BY <2>1, <2>2 DEF Store!Waiting
<1>5. \A u \in Tasks \ {t} : Callers'[u] = Callers[u]
  BY <1>1 DEF Callers, Idle
<1>6. Callers' = [Callers EXCEPT ![t] = Store!Waiting(c)]
  BY <1>4, <1>5 DEF Callers
<1>7. QED
  BY <1>2, <1>3, <1>6 DEF Store!Invoke

LEMMA ReadPerforms ==
  ASSUME IInv, IInv', NEW t \in Tasks, Read(t)
  PROVE  Store!Perform(t)
<1> DEFINE c == calls[t].call
<1>1. /\ At(t, "lock") /\ c.op = "read" /\ MayEnter(t, c.path)
      /\ Answer(t, AnswerTo(notes, c)) /\ UNCHANGED <<notes, holder>>
  BY DEF Read
<1>2. ~Idle(t) /\ ~At(t, "idle") /\ ~At(t, "truncated") /\ ~At(t, "second")
  BY <1>1 DEF Idle, At
<1>3. \A u \in Tasks \ {t} : calls'[u] = calls[u]
  BY <1>1, AnswerEffect DEF IInv, VaultInv
<1>4. Visible' = Visible
  BY <1>1, <1>2, <1>3, PassingKeeps
<1>5. Visible[c.path] = notes[c.path]
  BY <1>1, <1>2, Entered, LocksInPaths, VisibleNow DEF MayEnter
<1>6. AnswerTo(notes, c) = AnswerTo(Visible, c)
  BY <1>1, <1>5, AnswerDepends DEF Movers
<1>7. Visible' = After(Visible, c)
  BY <1>1, <1>4, AfterIs DEF Readers
<1>8. QED
  BY <1>1, <1>2, <1>6, <1>7, Performs

LEMMA DeletePerforms ==
  ASSUME IInv, IInv', NEW t \in Tasks, Delete(t)
  PROVE  Store!Perform(t)
<1> DEFINE c == calls[t].call
<1>1. /\ At(t, "lock") /\ c.op = "delete" /\ MayEnter(t, c.path)
      /\ Answer(t, AnswerTo(notes, c)) /\ UNCHANGED holder /\ notes' = After(notes, c)
  BY DEF Delete
<1>2. ~Idle(t) /\ ~At(t, "idle") /\ ~At(t, "truncated") /\ ~At(t, "second")
  BY <1>1 DEF Idle, At
<1>3. \A u \in Tasks \ {t} : calls'[u] = calls[u]
  BY <1>1, AnswerEffect DEF IInv, VaultInv
<1>4. c.path \in Paths /\ holder[c.path] = None /\ Visible[c.path] = notes[c.path]
  BY <1>1, <1>2, Entered, LocksInPaths, VisibleNow DEF MayEnter
<1>5. AnswerTo(notes, c) = AnswerTo(Visible, c) /\ (Succeeds(notes, c) <=> Succeeds(Visible, c))
  BY <1>1, <1>4, AnswerDepends DEF Movers
<1>6. \A p \in Paths : notes'[p] = IF Succeeds(notes, c) /\ p = c.path THEN None ELSE notes[p]
  BY <1>1, <1>4
  DEF After, Readers, Writers, Creators, Editors, IInv, VaultInv, VaultTypeOK
<1>7. \A p \in Paths : Visible'[p] = IF holder[p] = None THEN notes'[p] ELSE Visible[p]
  BY <1>1, <1>2, <1>3, <1>4, <1>6, PassingVisible
<1>8. \A p \in Paths : Visible'[p] = IF Succeeds(notes, c) /\ p = c.path THEN None ELSE Visible[p]
  BY <1>4, <1>6, <1>7, VisibleNow
<1>9. Visible' = After(Visible, c)
  <2>1. /\ Visible = [p \in Paths |-> Visible[p]]
        /\ Visible' = [p \in Paths |-> Visible'[p]]
    BY DEF Visible
  <2>2. CASE Succeeds(Visible, c)
    <3>1. After(Visible, c) = [Visible EXCEPT ![c.path] = None]
      BY <1>1, <2>2, AfterIs
    <3>2. Visible' = [Visible EXCEPT ![c.path] = None]
      BY <1>4, <1>5, <1>8, <2>1, <2>2
    <3> QED BY <3>1, <3>2
  <2>3. CASE ~Succeeds(Visible, c)
    <3>1. After(Visible, c) = Visible
      BY <2>3, AfterIs
    <3>2. Visible' = Visible
      BY <1>5, <1>8, <2>1, <2>3
    <3> QED BY <3>1, <3>2
  <2> QED BY <2>2, <2>3
<1>10. QED
  BY <1>1, <1>2, <1>5, <1>9, Performs

\* Search sees a note as it is, or, without the lock, as its writer has truncated it.
LEMMA SearchPerforms ==
  ASSUME IInv, IInv', NEW t \in Tasks, Search(t)
  PROVE  Store!Perform(t) \/ Store!SearchInPassing(t)
<1> DEFINE c == calls[t].call
<1>1. /\ At(t, "lock") /\ c.op = "search" /\ Answer(t, AnswerTo(notes, c))
      /\ UNCHANGED <<notes, queue, holder>>
  BY DEF Search
<1>2. ~Idle(t) /\ ~At(t, "idle") /\ ~At(t, "truncated") /\ ~At(t, "second")
  BY <1>1 DEF Idle, At
<1>3. \A u \in Tasks \ {t} : calls'[u] = calls[u]
  BY <1>1, AnswerEffect DEF IInv, VaultInv
<1>4. Visible' = Visible
  BY <1>1, <1>2, <1>3, PassingKeeps
<1>5. c.path \in Paths
  BY <1>2, Entered, LocksInPaths
<1>6. CASE Visible[c.path] = notes[c.path]
  <2>1. AnswerTo(notes, c) = AnswerTo(Visible, c)
    BY <1>1, <1>6, AnswerDepends DEF Movers
  <2>2. Visible' = After(Visible, c)
    BY <1>1, <1>4, AfterIs DEF Readers
  <2>3. QED
    BY <1>1, <1>2, <2>1, <2>2, Performs
<1>7. CASE Visible[c.path] # notes[c.path]
  <2>1. PICK u \in Tasks : holder[c.path] = u /\ At(u, "truncated")
    BY <1>5, <1>7 DEF Visible, At, IInv, VaultInv, VaultTypeOK, Who
  <2>2. calls[u].call.path = c.path
    BY <1>5, <2>1 DEF IInv, VaultInv, LocksMatchCalls, Holding, At
  <2>3. notes[c.path] = Empty /\ calls[u].call.op \in Writers
    BY <2>1, <2>2 DEF IInv, Rewriting
  <2>4. AnswerTo(notes, c) = Found(Empty)
    BY <1>1, <2>3, VaultAssumption
    DEF AnswerTo, Succeeds, Readers, Writers, Creators, Editors, Movers
  <2>5. /\ Store!Pending(t) /\ Callers[t].call = c
        /\ Callers' = [Callers EXCEPT ![t] = Store!Answered(c, Found(Empty))]
    BY <1>1, <1>2, <2>4, CallersAnswered
  <2>6. Store!Pending(u) /\ Callers[u].call = calls[u].call
    BY <2>1 DEF Store!Pending, Callers, Idle, At
  <2>7. Store!SearchInPassing(t)
    BY <1>1, <1>4, <2>2, <2>3, <2>5, <2>6, SameSets, SameConditions
    DEF Store!SearchInPassing
  <2>8. QED
    BY <2>7
<1>8. QED
  BY <1>6, <1>7

LEMMA OpenPerforms ==
  ASSUME IInv, IInv', NEW t \in Tasks, Open(t)
  PROVE  Store!Perform(t) \/ (Visible' = Visible /\ Callers' = Callers)
<1> DEFINE c == calls[t].call
<1>1. At(t, "lock") /\ c.op \in Writers /\ MayEnter(t, c.path)
  BY DEF Open
<1>2. ~Idle(t) /\ ~At(t, "idle") /\ ~At(t, "truncated") /\ ~At(t, "second")
  BY <1>1 DEF Idle, At
<1>3. c.path \in Paths /\ holder[c.path] = None /\ Visible[c.path] = notes[c.path]
  BY <1>1, <1>2, Entered, LocksInPaths, VisibleNow DEF MayEnter
<1>4. c.op \notin Readers /\ c.op \notin Movers
  BY <1>1 DEF Readers, Movers, Writers, Creators, Editors
<1>5. CASE ~(Opens(notes, c) /\ Rewrites(Before(notes, c), c))
  <2>1. Answer(t, AnswerTo(notes, c)) /\ UNCHANGED <<notes, holder>>
    BY <1>5 DEF Open
  <2>2. \A u \in Tasks \ {t} : calls'[u] = calls[u]
    BY <2>1, AnswerEffect DEF IInv, VaultInv
  <2>3. Visible' = Visible
    BY <1>2, <2>1, <2>2, PassingKeeps
  <2>4. AnswerTo(notes, c) = AnswerTo(Visible, c)
    BY <1>3, <1>4, AnswerDepends
  <2>5. ~(Opens(Visible, c) /\ Rewrites(Before(Visible, c), c))
    BY <1>3, <1>5 DEF Opens, Before
  <2>6. After(Visible, c) = Visible
    BY <1>1, <2>5, AfterIs, SucceedsIs
  <2>7. QED
    BY <1>2, <2>1, <2>3, <2>4, <2>6, Performs
<1>6. CASE Opens(notes, c) /\ Rewrites(Before(notes, c), c)
  <2>1. /\ holder' = [holder EXCEPT ![c.path] = t] /\ notes' = [notes EXCEPT ![c.path] = Empty]
        /\ calls' = [calls EXCEPT ![t].at = "truncated", ![t].old = notes[c.path]]
    BY <1>6 DEF Open
  <2>2. /\ calls'[t].at = "truncated" /\ calls'[t].answer = calls[t].answer
        /\ calls'[t].call = c /\ calls'[t].old = notes[c.path]
        /\ \A u \in Tasks \ {t} : calls'[u] = calls[u]
    BY <2>1, TruncateEffect DEF IInv, VaultInv
  <2>3. Callers' = Callers
    BY <1>2, <2>2, CallersSame DEF Idle
  <2>4. Visible'[c.path] = Visible[c.path]
    BY <1>3, <2>1, <2>2, VaultAssumption DEF Visible, IInv, VaultInv, VaultTypeOK
  <2>5. ASSUME NEW p \in Paths \ {c.path} PROVE Visible'[p] = Visible[p]
    <3>1. holder'[p] = holder[p] /\ notes'[p] = notes[p] /\ holder[p] # t /\ holder[p] \in Who
      BY <1>2, <2>1, Outside DEF IInv, VaultInv, VaultTypeOK
    <3>2. QED
      BY <2>2, <3>1, VisibleNext
  <2>6. Visible' = Visible
    BY <2>4, <2>5 DEF Visible
  <2>7. QED
    BY <2>3, <2>6
<1>7. QED
  BY <1>5, <1>6

LEMMA WritePerforms ==
  ASSUME IInv, IInv', NEW t \in Tasks, Write(t)
  PROVE  Store!Perform(t)
<1> DEFINE c == calls[t].call
           old == calls[t].old
<1>1. /\ At(t, "truncated") /\ Answer(t, Done) /\ Free({c.path})
      /\ notes' = [notes EXCEPT ![c.path] = Written(Content(old), c)]
  BY DEF Write
<1>2. ~Idle(t) /\ ~At(t, "idle")
  BY <1>1 DEF Idle, At
<1>3. c.path \in Paths
  BY <1>2, Entered, LocksInPaths
<1>4. holder[c.path] = t /\ Visible[c.path] = old
  BY <1>1, <1>3, VisibleNow
<1>5. /\ c.op \in Writers /\ (old # None \/ c.op \in Creators) /\ Rewrites(Content(old), c)
      /\ c.op \notin Readers
  BY <1>1 DEF IInv, Rewriting, Readers, Writers, Creators, Editors
<1>6. \A u \in Tasks \ {t} : calls'[u] = calls[u]
  BY <1>1, AnswerEffect DEF IInv, VaultInv
<1>7. Visible'[c.path] = Written(Content(old), c)
  BY <1>1, <1>3 DEF Visible, Free, IInv, VaultInv, VaultTypeOK
<1>8. ASSUME NEW p \in Paths \ {c.path} PROVE Visible'[p] = Visible[p]
  <2>1. holder'[p] = holder[p] /\ notes'[p] = notes[p] /\ holder[p] \in Who
    BY <1>1 DEF Free, IInv, VaultInv, VaultTypeOK
  <2>2. holder[p] # t
    BY <1>1 DEF IInv, VaultInv, LocksMatchCalls, Holding, At
  <2>3. QED
    BY <1>6, <2>1, <2>2, VisibleNext
<1>9. Visible' = [Visible EXCEPT ![c.path] = Written(Content(old), c)]
  BY <1>3, <1>7, <1>8, VisibleChange
<1>10. Succeeds(Visible, c)
  BY <1>4, <1>5, SucceedsIs DEF Opens
<1>11. AnswerTo(Visible, c) = Done
  BY <1>5, <1>10 DEF AnswerTo
<1>12. After(Visible, c) = [Visible EXCEPT ![c.path] = Written(Content(old), c)]
  BY <1>4, <1>5, <1>10, AfterIs DEF Before
<1>13. QED
  BY <1>1, <1>2, <1>9, <1>11, <1>12, Performs

LEMMA LockFirstStutters ==
  ASSUME IInv, IInv', NEW t \in Tasks, LockFirst(t)
  PROVE  Visible' = Visible /\ Callers' = Callers
<1> DEFINE c == calls[t].call
           p1 == FirstLock(c)
<1>1. /\ At(t, "lock") /\ MayEnter(t, p1) /\ holder' = [holder EXCEPT ![p1] = t]
      /\ Stand(t, "second") /\ UNCHANGED notes
  BY DEF LockFirst
<1>2. ~Idle(t) /\ ~At(t, "idle") /\ ~At(t, "truncated") /\ ~At(t, "second")
  BY <1>1 DEF Idle, At
<1>3. /\ calls'[t].at = "second" /\ calls'[t].call = c /\ calls'[t].answer = calls[t].answer
      /\ \A u \in Tasks \ {t} : calls'[u] = calls[u]
  BY <1>1, StandEffect DEF IInv, VaultInv
<1>4. Callers' = Callers
  BY <1>2, <1>3, CallersSame DEF Idle
<1>5. p1 \in Paths /\ holder[p1] = None
  BY <1>1, <1>2, Entered, LocksInPaths DEF MayEnter
<1>6. Visible'[p1] = Visible[p1]
  BY <1>1, <1>3, <1>5, VaultAssumption DEF Visible, IInv, VaultInv, VaultTypeOK
<1>7. ASSUME NEW p \in Paths \ {p1} PROVE Visible'[p] = Visible[p]
  <2>1. holder'[p] = holder[p] /\ notes'[p] = notes[p] /\ holder[p] # t /\ holder[p] \in Who
    BY <1>1, <1>2, Outside DEF IInv, VaultInv, VaultTypeOK
  <2>2. QED
    BY <1>3, <2>1, VisibleNext
<1>8. Visible' = Visible
  BY <1>6, <1>7 DEF Visible
<1>9. QED
  BY <1>4, <1>8

\* What becomes visible when t, at its second lock, lets go of both.
LEMMA MoverVisible ==
  ASSUME IInv, IInv', NEW t \in Tasks, NEW c, c = calls[t].call, At(t, "second"),
         MayEnter(t, SecondLock(c)), Leave(SecondLock(c)), Free({FirstLock(c), SecondLock(c)}),
         \A u \in Tasks \ {t} : calls'[u] = calls[u],
         \A p \in Paths \ {c.path, c.to} : notes'[p] = notes[p]
  PROVE  /\ c.op \in Movers /\ c.path \in Paths /\ c.to \in Paths
         /\ \A p \in {c.path, c.to} : Visible[p] = notes[p] /\ Visible'[p] = notes'[p]
         /\ \A p \in Paths \ {c.path, c.to} : Visible'[p] = Visible[p]
<1>1. ~At(t, "idle")
  BY DEF At
<1>2. IsCall(c) /\ c.op \in Movers /\ c.path \in Paths /\ c.to \in Paths
  BY <1>1, Entered, LocksInPaths DEF IInv, Moving
<1>3. {FirstLock(c), SecondLock(c)} = {c.path, c.to}
  BY <1>2 DEF FirstLock, SecondLock, LockOrder
<1>4. Visible[FirstLock(c)] = notes[FirstLock(c)] /\ Visible[SecondLock(c)] = notes[SecondLock(c)]
  BY <1>2, LocksInPaths, VisibleNow DEF MayEnter
<1>5. ASSUME NEW p \in {c.path, c.to} PROVE Visible[p] = notes[p] /\ Visible'[p] = notes'[p]
  <2>1. p \in Paths /\ holder'[p] = None
    BY <1>2, <1>3 DEF Free
  <2>2. Visible'[p] = notes'[p]
    BY <2>1 DEF Visible
  <2>3. QED
    BY <1>3, <1>4, <2>2
<1>6. ASSUME NEW p \in Paths \ {c.path, c.to} PROVE Visible'[p] = Visible[p]
  <2>1. holder'[p] = holder[p] /\ holder[p] \in Who
    BY <1>3 DEF Free, IInv, VaultInv, VaultTypeOK
  <2>2. holder[p] # t
    BY <1>3 DEF IInv, VaultInv, LocksMatchCalls, Holding, At
  <2>3. QED
    BY <2>1, <2>2, VisibleNext
<1>7. QED
  BY <1>2, <1>5, <1>6

LEMMA MovePerforms ==
  ASSUME IInv, IInv', NEW t \in Tasks, Move(t)
  PROVE  Store!Perform(t)
<1> DEFINE c == calls[t].call
<1>1. /\ At(t, "second") /\ MayEnter(t, SecondLock(c)) /\ Leave(SecondLock(c))
      /\ Free({FirstLock(c), SecondLock(c)})
      /\ notes' = After(notes, c) /\ Answer(t, AnswerTo(notes, c))
  BY DEF Move
<1>2. ~Idle(t)
  BY <1>1 DEF Idle, At
<1>3. \A u \in Tasks \ {t} : calls'[u] = calls[u]
  BY <1>1, AnswerEffect DEF IInv, VaultInv
<1>4. c.op \in Movers /\ c.op \notin Readers
  BY <1>1 DEF IInv, Moving, Movers, Readers
<1>5. notes' = IF Moves(notes, c) THEN AfterMove(notes, c) ELSE notes
  BY <1>1, <1>4, AfterIs, SucceedsIs
<1>6. \A p \in Paths \ {c.path, c.to} : notes'[p] = notes[p]
  BY <1>5 DEF AfterMove, IInv, VaultInv, VaultTypeOK
<1>7. /\ c.path \in Paths /\ c.to \in Paths
      /\ \A p \in {c.path, c.to} : Visible[p] = notes[p] /\ Visible'[p] = notes'[p]
      /\ \A p \in Paths \ {c.path, c.to} : Visible'[p] = Visible[p]
  BY <1>1, <1>3, <1>6, MoverVisible
<1>8. AnswerTo(notes, c) = AnswerTo(Visible, c) /\ (Moves(notes, c) <=> Moves(Visible, c))
  BY <1>4, <1>7, AnswerDepends DEF Moves
<1>9. CASE ~Moves(notes, c)
  <2>1. \A p \in Paths : Visible'[p] = Visible[p]
    BY <1>5, <1>7, <1>9
  <2>2. Visible' = Visible
    BY <2>1 DEF Visible
  <2>3. Visible' = After(Visible, c)
    BY <1>4, <1>8, <1>9, <2>2, AfterIs, SucceedsIs
  <2>4. QED
    BY <1>1, <1>2, <1>8, <2>3, Performs
<1>10. CASE Moves(notes, c)
  <2>1. notes' = AfterMove(notes, c) /\ DOMAIN notes = Paths
    BY <1>5, <1>10 DEF IInv, VaultInv, VaultTypeOK
  <2>2. \A p \in Paths : Visible'[p] = AfterMove(Visible, c)[p]
    <3>1. CASE c.path = c.to
      BY <1>7, <2>1, <3>1 DEF AfterMove
    <3>2. CASE c.path # c.to
      <4>1. notes'[c.path] = None /\ notes'[c.to] = notes[c.path]
        BY <1>7, <2>1, <3>2 DEF AfterMove
      <4>2. /\ AfterMove(Visible, c)[c.path] = None
            /\ AfterMove(Visible, c)[c.to] = Visible[c.path]
            /\ \A p \in Paths \ {c.path, c.to} : AfterMove(Visible, c)[p] = Visible[p]
        BY <1>7, <3>2 DEF AfterMove, Visible
      <4>3. QED
        BY <1>7, <4>1, <4>2
    <3>3. QED
      BY <3>1, <3>2
  <2>3. Visible' = AfterMove(Visible, c)
    BY <2>2 DEF AfterMove, Visible
  <2>4. Visible' = After(Visible, c)
    BY <1>4, <1>8, <1>10, <2>3, AfterIs, SucceedsIs
  <2>5. QED
    BY <1>1, <1>2, <1>8, <2>4, Performs
<1>11. QED
  BY <1>9, <1>10

LEMMA IoErrorFails ==
  ASSUME IInv, IInv', NEW t \in Tasks, IoError(t)
  PROVE  Store!Fail(t)
<1> DEFINE c == calls[t].call
<1>0. /\ Answer(t, Refused) /\ UNCHANGED notes
      /\ \A u \in Tasks \ {t} : calls'[u] = calls[u]
  BY AnswerEffect DEF IoError, IInv, VaultInv
<1>1. ASSUME ~Idle(t),
             Visible' = Visible \/ (/\ c.op \in Writers /\ Opens(Visible, c)
                                    /\ Visible' = [Visible EXCEPT ![c.path] = Empty])
      PROVE  Store!Fail(t)
  <2>1. /\ Store!Pending(t) /\ Callers[t].call = c
        /\ Callers' = [Callers EXCEPT ![t] = Store!Answered(c, Refused)]
    BY <1>0, <1>1, CallersAnswered
  <2>2. QED
    BY <1>1, <2>1, SameSets, SameConditions DEF Store!Fail
<1>2. CASE At(t, "lock") /\ UNCHANGED holder
  <2>1. ~Idle(t) /\ ~At(t, "truncated") /\ ~At(t, "second")
    BY <1>2 DEF Idle, At
  <2>2. Visible' = Visible
    BY <1>0, <1>2, <2>1, PassingKeeps
  <2>3. QED
    BY <1>1, <2>1, <2>2
<1>3. CASE At(t, "truncated") /\ Free({c.path}) /\ UNCHANGED queue
  <2>1. ~Idle(t) /\ ~At(t, "idle")
    BY <1>3 DEF Idle, At
  <2>2. c.path \in Paths
    BY <2>1, Entered, LocksInPaths
  <2>3. holder[c.path] = t /\ Visible[c.path] = calls[t].old /\ notes[c.path] = Empty
    BY <1>3, <2>2, VisibleNow
  <2>4. c.op \in Writers /\ Opens(Visible, c)
    BY <1>3, <2>3 DEF IInv, Rewriting, Opens
  <2>5. Visible'[c.path] = Empty
    BY <1>0, <1>3, <2>2, <2>3 DEF Visible, Free
  <2>6. ASSUME NEW p \in Paths \ {c.path} PROVE Visible'[p] = Visible[p]
    <3>1. holder'[p] = holder[p] /\ holder[p] \in Who
      BY <1>3 DEF Free, IInv, VaultInv, VaultTypeOK
    <3>2. holder[p] # t
      BY <1>3 DEF IInv, VaultInv, LocksMatchCalls, Holding, At
    <3>3. QED
      BY <1>0, <3>1, <3>2, VisibleNext
  <2>7. Visible' = [Visible EXCEPT ![c.path] = Empty]
    BY <2>2, <2>5, <2>6, VisibleChange
  <2>8. QED
    BY <1>1, <2>1, <2>4, <2>7
<1>4. CASE /\ At(t, "second") /\ MayEnter(t, SecondLock(c)) /\ Leave(SecondLock(c))
           /\ Free({FirstLock(c), SecondLock(c)})
  <2>1. ~Idle(t)
    BY <1>4 DEF Idle, At
  <2>2. /\ c.path \in Paths /\ c.to \in Paths
        /\ \A p \in {c.path, c.to} : Visible[p] = notes[p] /\ Visible'[p] = notes'[p]
        /\ \A p \in Paths \ {c.path, c.to} : Visible'[p] = Visible[p]
    BY <1>0, <1>4, MoverVisible
  <2>3. \A p \in Paths : Visible'[p] = Visible[p]
    BY <1>0, <2>2
  <2>4. Visible' = Visible
    BY <2>3 DEF Visible
  <2>5. QED
    BY <1>1, <2>1, <2>4
<1>5. QED
  BY <1>2, <1>3, <1>4 DEF IoError

\* A crash keeps the truncated notes as they are: those are the ones that are lost.
LEMMA CrashIsCrash ==
  ASSUME IInv, Crash
  PROVE  Store!Crash
<1> DEFINE lost == {p \in Paths : holder[p] # None /\ calls[holder[p]].at = "truncated"}
           writing == {Callers[t].call.path :
                         t \in {u \in Tasks : Store!Pending(u) /\ Callers[u].call.op \in Writers}}
<1>1. /\ notes' = notes /\ holder' = [p \in Paths |-> None] /\ calls' = [t \in Tasks |-> NoCall]
  BY DEF Crash
<1>2. ASSUME NEW p \in lost PROVE p \in writing /\ notes[p] = Empty
  <2>1. PICK u \in Tasks : holder[p] = u /\ At(u, "truncated")
    BY <1>2 DEF At, IInv, VaultInv, VaultTypeOK, Who
  <2>2. calls[u].call.path = p
    BY <2>1 DEF IInv, VaultInv, LocksMatchCalls, Holding, At
  <2>3. notes[p] = Empty /\ calls[u].call.op \in Writers
    BY <2>1, <2>2 DEF IInv, Rewriting
  <2>4. Store!Pending(u) /\ Callers[u].call = calls[u].call
    BY <2>1 DEF Store!Pending, Callers, Idle, At
  <2>5. QED
    BY <2>2, <2>3, <2>4
<1>3. \A p \in Paths : Visible'[p] = IF p \in lost THEN Empty ELSE Visible[p]
  <2> SUFFICES ASSUME NEW p \in Paths
               PROVE  Visible'[p] = IF p \in lost THEN Empty ELSE Visible[p]
    OBVIOUS
  <2>1. Visible'[p] = notes[p]
    BY <1>1 DEF Visible
  <2>2. p \notin lost => Visible[p] = notes[p]
    BY DEF Visible
  <2>3. QED
    BY <1>2, <2>1, <2>2
<1>4. Visible' = [p \in Paths |-> IF p \in lost THEN Empty ELSE Visible[p]]
  BY <1>3 DEF Visible
<1>5. Callers' = [t \in Tasks |-> Store!Nothing]
  <2>1. \A t \in Tasks : Idle(t)'
    BY <1>1 DEF Idle, NoCall
  <2>2. \A t \in Tasks : Callers'[t] = [call |-> None, pending |-> FALSE, answer |-> None]
    BY <1>1, <2>1 DEF Callers, NoCall
  <2>3. QED
    BY <2>2 DEF Callers, Store!Nothing
<1>6. lost \in SUBSET writing
  BY <1>2
<1>7. QED
  BY <1>4, <1>5, <1>6, SameSets DEF Store!Crash

LEMMA InitIsInit == VaultInit => Store!Init
<1> SUFFICES ASSUME VaultInit PROVE Store!Init
  OBVIOUS
<1>1. Visible = notes
  BY DEF VaultInit, Visible
<1>2. \A t \in Tasks : Idle(t)
  BY DEF VaultInit, Idle, NoCall
<1>3. \A t \in Tasks : Callers[t] = [call |-> None, pending |-> FALSE, answer |-> None]
  BY <1>2 DEF VaultInit, Callers, NoCall
<1>4. Callers = [t \in Tasks |-> Store!Nothing]
  BY <1>3 DEF Callers, Store!Nothing
<1>5. QED
  BY <1>1, <1>4, SameSets DEF VaultInit, Store!Init

\* What an access is to the store, whoever asked for it.
LEMMA AccessIsStep ==
  ASSUME IInv, IInv', NEW t \in Tasks, Access(t)
  PROVE  \/ Store!Perform(t) \/ Store!SearchInPassing(t) \/ Store!Fail(t)
         \/ Visible' = Visible /\ Callers' = Callers
BY ReadPerforms, SearchPerforms, DeletePerforms, OpenPerforms, WritePerforms,
   LockFirstStutters, MovePerforms, IoErrorFails DEF Access

LEMMA StepIsStep ==
  ASSUME IInv, IInv', [VaultNext]_vaultVars
  PROVE  Store!Next \/ (Visible' = Visible /\ Callers' = Callers)
<1>1. ASSUME NEW t \in Tasks, Access(t)
      PROVE  Store!Next \/ (Visible' = Visible /\ Callers' = Callers)
  BY <1>1, AccessIsStep DEF Store!Next
<1>2. ASSUME NEW t \in Tasks, NEW c \in VaultCalls, Invoke(t, c) PROVE Store!Next
  BY <1>2, InvokeIsInvoke DEF Store!Next
<1>3. CASE Crash
  BY <1>3, CrashIsCrash DEF Store!Next
<1>4. CASE UNCHANGED vaultVars
  BY <1>4 DEF vaultVars, Visible, Callers, Idle
<1>5. QED
  BY <1>1, <1>2, <1>3, <1>4 DEF VaultNext

\* The vault with its locks and its writes in two steps is, to those who call it, the
\* atomic store of notes (mcp/vault.rs): no read of a half-written note, no lost
\* update, and a failure that spares every note but the one being written.
THEOREM VaultImplementsStore == VaultSpec => NotesAtomic
<1>1. IInv /\ IInv' /\ [VaultNext]_vaultVars => [Store!Next]_<<Visible, Callers>>
  BY StepIsStep
<1>2. VaultSpec => []IInv
  BY InitInv, StepInv, PTL DEF VaultSpec
<1>3. QED
  BY InitIsInit, <1>1, <1>2, PTL DEF VaultSpec, NotesAtomic, Store!Spec, Store!vars
=============================================================================
