------------------------------- MODULE Board -------------------------------
(***************************************************************************)
(* What the task board of a team promises: every operation on a task takes *)
(* effect in one step, on the task as it is then.  A claim that finds the  *)
(* task taken answers false, an operation the status does not allow is an  *)
(* error.  A failed write, and the end of the daemon, may lose the task    *)
(* that was being written.                                                 *)
(***************************************************************************)
CONSTANTS Tasks, TaskIds, None

VARIABLES
  tasks,        \* number -> None, or the status and the owner
  operations    \* request -> None, or the operation and its answer

vars == <<tasks, operations>>

Init == tasks = [i \in TaskIds |-> None] /\ operations = [t \in Tasks |-> None]

Pending(t) == operations[t] # None /\ operations[t].answer = None
Answer(t, a) == operations' = [operations EXCEPT ![t].answer = a]
Is(i, statuses) == tasks[i] # None /\ tasks[i].status \in statuses
Put(i, status, owner) == tasks' = [tasks EXCEPT ![i] = [status |-> status, owner |-> owner]]

\* A request comes, or goes with its answer.
Ask(t) ==
  /\ ~Pending(t) /\ UNCHANGED tasks
  /\ \E o \in {operations'[t]} :
       /\ o # None => o.answer = None
       /\ operations' = [operations EXCEPT ![t] = o]

Create(t) ==
  /\ operations[t].op = "create" /\ Answer(t, "true")
  /\ \E i \in TaskIds : tasks[i] = None /\ Put(i, "pending", None)

Claim(t, i) ==
  /\ operations[t].op = "claim"
  /\ \/ Is(i, {"pending"}) /\ Put(i, "claimed", operations[t].agent) /\ Answer(t, "true")
     \/ Is(i, {"claimed", "inprogress"}) /\ Answer(t, "false") /\ UNCHANGED tasks

Release(t, i) ==
  operations[t].op = "release" /\ Is(i, {"claimed"}) /\ Put(i, "pending", None) /\ Answer(t, "true")

Start(t, i) ==
  /\ operations[t].op = "start" /\ Is(i, {"claimed"})
  /\ Put(i, "inprogress", tasks[i].owner) /\ Answer(t, "true")

Complete(t, i) ==
  /\ operations[t].op = "complete" /\ Is(i, {"claimed", "inprogress"})
  /\ Put(i, "completed", tasks[i].owner) /\ Answer(t, "true")

GiveUp(t, i) ==
  /\ operations[t].op = "fail" /\ tasks[i] # None
  /\ Put(i, "failed", tasks[i].owner) /\ Answer(t, "true")

\* The status does not allow it, there is no such task, or an access failed.
Error(t) ==
  /\ Answer(t, "error")
  /\ \/ UNCHANGED tasks
     \/ \E i \in TaskIds : operations[t].id = i /\ tasks' = [tasks EXCEPT ![i] = None]

Do(t) ==
  /\ Pending(t)
  /\ \/ Create(t) \/ Error(t)
     \/ \E i \in TaskIds :
          /\ operations[t].id = i
          /\ \/ Claim(t, i) \/ Release(t, i) \/ Start(t, i)
             \/ Complete(t, i) \/ GiveUp(t, i)

Crash ==
  /\ operations' = [t \in Tasks |-> None]
  /\ \E lost \in SUBSET {i \in TaskIds : \E t \in Tasks : Pending(t) /\ operations[t].id = i} :
       tasks' = [i \in TaskIds |-> IF i \in lost THEN None ELSE tasks[i]]

Next == Crash \/ \E t \in Tasks : Ask(t) \/ Do(t)

Spec == Init /\ [][Next]_vars
=============================================================================
