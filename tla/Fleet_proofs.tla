---------------------------- MODULE Fleet_proofs ----------------------------
(***************************************************************************)
(* For any number of runs, requests, workspaces and tasks: a run that      *)
(* answers has cleaned up, each of its tasks has one result, and every     *)
(* workspace is accounted for.                                             *)
(*                                                                         *)
(* The invariant says of each run what its phase promises (Sound): of its  *)
(* own workers only, for the workers of two runs are different ones and a  *)
(* uuid that somebody still knows is never new.  So a run is not disturbed *)
(* by the steps of the others, and each of its own steps is looked at once.*)
(***************************************************************************)
EXTENDS FleetRequests, SequenceTheorems, TLAPS

-----------------------------------------------------------------------------
(* The invariant of a run *)

\* The workers of a run.
Workers(run) == {run.worker[k] : k \in 1..run.plan.size} \ {None}

\* A run is a record of its plan's size; a task at work is one to be joined.
Shaped(run) ==
  /\ run \in Run
  /\ run.worker \in [1..run.plan.size -> Ids \cup {None}]
  /\ run.results \in [1..run.plan.size -> Nat]
  /\ run.todo \subseteq 1..run.plan.size /\ run.busy \subseteq run.todo
  /\ run.bad \subseteq 1..run.plan.size /\ run.held \subseteq 1..run.plan.size

\* Each worker belongs to one task, a task that is still to fork has none, and an
\* orchestration passes only through its own phases.
Apart(run) ==
  /\ \A k, l \in 1..run.plan.size : run.worker[k] # None /\ run.worker[k] = run.worker[l] => k = l
  /\ run.phase = "fork" => \A k \in run.todo : run.worker[k] = None
  /\ run.plan.kind = "orchestrate" => run.phase \in {"fork", "exec", "cleanup", "interrupted"}

\* A task that is joined has its result, one to be executed has none yet.
Counted(run) ==
  /\ run.phase = "exec" => \A k \in run.todo : run.results[k] = 0
  /\ run.phase = "exec" => \A k \in (1..run.plan.size) \ run.todo : run.results[k] = 1
  /\ run.phase \in {"merge", "cleanup"} => \A k \in 1..run.plan.size : run.results[k] = 1

\* A swarm's workers are the session's, or beyond its quota, once registered.
Registered(run, there, charged) ==
  run.plan.kind = "swarm" /\ run.phase \in {"env", "bridge", "exec", "merge"} =>
    \A k \in 1..run.plan.size : run.worker[k] \in there \ {None} => run.worker[k] \in charged

\* Who keeps track of a token that is valid: in the end, nobody but a bad worker.
Revoked(run, valid) ==
  \A k \in 1..run.plan.size : run.worker[k] \in valid \ {None} =>
    \/ run.phase = "interrupted"
    \/ k \in run.bad
    \/ run.phase # "cleanup" /\ k \in run.held
    \/ run.phase = "bridge" /\ k \in run.busy

\* What has been destroyed is gone, what has been given back is not owned.
Cleaned(run, there, mine) ==
  \A k \in 1..run.plan.size : run.worker[k] # None =>
    /\ run.phase = "cleanup" /\ (k \notin run.todo \/ k \in run.busy) => run.worker[k] \notin there
    /\ run.phase = "cleanup" /\ k \notin run.todo => run.worker[k] \notin mine
    /\ run.phase = "interrupted" /\ k \notin run.todo => run.worker[k] \notin there

\* What a run promises, given the workspaces there are, those owned and refused,
\* and the tokens.
Sound(run, there, mine, beyond, valid) ==
  /\ Shaped(run) /\ Apart(run) /\ Counted(run)
  /\ Registered(run, there, mine \cup beyond) /\ Revoked(run, valid) /\ Cleaned(run, there, mine)

\* Every run is sound and no two share a worker.
RunsInv ==
  /\ runs \in [Runners -> Run \cup {None}]
  /\ \A r \in Runners : runs[r] # None => Sound(runs[r], workspaces, owned, refused, tokens)
  /\ \A r, s \in Runners : r # s => WorkersOf(r) \cap WorkersOf(s) = {}

\* The model's workers are those.
LEMMA WorkersOfARun ==
  ASSUME NEW r \in Runners, runs[r] # None
  PROVE  WorkersOf(r) = Workers(runs[r])
BY DEF WorkersOf, Workers, Forked, Worker, Tasks

\* A run stays sound when nothing happens to its own workers but that they are
\* destroyed, or given back when they are gone.
LEMMA Elsewhere ==
  ASSUME NEW run, NEW there, NEW mine, NEW beyond, NEW valid,
         NEW there2, NEW mine2, NEW beyond2, NEW valid2,
         Sound(run, there, mine, beyond, valid),
         (there2 \ there) \cap Workers(run) = {},
         (mine2 \ mine) \cap Workers(run) = {},
         (valid2 \ valid) \cap Workers(run) = {},
         (mine \cup beyond) \cap there2 \subseteq mine2 \cup beyond2
  PROVE  Sound(run, there2, mine2, beyond2, valid2)
<1>1. \A k \in 1..run.plan.size : run.worker[k] # None => run.worker[k] \in Workers(run)
  BY DEF Workers
<1>2. Registered(run, there2, mine2 \cup beyond2)
  BY <1>1 DEF Registered, Sound
<1>3. Revoked(run, valid2)
  BY <1>1 DEF Revoked, Sound
<1>4. Cleaned(run, there2, mine2)
  BY <1>1 DEF Cleaned, Sound
<1> QED BY <1>2, <1>3, <1>4 DEF Sound

\* A function on 1..n is a sequence.
LEMMA AsASequence ==
  ASSUME NEW S, NEW n \in Nat, NEW f \in [1..n -> S]
  PROVE  f \in Seq(S)
BY SeqDef

\* A run and its plan.
LEMMA RunFields ==
  ASSUME NEW run, Shaped(run)
  PROVE  /\ run = [plan |-> run.plan, phase |-> run.phase, todo |-> run.todo, busy |-> run.busy,
                   worker |-> run.worker, bad |-> run.bad, held |-> run.held,
                   results |-> run.results]
         /\ run.plan \in Plans /\ run.phase \in Phases /\ run.plan.size \in Nat
         /\ run.plan.kind \in {"swarm", "orchestrate"}
         /\ run.plan.kind = "orchestrate" => run.plan.cleanup /\ ~run.plan.merge
BY SwarmAssumption DEF Shaped, Run

\* A change that keeps the plan keeps a run what it is.
LEMMA StillShaped ==
  ASSUME NEW run, Shaped(run), NEW run2,
         run2 = [plan |-> run.plan, phase |-> run2.phase, todo |-> run2.todo, busy |-> run2.busy,
                 worker |-> run2.worker, bad |-> run2.bad, held |-> run2.held,
                 results |-> run2.results],
         run2.phase \in Phases,
         run2.worker \in [1..run.plan.size -> Ids \cup {None}],
         run2.results \in [1..run.plan.size -> Nat],
         run2.todo \subseteq 1..run.plan.size, run2.busy \subseteq run2.todo,
         run2.bad \subseteq 1..run.plan.size, run2.held \subseteq 1..run.plan.size
  PROVE  Shaped(run2) /\ run2.plan = run.plan
<1>1. run.plan \in Plans /\ run.plan.size \in Nat
  BY RunFields
<1>2. run2.worker \in Seq(Ids \cup {None}) /\ run2.results \in Seq(Nat)
  BY <1>1, AsASequence
<1>4. 1..run.plan.size \subseteq Nat
  BY <1>1
<1>5. run2.plan = run.plan
  OBVIOUS
<1>6. run2 \in Run
  BY <1>1, <1>2, <1>4 DEF Run
<1> QED BY <1>5, <1>6 DEF Shaped

-----------------------------------------------------------------------------
(* What becomes of a run *)

\* A task takes a permit, or is at work on its worker.
LEMMA Acquired ==
  ASSUME NEW run, Shaped(run), NEW run2,
         NEW k \in run.todo, run2 = [run EXCEPT !.busy = @ \cup {k}]
  PROVE  /\ Shaped(run2)
         /\ run2.plan = run.plan /\ run2.phase = run.phase /\ run2.todo = run.todo
         /\ run2.busy = run.busy \cup {k} /\ run2.worker = run.worker
         /\ run2.bad = run.bad /\ run2.held = run.held
         /\ run2.results = run.results
<1>1. /\ run \in Run /\ run.plan.size \in Nat /\ 1..run.plan.size \subseteq Nat
      /\ run.worker \in [1..run.plan.size -> Ids \cup {None}]
      /\ run.results \in [1..run.plan.size -> Nat]
      /\ run.todo \subseteq 1..run.plan.size /\ run.busy \subseteq run.todo
      /\ run.bad \subseteq 1..run.plan.size /\ run.held \subseteq 1..run.plan.size
  BY RunFields DEF Shaped
<1>4. /\ run.busy \cup {k} \in SUBSET Nat
  BY <1>1
<1>5. run2 \in Run
  BY <1>1, <1>4 DEF Run
<1>6. /\ run2.plan = run.plan /\ run2.phase = run.phase /\ run2.todo = run.todo
      /\ run2.busy = run.busy \cup {k} /\ run2.worker = run.worker
      /\ run2.bad = run.bad /\ run2.held = run.held
      /\ run2.results = run.results
  BY <1>1 DEF Run
<1>7. /\ run2.todo \subseteq 1..run.plan.size /\ run2.busy \subseteq run2.todo
      /\ run2.bad \subseteq 1..run.plan.size /\ run2.held \subseteq 1..run.plan.size
  BY <1>1, <1>6
<1>8. Shaped(run2)
  BY <1>1, <1>5, <1>6, <1>7 DEF Shaped
<1> QED BY <1>6, <1>8

\* A task is joined.
LEMMA JoinedOne ==
  ASSUME NEW run, Shaped(run), NEW run2,
         NEW k, run2 = Joined(run, k)
  PROVE  /\ Shaped(run2)
         /\ run2.plan = run.plan /\ run2.phase = run.phase /\ run2.todo = run.todo \ {k}
         /\ run2.busy = run.busy \ {k} /\ run2.worker = run.worker
         /\ run2.bad = run.bad /\ run2.held = run.held
         /\ run2.results = run.results
<1>1. /\ run \in Run /\ run.plan.size \in Nat /\ 1..run.plan.size \subseteq Nat
      /\ run.worker \in [1..run.plan.size -> Ids \cup {None}]
      /\ run.results \in [1..run.plan.size -> Nat]
      /\ run.todo \subseteq 1..run.plan.size /\ run.busy \subseteq run.todo
      /\ run.bad \subseteq 1..run.plan.size /\ run.held \subseteq 1..run.plan.size
  BY RunFields DEF Shaped
<1>4. /\ run.todo \ {k} \in SUBSET Nat
      /\ run.busy \ {k} \in SUBSET Nat
  BY <1>1
<1>5. run2 \in Run
  BY <1>1, <1>4 DEF Run, Joined
<1>6. /\ run2.plan = run.plan /\ run2.phase = run.phase /\ run2.todo = run.todo \ {k}
      /\ run2.busy = run.busy \ {k} /\ run2.worker = run.worker
      /\ run2.bad = run.bad /\ run2.held = run.held
      /\ run2.results = run.results
  BY <1>1 DEF Run, Joined
<1>7. /\ run2.todo \subseteq 1..run.plan.size /\ run2.busy \subseteq run2.todo
      /\ run2.bad \subseteq 1..run.plan.size /\ run2.held \subseteq 1..run.plan.size
  BY <1>1, <1>6
<1>8. Shaped(run2)
  BY <1>1, <1>5, <1>6, <1>7 DEF Shaped
<1> QED BY <1>6, <1>8

\* A task is joined, its worker is not to be used.
LEMMA JoinedBad ==
  ASSUME NEW run, Shaped(run), NEW run2,
         NEW k \in 1..run.plan.size, run2 = WithBad(run, k)
  PROVE  /\ Shaped(run2)
         /\ run2.plan = run.plan /\ run2.phase = run.phase /\ run2.todo = run.todo \ {k}
         /\ run2.busy = run.busy \ {k} /\ run2.worker = run.worker
         /\ run2.bad = run.bad \cup {k} /\ run2.held = run.held
         /\ run2.results = run.results
<1>1. /\ run \in Run /\ run.plan.size \in Nat /\ 1..run.plan.size \subseteq Nat
      /\ run.worker \in [1..run.plan.size -> Ids \cup {None}]
      /\ run.results \in [1..run.plan.size -> Nat]
      /\ run.todo \subseteq 1..run.plan.size /\ run.busy \subseteq run.todo
      /\ run.bad \subseteq 1..run.plan.size /\ run.held \subseteq 1..run.plan.size
  BY RunFields DEF Shaped
<1>4. /\ run.todo \ {k} \in SUBSET Nat
      /\ run.busy \ {k} \in SUBSET Nat
      /\ run.bad \cup {k} \in SUBSET Nat
  BY <1>1
<1>5. run2 \in Run
  BY <1>1, <1>4 DEF Run, Joined, WithBad
<1>6. /\ run2.plan = run.plan /\ run2.phase = run.phase /\ run2.todo = run.todo \ {k}
      /\ run2.busy = run.busy \ {k} /\ run2.worker = run.worker
      /\ run2.bad = run.bad \cup {k} /\ run2.held = run.held
      /\ run2.results = run.results
  BY <1>1 DEF Run, Joined, WithBad
<1>7. /\ run2.todo \subseteq 1..run.plan.size /\ run2.busy \subseteq run2.todo
      /\ run2.bad \subseteq 1..run.plan.size /\ run2.held \subseteq 1..run.plan.size
  BY <1>1, <1>6
<1>8. Shaped(run2)
  BY <1>1, <1>5, <1>6, <1>7 DEF Shaped
<1> QED BY <1>6, <1>8

\* A task is joined, the token of its worker held.
LEMMA JoinedHeld ==
  ASSUME NEW run, Shaped(run), NEW run2,
         NEW k \in 1..run.plan.size, run2 = WithHeld(run, k)
  PROVE  /\ Shaped(run2)
         /\ run2.plan = run.plan /\ run2.phase = run.phase /\ run2.todo = run.todo \ {k}
         /\ run2.busy = run.busy \ {k} /\ run2.worker = run.worker
         /\ run2.bad = run.bad /\ run2.held = run.held \cup {k}
         /\ run2.results = run.results
<1>1. /\ run \in Run /\ run.plan.size \in Nat /\ 1..run.plan.size \subseteq Nat
      /\ run.worker \in [1..run.plan.size -> Ids \cup {None}]
      /\ run.results \in [1..run.plan.size -> Nat]
      /\ run.todo \subseteq 1..run.plan.size /\ run.busy \subseteq run.todo
      /\ run.bad \subseteq 1..run.plan.size /\ run.held \subseteq 1..run.plan.size
  BY RunFields DEF Shaped
<1>4. /\ run.todo \ {k} \in SUBSET Nat
      /\ run.busy \ {k} \in SUBSET Nat
      /\ run.held \cup {k} \in SUBSET Nat
  BY <1>1
<1>5. run2 \in Run
  BY <1>1, <1>4 DEF Run, Joined, WithHeld
<1>6. /\ run2.plan = run.plan /\ run2.phase = run.phase /\ run2.todo = run.todo \ {k}
      /\ run2.busy = run.busy \ {k} /\ run2.worker = run.worker
      /\ run2.bad = run.bad /\ run2.held = run.held \cup {k}
      /\ run2.results = run.results
  BY <1>1 DEF Run, Joined, WithHeld
<1>7. /\ run2.todo \subseteq 1..run.plan.size /\ run2.busy \subseteq run2.todo
      /\ run2.bad \subseteq 1..run.plan.size /\ run2.held \subseteq 1..run.plan.size
  BY <1>1, <1>6
<1>8. Shaped(run2)
  BY <1>1, <1>5, <1>6, <1>7 DEF Shaped
<1> QED BY <1>6, <1>8

\* A task is joined with a worker.
LEMMA JoinedWorker ==
  ASSUME NEW run, Shaped(run), NEW run2,
         NEW k \in 1..run.plan.size, NEW i \in Ids,
         run2 = WithWorker(run, k, i)
  PROVE  /\ Shaped(run2)
         /\ run2.plan = run.plan /\ run2.phase = run.phase /\ run2.todo = run.todo \ {k}
         /\ run2.busy = run.busy \ {k} /\ run2.worker = [run.worker EXCEPT ![k] = i]
         /\ run2.bad = run.bad /\ run2.held = run.held
         /\ run2.results = run.results
<1>1. /\ run \in Run /\ run.plan.size \in Nat /\ 1..run.plan.size \subseteq Nat
      /\ run.worker \in [1..run.plan.size -> Ids \cup {None}]
      /\ run.results \in [1..run.plan.size -> Nat]
      /\ run.todo \subseteq 1..run.plan.size /\ run.busy \subseteq run.todo
      /\ run.bad \subseteq 1..run.plan.size /\ run.held \subseteq 1..run.plan.size
  BY RunFields DEF Shaped
<1>2. [run.worker EXCEPT ![k] = i] \in [1..run.plan.size -> Ids \cup {None}]
  BY <1>1
<1>3. [run.worker EXCEPT ![k] = i] \in Seq(Ids \cup {None})
  BY <1>1, <1>2, AsASequence
<1>4. /\ run.todo \ {k} \in SUBSET Nat
      /\ run.busy \ {k} \in SUBSET Nat
      /\ [run.worker EXCEPT ![k] = i] \in Seq(Ids \cup {None})
  BY <1>1, <1>3
<1>5. run2 \in Run
  BY <1>1, <1>4 DEF Run, Joined, WithWorker
<1>6. /\ run2.plan = run.plan /\ run2.phase = run.phase /\ run2.todo = run.todo \ {k}
      /\ run2.busy = run.busy \ {k} /\ run2.worker = [run.worker EXCEPT ![k] = i]
      /\ run2.bad = run.bad /\ run2.held = run.held
      /\ run2.results = run.results
  BY <1>1 DEF Run, Joined, WithWorker
<1>7. /\ run2.todo \subseteq 1..run.plan.size /\ run2.busy \subseteq run2.todo
      /\ run2.bad \subseteq 1..run.plan.size /\ run2.held \subseteq 1..run.plan.size
  BY <1>1, <1>6
<1>8. Shaped(run2)
  BY <1>1, <1>2, <1>5, <1>6, <1>7 DEF Shaped
<1> QED BY <1>6, <1>8

\* A task is joined with a result.
LEMMA JoinedResult ==
  ASSUME NEW run, Shaped(run), NEW run2,
         NEW k \in 1..run.plan.size,
         run2 = WithResult(run, k)
  PROVE  /\ Shaped(run2)
         /\ run2.plan = run.plan /\ run2.phase = run.phase /\ run2.todo = run.todo \ {k}
         /\ run2.busy = run.busy \ {k} /\ run2.worker = run.worker
         /\ run2.bad = run.bad /\ run2.held = run.held
         /\ run2.results = [run.results EXCEPT ![k] = @ + 1]
<1>1. /\ run \in Run /\ run.plan.size \in Nat /\ 1..run.plan.size \subseteq Nat
      /\ run.worker \in [1..run.plan.size -> Ids \cup {None}]
      /\ run.results \in [1..run.plan.size -> Nat]
      /\ run.todo \subseteq 1..run.plan.size /\ run.busy \subseteq run.todo
      /\ run.bad \subseteq 1..run.plan.size /\ run.held \subseteq 1..run.plan.size
  BY RunFields DEF Shaped
<1>2. [run.results EXCEPT ![k] = @ + 1] \in [1..run.plan.size -> Nat]
  BY <1>1
<1>3. [run.results EXCEPT ![k] = @ + 1] \in Seq(Nat)
  BY <1>1, <1>2, AsASequence
<1>4. /\ run.todo \ {k} \in SUBSET Nat
      /\ run.busy \ {k} \in SUBSET Nat
      /\ [run.results EXCEPT ![k] = @ + 1] \in Seq(Nat)
  BY <1>1, <1>3
<1>5. run2 \in Run
  BY <1>1, <1>4 DEF Run, Joined, WithResult
<1>6. /\ run2.plan = run.plan /\ run2.phase = run.phase /\ run2.todo = run.todo \ {k}
      /\ run2.busy = run.busy \ {k} /\ run2.worker = run.worker
      /\ run2.bad = run.bad /\ run2.held = run.held
      /\ run2.results = [run.results EXCEPT ![k] = @ + 1]
  BY <1>1 DEF Run, Joined, WithResult
<1>7. /\ run2.todo \subseteq 1..run.plan.size /\ run2.busy \subseteq run2.todo
      /\ run2.bad \subseteq 1..run.plan.size /\ run2.held \subseteq 1..run.plan.size
  BY <1>1, <1>6
<1>8. Shaped(run2)
  BY <1>1, <1>2, <1>5, <1>6, <1>7 DEF Shaped
<1> QED BY <1>6, <1>8

\* The next phase.
LEMMA Begun ==
  ASSUME NEW run, Shaped(run), NEW run2,
         NEW phase \in Phases, NEW todo \in SUBSET (1..run.plan.size),
         run2 = Begin(run, phase, todo)
  PROVE  /\ Shaped(run2)
         /\ run2.plan = run.plan /\ run2.phase = phase /\ run2.todo = todo
         /\ run2.busy = {} /\ run2.worker = run.worker
         /\ run2.bad = run.bad /\ run2.held = run.held
         /\ run2.results = run.results
<1>1. /\ run \in Run /\ run.plan.size \in Nat /\ 1..run.plan.size \subseteq Nat
      /\ run.worker \in [1..run.plan.size -> Ids \cup {None}]
      /\ run.results \in [1..run.plan.size -> Nat]
      /\ run.todo \subseteq 1..run.plan.size /\ run.busy \subseteq run.todo
      /\ run.bad \subseteq 1..run.plan.size /\ run.held \subseteq 1..run.plan.size
  BY RunFields DEF Shaped
<1>4. /\ phase \in Phases
      /\ todo \in SUBSET Nat
      /\ {} \in SUBSET Nat
  BY <1>1
<1>5. run2 \in Run
  BY <1>1, <1>4 DEF Run, Begin
<1>6. /\ run2.plan = run.plan /\ run2.phase = phase /\ run2.todo = todo
      /\ run2.busy = {} /\ run2.worker = run.worker
      /\ run2.bad = run.bad /\ run2.held = run.held
      /\ run2.results = run.results
  BY <1>1 DEF Run, Begin
<1>7. /\ run2.todo \subseteq 1..run.plan.size /\ run2.busy \subseteq run2.todo
      /\ run2.bad \subseteq 1..run.plan.size /\ run2.held \subseteq 1..run.plan.size
  BY <1>1, <1>6
<1>8. Shaped(run2)
  BY <1>1, <1>5, <1>6, <1>7 DEF Shaped
<1> QED BY <1>6, <1>8

\* The phase of the executions.
LEMMA BegunExec ==
  ASSUME NEW run, Shaped(run), NEW run2,
         run2 = BeginExec(run)
  PROVE  /\ Shaped(run2)
         /\ run2.plan = run.plan /\ run2.phase = "exec" /\ run2.todo = Usable(run)
         /\ run2.busy = {} /\ run2.worker = run.worker
         /\ run2.bad = run.bad /\ run2.held = run.held
         /\ Counted(run2)
<1>1. /\ run \in Run /\ run.plan.size \in Nat /\ 1..run.plan.size \subseteq Nat
      /\ run.worker \in [1..run.plan.size -> Ids \cup {None}]
      /\ run.results \in [1..run.plan.size -> Nat]
      /\ run.todo \subseteq 1..run.plan.size /\ run.busy \subseteq run.todo
      /\ run.bad \subseteq 1..run.plan.size /\ run.held \subseteq 1..run.plan.size
  BY RunFields DEF Shaped
<1>2. [k \in 1..run.plan.size |-> IF k \in Usable(run) THEN 0 ELSE 1] \in [1..run.plan.size -> Nat]
  BY <1>1
<1>3. [k \in 1..run.plan.size |-> IF k \in Usable(run) THEN 0 ELSE 1] \in Seq(Nat)
  BY <1>1, <1>2, AsASequence
<1>4. /\ "exec" \in Phases
      /\ Usable(run) \in SUBSET Nat
      /\ {} \in SUBSET Nat
      /\ [k \in 1..run.plan.size |-> IF k \in Usable(run) THEN 0 ELSE 1] \in Seq(Nat)
  BY <1>1, <1>3 DEF Usable, Phases
<1>5. run2 \in Run
  BY <1>1, <1>4 DEF Run, Begin, BeginExec
<1>6. /\ run2.plan = run.plan /\ run2.phase = "exec" /\ run2.todo = Usable(run)
      /\ run2.busy = {} /\ run2.worker = run.worker
      /\ run2.bad = run.bad /\ run2.held = run.held
      /\ run2.results = [k \in 1..run.plan.size |-> IF k \in Usable(run) THEN 0 ELSE 1]
  BY <1>1 DEF Run, Begin, BeginExec
<1>7. /\ run2.todo \subseteq 1..run.plan.size /\ run2.busy \subseteq run2.todo
      /\ run2.bad \subseteq 1..run.plan.size /\ run2.held \subseteq 1..run.plan.size
  BY <1>1, <1>6 DEF Usable
<1>8. Shaped(run2)
  BY <1>1, <1>2, <1>5, <1>6, <1>7 DEF Shaped
<1>9. Counted(run2)
  <2>1. \A k \in 1..run2.plan.size : run2.results[k] = IF k \in run2.todo THEN 0 ELSE 1
    BY <1>1, <1>6
  <2>2. run2.todo \subseteq 1..run2.plan.size /\ run2.phase = "exec"
    BY <1>6, <1>7
  <2> QED BY <2>1, <2>2 DEF Counted
<1> QED BY <1>6, <1>8, <1>9

-----------------------------------------------------------------------------
(* The steps of a run *)

\* The run of a runner, and what an EXCEPT does to it.
LEMMA RunAt ==
  ASSUME RunsInv, NEW r \in Runners, runs[r] # None
  PROVE  /\ Sound(runs[r], workspaces, owned, refused, tokens) /\ Shaped(runs[r])
         /\ \A v : [runs EXCEPT ![r] = v][r] = v
         /\ \A v, s : s \in Runners /\ s # r => [runs EXCEPT ![r] = v][s] = runs[s]
BY DEF RunsInv, Sound

\* The run is over or sound after the step.
SoundNext(r) == runs'[r] = None \/ Sound(runs'[r], workspaces', owned', refused', tokens')

\* A fork ends with a new worker.
LEMMA ForkEndsSound ==
  ASSUME RunsInv, NEW r \in Runners, NEW k \in Nat, NEW i \in Ids, NewUuids, ForkEnds(r, k, i)
  PROVE  SoundNext(r)
<1> DEFINE run == runs[r]
           run2 == runs'[r]
<1>1. /\ run # None /\ run.phase = "fork" /\ k \in run.busy
      /\ i \notin workspaces /\ workspaces' = workspaces \cup {i}
      /\ owned' = owned /\ refused' = refused /\ tokens' = tokens
  BY DEF ForkEnds, In, Forks
<1>2. Sound(run, workspaces, owned, refused, tokens) /\ Shaped(run)
  BY <1>1, RunAt
<1>3. run2 = WithWorker(run, k, i)
  BY <1>1, RunAt DEF ForkEnds
<1>4. i \notin Workers(run) /\ i \notin tokens /\ i \notin owned /\ i # None
  <2>1. i \notin Known
    <3> SUFFICES ASSUME i \in Known PROVE FALSE
      OBVIOUS
    <3>1. i \in (workspaces' \ workspaces) \cap Known
      BY <1>1
    <3> QED BY <3>1 DEF NewUuids
  <2>2. WorkersOf(r) \subseteq Known /\ tokens \subseteq Known /\ owned \subseteq Known
    BY DEF Known
  <2> QED BY <1>1, <2>1, <2>2, WorkersOfARun, FleetAssumption
<1>5. k \in 1..run.plan.size /\ k \in run.todo /\ run.worker[k] = None
  BY <1>1, <1>2 DEF Sound, Shaped, Apart
<1> HIDE DEF run, run2
<1>6. /\ Shaped(run2)
      /\ run2.plan = run.plan /\ run2.phase = run.phase /\ run2.todo = run.todo \ {k}
      /\ run2.busy = run.busy \ {k} /\ run2.worker = [run.worker EXCEPT ![k] = i]
      /\ run2.bad = run.bad /\ run2.held = run.held /\ run2.results = run.results
  <2>1. Shaped(run) /\ run2 = WithWorker(run, k, i) /\ k \in 1..run.plan.size
    BY <1>2, <1>3, <1>5
  <2> QED BY <2>1, JoinedWorker
<1>7. /\ run.worker \in [1..run.plan.size -> Ids \cup {None}]
      /\ \A l \in 1..run.plan.size : run2.worker[l] = IF l = k THEN i ELSE run.worker[l]
      /\ \A l \in 1..run.plan.size : run.worker[l] # i
  <2>1. run.worker \in [1..run.plan.size -> Ids \cup {None}]
    BY <1>2 DEF Shaped
  <2>2. \A l \in 1..run.plan.size : run.worker[l] # i
    BY <1>4 DEF Workers
  <2>3. run2.worker = [run.worker EXCEPT ![k] = i]
    BY <1>6
  <2> QED BY <1>5, <2>1, <2>2, <2>3
<1>8. Apart(run2)
  BY <1>1, <1>2, <1>6, <1>7 DEF Apart, Sound
<1>9. Counted(run2) /\ Registered(run2, workspaces', owned' \cup refused') /\ Cleaned(run2, workspaces', owned')
  BY <1>1, <1>6 DEF Counted, Registered, Cleaned
<1>10. Revoked(run2, tokens')
  BY <1>1, <1>2, <1>4, <1>6, <1>7 DEF Revoked, Sound
<1> QED BY <1>6, <1>8, <1>9, <1>10 DEF Sound, SoundNext, run2

\* A permit is taken.
LEMMA AcquireSound ==
  ASSUME RunsInv, NEW r \in Runners, NEW k \in Nat, ForkBegins(r, k) \/ ExecBegins(r, k)
  PROVE  SoundNext(r)
<1> DEFINE run == runs[r]
           run2 == runs'[r]
<1>1. /\ run # None /\ run.phase \in {"fork", "exec"} /\ k \in run.todo
      /\ workspaces' = workspaces /\ owned' = owned /\ refused' = refused /\ tokens' = tokens
  BY DEF ForkBegins, ExecBegins, In, Acquire, fleetVars
<1>2. Sound(run, workspaces, owned, refused, tokens) /\ Shaped(run)
  BY <1>1, RunAt
<1>3. run2 = [run EXCEPT !.busy = @ \cup {k}]
  BY <1>1, RunAt DEF ForkBegins, ExecBegins, Acquire
<1> HIDE DEF run, run2
<1>4. /\ Shaped(run2)
      /\ run2.plan = run.plan /\ run2.phase = run.phase /\ run2.todo = run.todo
      /\ run2.worker = run.worker
      /\ run2.bad = run.bad /\ run2.held = run.held /\ run2.results = run.results
  BY <1>1, <1>2, <1>3, Acquired
<1>5. Apart(run2) /\ Counted(run2)
  BY <1>2, <1>4 DEF Apart, Counted, Sound
<1>6. Registered(run2, workspaces', owned' \cup refused')
  BY <1>1, <1>2, <1>4 DEF Registered, Sound
<1>7. Revoked(run2, tokens')
  BY <1>1, <1>2, <1>4 DEF Revoked, Sound
<1>8. Cleaned(run2, workspaces', owned')
  BY <1>1, <1>4 DEF Cleaned
<1> QED BY <1>4, <1>5, <1>6, <1>7, <1>8 DEF Sound, SoundNext, run2

\* A fork fails, an injection comes to its end.
LEMMA JoinSound ==
  ASSUME RunsInv, NEW r \in Runners, NEW k \in Nat, ForkFails(r, k) \/ InjectEnv(r, k)
  PROVE  SoundNext(r)
<1> DEFINE run == runs[r]
           run2 == runs'[r]
<1>1. /\ run # None /\ run.phase \in {"fork", "env"} /\ k \in run.busy \cup run.todo
      /\ workspaces' = workspaces /\ owned' = owned /\ refused' = refused /\ tokens' = tokens
  BY DEF ForkFails, InjectEnv, In, fleetVars
<1>2. Sound(run, workspaces, owned, refused, tokens) /\ Shaped(run)
  BY <1>1, RunAt
<1>3. run2 = Joined(run, k) \/ run2 = WithBad(run, k)
  <2>1. CASE runs' = [runs EXCEPT ![r] = Joined(@, k)]
    BY <1>1, <2>1, RunAt
  <2>2. CASE runs' = [runs EXCEPT ![r] = WithBad(@, k)]
    BY <1>1, <2>2, RunAt
  <2> QED BY <2>1, <2>2 DEF ForkFails, InjectEnv
<1> HIDE DEF run, run2
<1>4. k \in 1..run.plan.size
  BY <1>1, <1>2 DEF Shaped
<1>5. /\ Shaped(run2)
      /\ run2.plan = run.plan /\ run2.phase = run.phase /\ run2.todo = run.todo \ {k}
      /\ run2.worker = run.worker
      /\ run.bad \subseteq run2.bad /\ run2.held = run.held /\ run2.results = run.results
  <2>1. CASE run2 = Joined(run, k)
    BY <1>2, <2>1, JoinedOne
  <2>2. CASE run2 = WithBad(run, k)
    BY <1>2, <1>4, <2>2, JoinedBad
  <2> QED BY <1>3, <2>1, <2>2
<1>6. Apart(run2) /\ Counted(run2)
  BY <1>1, <1>2, <1>5 DEF Apart, Counted, Sound
<1>7. Registered(run2, workspaces', owned' \cup refused')
  BY <1>1, <1>2, <1>5 DEF Registered, Sound
<1>8. Revoked(run2, tokens')
  BY <1>1, <1>2, <1>5 DEF Revoked, Sound
<1>9. Cleaned(run2, workspaces', owned')
  BY <1>1, <1>5 DEF Cleaned
<1> QED BY <1>5, <1>6, <1>7, <1>8, <1>9 DEF Sound, SoundNext, run2

\* The executions begin when all that comes before is joined.
LEMMA ExecSound ==
  ASSUME RunsInv, NEW r \in Runners, runs[r] # None, NEW run2, run2 = BeginExec(runs[r]),
         NEW mine, NEW beyond, owned \subseteq mine, refused \subseteq beyond,
         runs[r].phase = "bridge" => runs[r].busy = {}, runs[r].phase # "cleanup", runs[r].phase # "interrupted",
         \/ runs[r].plan.kind = "orchestrate"
         \/ Workers(runs[r]) \subseteq mine \cup beyond
         \/ runs[r].phase \in {"env", "bridge"}
  PROVE  Sound(run2, workspaces, mine, beyond, tokens)
<1> DEFINE run == runs[r]
<1>1. Sound(run, workspaces, owned, refused, tokens) /\ Shaped(run)
  BY RunAt
<1>2. \A k \in 1..run.plan.size : run.worker[k] # None => run.worker[k] \in Workers(run)
  BY DEF Workers
<1>0. run2 = BeginExec(run)
  OBVIOUS
<1> HIDE DEF run
<1>3. /\ Shaped(run2) /\ run2.plan = run.plan /\ run2.phase = "exec" /\ run2.busy = {}
      /\ run2.worker = run.worker /\ run2.bad = run.bad /\ run2.held = run.held /\ Counted(run2)
  BY <1>0, <1>1, BegunExec
<1>4. Apart(run2)
  BY <1>1, <1>3 DEF Apart, Sound
<1>5. Registered(run2, workspaces, mine \cup beyond)
  <2>1. run.plan.kind \in {"swarm", "orchestrate"}
    BY <1>1, RunFields
  <2>2. CASE run.plan.kind = "orchestrate"
    BY <1>3, <2>2 DEF Registered
  <2>3. CASE Workers(run) \subseteq mine \cup beyond
    BY <1>2, <1>3, <2>3 DEF Registered
  <2>4. CASE run.phase \in {"env", "bridge"}
    BY <1>1, <1>3, <2>4 DEF Registered, Sound
  <2> QED BY <2>2, <2>3, <2>4 DEF run
<1>6. Revoked(run2, tokens)
  BY <1>1, <1>3 DEF Revoked, Sound, run
<1>7. Cleaned(run2, workspaces, mine)
  BY <1>3 DEF Cleaned
<1> QED BY <1>3, <1>4, <1>5, <1>6, <1>7 DEF Sound

\* So does a phase before them, where tokens have not been given out yet.
LEMMA SetupSound ==
  ASSUME RunsInv, NEW r \in Runners, runs[r] # None, NEW run2,
         NEW phase \in {"register", "env", "bridge"}, NEW todo \in SUBSET (1..runs[r].plan.size),
         run2 = Begin(runs[r], phase, todo), runs[r].plan.kind = "swarm",
         NEW mine, NEW beyond, owned \subseteq mine, refused \subseteq beyond,
         runs[r].phase \in {"fork", "register", "env"},
         \/ phase = "register"
         \/ Workers(runs[r]) \subseteq mine \cup beyond
         \/ runs[r].phase = "env"
  PROVE  Sound(run2, workspaces, mine, beyond, tokens)
<1> DEFINE run == runs[r]
<1>1. Sound(run, workspaces, owned, refused, tokens) /\ Shaped(run)
  BY RunAt
<1>2. \A k \in 1..run.plan.size : run.worker[k] # None => run.worker[k] \in Workers(run)
  BY DEF Workers
<1>0. phase \in Phases
  BY DEF Phases
<1> HIDE DEF run
<1>3. /\ Shaped(run2) /\ run2.plan = run.plan /\ run2.phase = phase /\ run2.busy = {}
      /\ run2.worker = run.worker /\ run2.bad = run.bad /\ run2.held = run.held
  BY <1>0, <1>1, Begun DEF run
<1>4. Apart(run2) /\ Counted(run2)
  BY <1>1, <1>3 DEF Apart, Counted, Sound, run
<1>5. Registered(run2, workspaces, mine \cup beyond)
  <2>2. CASE phase = "register"
    BY <1>3, <2>2 DEF Registered
  <2>3. CASE Workers(run) \subseteq mine \cup beyond
    BY <1>2, <1>3, <2>3 DEF Registered
  <2>4. CASE run.phase = "env"
    BY <1>1, <1>3, <2>4 DEF Registered, Sound
  <2> QED BY <2>2, <2>3, <2>4 DEF run
<1>6. Revoked(run2, tokens)
  BY <1>1, <1>3 DEF Revoked, Sound, run
<1>7. Cleaned(run2, workspaces, mine)
  BY <1>3 DEF Cleaned
<1> QED BY <1>3, <1>4, <1>5, <1>6, <1>7 DEF Sound

\* The worker forks are joined, the injections, the bridges.
LEMMA PhaseSound ==
  ASSUME RunsInv, NEW r \in Runners,
         AllForked(r) \/ RegisterWorkers(r) \/ EnvInjected(r) \/ BridgesConfigured(r)
  PROVE  SoundNext(r)
<1> DEFINE run == runs[r]
           run2 == runs'[r]
<1>1. run # None
  BY DEF AllForked, RegisterWorkers, EnvInjected, BridgesConfigured, In, AllJoined
<1>2. Sound(run, workspaces, owned, refused, tokens) /\ Shaped(run)
  BY <1>1, RunAt
<1>3. /\ run.plan.kind \in {"swarm", "orchestrate"}
      /\ run.phase \in {"register", "env", "bridge"} => run.plan.kind = "swarm"
      /\ run.todo = {} => run.busy = {}
      /\ {} \in SUBSET (1..run.plan.size) /\ Usable(run) \in SUBSET (1..run.plan.size)
      /\ Forked(r) \in SUBSET (1..run.plan.size)
  BY <1>2, RunFields DEF Sound, Apart, Shaped, Usable, Forked, Tasks
<1>4. CASE AllForked(r)
  <2>1. /\ run.phase = "fork" /\ run.todo = {}
        /\ workspaces' = workspaces /\ owned' = owned /\ refused' = refused /\ tokens' = tokens
    BY <1>1, <1>4 DEF AllForked, AllJoined, In, fleetVars
  <2>2. \/ run2 = None
        \/ run.plan.kind = "orchestrate" /\ run2 = BeginExec(run)
        \/ run.plan.kind = "swarm" /\ run2 = Begin(run, "register", {})
    BY <1>1, <1>3, <1>4, RunAt DEF AllForked, Over
  <2>3. CASE run.plan.kind = "orchestrate" /\ run2 = BeginExec(run)
    BY <1>1, <1>3, <2>1, <2>3, ExecSound DEF SoundNext
  <2>4. CASE run.plan.kind = "swarm" /\ run2 = Begin(run, "register", {})
    BY <1>1, <1>3, <2>1, <2>4, SetupSound DEF SoundNext
  <2> QED BY <2>2, <2>3, <2>4 DEF SoundNext
<1>5. CASE RegisterWorkers(r)
  <2>1. /\ run.phase = "register" /\ run.plan.kind = "swarm"
        /\ workspaces' = workspaces /\ tokens' = tokens
    BY <1>1, <1>3, <1>5 DEF RegisterWorkers, In, fleetVars
  <2>2. /\ owned \subseteq owned' /\ refused \subseteq refused'
        /\ Workers(run) \subseteq owned' \cup refused'
    BY <1>1, <1>5, WorkersOfARun DEF RegisterWorkers
  <2>3. \/ run2 = Begin(run, "env", Forked(r)) \/ run2 = Begin(run, "bridge", Usable(run))
        \/ run2 = BeginExec(run)
    BY <1>1, <1>5, RunAt DEF RegisterWorkers, BeginBridge
  <2>4. CASE run2 = BeginExec(run)
    BY <1>1, <2>1, <2>2, <2>4, ExecSound DEF SoundNext
  <2>5. CASE run2 = Begin(run, "env", Forked(r))
    BY <1>1, <1>3, <2>1, <2>2, <2>5, SetupSound DEF SoundNext
  <2>6. CASE run2 = Begin(run, "bridge", Usable(run))
    BY <1>1, <1>3, <2>1, <2>2, <2>6, SetupSound DEF SoundNext
  <2> QED BY <2>3, <2>4, <2>5, <2>6
<1>6. CASE EnvInjected(r)
  <2>1. /\ run.phase = "env" /\ run.plan.kind = "swarm" /\ run.busy = {}
        /\ workspaces' = workspaces /\ owned' = owned /\ refused' = refused /\ tokens' = tokens
    BY <1>1, <1>3, <1>6 DEF EnvInjected, AllJoined, In, fleetVars
  <2>2. run2 = Begin(run, "bridge", Usable(run)) \/ run2 = BeginExec(run)
    BY <1>1, <1>6, RunAt DEF EnvInjected, BeginBridge
  <2>3. CASE run2 = BeginExec(run)
    BY <1>1, <2>1, <2>3, ExecSound DEF SoundNext
  <2>4. CASE run2 = Begin(run, "bridge", Usable(run))
    BY <1>1, <1>3, <2>1, <2>4, SetupSound DEF SoundNext
  <2> QED BY <2>2, <2>3, <2>4
<1>7. CASE BridgesConfigured(r)
  <2>1. /\ run.phase = "bridge" /\ run.plan.kind = "swarm" /\ run.busy = {}
        /\ workspaces' = workspaces /\ owned' = owned /\ refused' = refused /\ tokens' = tokens
        /\ run2 = BeginExec(run)
    BY <1>1, <1>3, <1>7, RunAt DEF BridgesConfigured, AllJoined, In, fleetVars
  <2> QED BY <1>1, <2>1, ExecSound DEF SoundNext
<1> QED BY <1>4, <1>5, <1>6, <1>7

\* A call that answers, or that ends on the way, leaves no run behind.
LEMMA OverSound ==
  ASSUME RunsInv, NEW r \in Runners,
         BridgeMissing(r) \/ TargetMissing(r) \/ Answer(r) \/ Interrupted(r)
  PROVE  SoundNext(r)
BY RunAt DEF BridgeMissing, TargetMissing, Answer, Interrupted, Over, In, AllJoined, SoundNext

\* The executions are joined: a merge, the end, or the destruction of the
\* workers, whose tokens are revoked.
LEMMA ExecutedSound ==
  ASSUME RunsInv, NEW r \in Runners, AllExecuted(r) \/ Merge(r)
  PROVE  SoundNext(r)
<1> DEFINE run == runs[r]
           run2 == runs'[r]
<1>1. /\ run # None /\ run.phase \in {"exec", "merge"} /\ (run.phase = "exec" => run.todo = {})
      /\ workspaces' = workspaces /\ owned' = owned /\ refused' = refused
  BY DEF AllExecuted, Merge, AllJoined, In, fleetVars
<1>2. Sound(run, workspaces, owned, refused, tokens) /\ Shaped(run)
  BY <1>1, RunAt
<1>3. \/ run2 = None
      \/ ~(run.plan.kind = "orchestrate") /\ run2 = Begin(run, "merge", {}) /\ tokens' = tokens
      \/ run2 = Begin(run, "cleanup", Forked(r)) /\ tokens' = tokens \ {Worker(r, k) : k \in run.held}
  <2>1. run.plan.kind = "orchestrate" => ~run.plan.merge
    BY <1>2, RunFields
  <2> QED BY <1>1, <2>1, RunAt DEF AllExecuted, Merge, BeginCleanup, Over
<1>4. {} \in SUBSET (1..run.plan.size) /\ Forked(r) \in SUBSET (1..run.plan.size)
  BY DEF Forked, Tasks
<1>5. \A k \in 1..run.plan.size : run.results[k] = 1
  BY <1>1, <1>2 DEF Counted, Sound
<1>6. "merge" \in Phases /\ "cleanup" \in Phases
  BY DEF Phases
<1>7. CASE ~(run.plan.kind = "orchestrate") /\ run2 = Begin(run, "merge", {}) /\ tokens' = tokens
  <2> HIDE DEF run, run2
  <2>1. /\ Shaped(run2) /\ run2.plan = run.plan /\ run2.phase = "merge"
        /\ run2.worker = run.worker /\ run2.bad = run.bad /\ run2.held = run.held
        /\ run2.results = run.results
    BY <1>2, <1>4, <1>6, <1>7, Begun
  <2>2. Apart(run2) /\ Counted(run2) /\ Cleaned(run2, workspaces', owned')
    BY <1>2, <1>5, <1>7, <2>1 DEF Apart, Counted, Cleaned, Sound
  <2>3. run.plan.kind = "swarm" => Registered(run2, workspaces', owned' \cup refused')
    BY <1>1, <1>2, <2>1 DEF Registered, Sound
  <2>4. Registered(run2, workspaces', owned' \cup refused')
    BY <2>1, <2>3 DEF Registered
  <2>5. Revoked(run2, tokens')
    BY <1>1, <1>2, <1>7, <2>1 DEF Revoked, Sound
  <2> QED BY <2>1, <2>2, <2>4, <2>5 DEF Sound, SoundNext, run2
<1>8. CASE run2 = Begin(run, "cleanup", Forked(r)) /\ tokens' = tokens \ {Worker(r, k) : k \in run.held}
  <2>1. \A k \in run.held : run.worker[k] \notin tokens'
    BY <1>8 DEF Worker
  <2>2. \A k \in 1..run.plan.size : run.worker[k] # None => k \in Forked(r)
    BY DEF Forked, Tasks, Worker
  <2> HIDE DEF run, run2
  <2>3. /\ Shaped(run2) /\ run2.plan = run.plan /\ run2.phase = "cleanup"
        /\ run2.todo = Forked(r) /\ run2.busy = {}
        /\ run2.worker = run.worker /\ run2.bad = run.bad /\ run2.held = run.held
        /\ run2.results = run.results
    BY <1>2, <1>4, <1>6, <1>8, Begun
  <2>4. Apart(run2) /\ Counted(run2) /\ Registered(run2, workspaces', owned' \cup refused')
    BY <1>2, <1>5, <2>3 DEF Apart, Counted, Registered, Sound
  <2>5. Cleaned(run2, workspaces', owned')
    BY <2>2, <2>3 DEF Cleaned
  <2>6. Revoked(run2, tokens')
    <3>1. tokens' \subseteq tokens
      BY <1>8
    <3> QED BY <1>1, <1>2, <2>1, <2>3, <3>1 DEF Revoked, Sound
  <2> QED BY <2>3, <2>4, <2>5, <2>6 DEF Sound, SoundNext, run2
<1> QED BY <1>3, <1>7, <1>8 DEF SoundNext

\* A token is generated, and its worker configured.
LEMMA BridgeSound ==
  ASSUME RunsInv, NEW r \in Runners, NEW k \in Nat, BridgeToken(r, k) \/ BridgeConfigured(r, k)
  PROVE  SoundNext(r)
<1> DEFINE run == runs[r]
           run2 == runs'[r]
<1>1. /\ run # None /\ run.phase = "bridge" /\ k \in run.todo \cup run.busy
      /\ workspaces' = workspaces /\ owned' = owned /\ refused' = refused
  BY DEF BridgeToken, BridgeConfigured, In, fleetVars
<1>2. Sound(run, workspaces, owned, refused, tokens) /\ Shaped(run)
  BY <1>1, RunAt
<1>3. k \in 1..run.plan.size /\ k \in run.todo
  BY <1>1, <1>2 DEF Shaped
<1>4. CASE BridgeToken(r, k)
  <2>1. run2 = [run EXCEPT !.busy = @ \cup {k}] /\ tokens' = tokens \cup {run.worker[k]}
    BY <1>1, <1>4, RunAt DEF BridgeToken, Worker
  <2> HIDE DEF run, run2
  <2>2. /\ Shaped(run2) /\ run2.plan = run.plan /\ run2.phase = run.phase /\ run2.todo = run.todo
        /\ run2.busy = run.busy \cup {k} /\ run2.worker = run.worker
        /\ run2.bad = run.bad /\ run2.held = run.held /\ run2.results = run.results
    BY <1>2, <1>3, <2>1, Acquired
  <2>3. Apart(run2) /\ Counted(run2) /\ Cleaned(run2, workspaces', owned')
    BY <1>1, <1>2, <2>2 DEF Apart, Counted, Cleaned, Sound
  <2>4. Registered(run2, workspaces', owned' \cup refused')
    BY <1>1, <1>2, <2>2 DEF Registered, Sound
  <2>5. Revoked(run2, tokens')
    <3>1. \A l \in 1..run.plan.size : run.worker[l] \in tokens' \ {None} => run.worker[l] \in tokens \/ l = k
      BY <1>2, <1>3, <2>1 DEF Sound, Apart
    <3> QED BY <1>1, <1>2, <2>2, <3>1 DEF Revoked, Sound
  <2> QED BY <2>2, <2>3, <2>4, <2>5 DEF Sound, SoundNext, run2
<1>5. CASE BridgeConfigured(r, k)
  <2>1. (run2 = WithHeld(run, k) \/ run2 = WithBad(run, k)) /\ tokens' = tokens
    BY <1>1, <1>5, RunAt DEF BridgeConfigured
  <2> HIDE DEF run, run2
  <2>2. /\ Shaped(run2) /\ run2.plan = run.plan /\ run2.phase = run.phase
        /\ run2.busy = run.busy \ {k} /\ run2.worker = run.worker
        /\ run.bad \subseteq run2.bad /\ run.held \subseteq run2.held
        /\ k \in run2.bad \cup run2.held /\ run2.results = run.results
    <3>1. CASE run2 = WithHeld(run, k)
      BY <1>2, <1>3, <3>1, JoinedHeld
    <3>2. CASE run2 = WithBad(run, k)
      BY <1>2, <1>3, <3>2, JoinedBad
    <3> QED BY <2>1, <3>1, <3>2
  <2>3. Apart(run2) /\ Counted(run2) /\ Cleaned(run2, workspaces', owned')
    BY <1>1, <1>2, <2>2 DEF Apart, Counted, Cleaned, Sound
  <2>4. Registered(run2, workspaces', owned' \cup refused')
    BY <1>1, <1>2, <2>2 DEF Registered, Sound
  <2>5. Revoked(run2, tokens')
    BY <1>1, <1>2, <2>1, <2>2 DEF Revoked, Sound
  <2> QED BY <2>2, <2>3, <2>4, <2>5 DEF Sound, SoundNext, run2
<1> QED BY <1>4, <1>5

\* An execution ends with a result.
LEMMA ExecEndsSound ==
  ASSUME RunsInv, NEW r \in Runners, NEW k \in Nat, ExecEnds(r, k)
  PROVE  SoundNext(r)
<1> DEFINE run == runs[r]
           run2 == runs'[r]
<1>1. /\ run # None /\ run.phase = "exec" /\ k \in run.busy
      /\ workspaces' = workspaces /\ owned' = owned /\ refused' = refused /\ tokens' = tokens
  BY DEF ExecEnds, In, fleetVars
<1>2. Sound(run, workspaces, owned, refused, tokens) /\ Shaped(run)
  BY <1>1, RunAt
<1>3. run2 = WithResult(run, k)
  BY <1>1, RunAt DEF ExecEnds
<1>4. k \in 1..run.plan.size /\ k \in run.todo
  BY <1>1, <1>2 DEF Shaped
<1> HIDE DEF run, run2
<1>5. /\ Shaped(run2) /\ run2.plan = run.plan /\ run2.phase = run.phase
      /\ run2.todo = run.todo \ {k} /\ run2.worker = run.worker
      /\ run2.bad = run.bad /\ run2.held = run.held
      /\ run2.results = [run.results EXCEPT ![k] = @ + 1]
  BY <1>2, <1>3, <1>4, JoinedResult
<1>6. Apart(run2)
  BY <1>1, <1>2, <1>5 DEF Apart, Sound
<1>7. Counted(run2)
  <2>1. run.results \in [1..run.plan.size -> Nat]
    BY <1>2 DEF Shaped
  <2>2. run.results[k] = 0
    BY <1>1, <1>2, <1>4 DEF Counted, Sound
  <2>3. \A l \in 1..run.plan.size : run2.results[l] = IF l = k THEN 1 ELSE run.results[l]
    <3>1. \A l \in 1..run.plan.size :
            [run.results EXCEPT ![k] = @ + 1][l] = IF l = k THEN run.results[k] + 1 ELSE run.results[l]
      BY <2>1
    <3> QED BY <1>5, <2>2, <3>1
  <2>4. run.todo \subseteq 1..run.plan.size
    BY <1>2 DEF Shaped
  <2> QED BY <1>1, <1>2, <1>5, <2>3, <2>4 DEF Counted, Sound
<1>8. Registered(run2, workspaces', owned' \cup refused') /\ Cleaned(run2, workspaces', owned')
  BY <1>1, <1>2, <1>5 DEF Registered, Cleaned, Sound
<1>9. Revoked(run2, tokens')
  BY <1>1, <1>2, <1>5 DEF Revoked, Sound
<1> QED BY <1>5, <1>6, <1>7, <1>8, <1>9 DEF Sound, SoundNext, run2

\* A worker is destroyed, and given back.
LEMMA CleanupSound ==
  ASSUME RunsInv, NEW r \in Runners, NEW k \in Nat, DestroyWorker(r, k) \/ UnregisterWorker(r, k)
  PROVE  SoundNext(r)
<1> DEFINE run == runs[r]
           run2 == runs'[r]
<1>1. run # None /\ run.phase = "cleanup" /\ k \in run.todo \cup run.busy /\ tokens' = tokens
  BY DEF DestroyWorker, UnregisterWorker, In
<1>2. Sound(run, workspaces, owned, refused, tokens) /\ Shaped(run)
  BY <1>1, RunAt
<1>3. k \in 1..run.plan.size /\ k \in run.todo
  BY <1>1, <1>2 DEF Shaped
<1>4. CASE DestroyWorker(r, k)
  <2>1. /\ run2 = [run EXCEPT !.busy = @ \cup {k}]
        /\ workspaces' = workspaces \ {run.worker[k]} /\ owned' = owned
    BY <1>1, <1>4, RunAt DEF DestroyWorker, Destroys, Worker
  <2> HIDE DEF run, run2
  <2>2. /\ Shaped(run2) /\ run2.plan = run.plan /\ run2.phase = run.phase /\ run2.todo = run.todo
        /\ run2.busy = run.busy \cup {k} /\ run2.worker = run.worker
        /\ run2.bad = run.bad /\ run2.held = run.held /\ run2.results = run.results
    BY <1>2, <1>3, <2>1, Acquired
  <2>3. Apart(run2) /\ Counted(run2) /\ Registered(run2, workspaces', owned' \cup refused')
    BY <1>1, <1>2, <2>2 DEF Apart, Counted, Registered, Sound
  <2>4. Cleaned(run2, workspaces', owned')
    BY <1>1, <1>2, <2>1, <2>2 DEF Cleaned, Sound
  <2>5. Revoked(run2, tokens')
    BY <1>1, <1>2, <2>2 DEF Revoked, Sound
  <2> QED BY <2>2, <2>3, <2>4, <2>5 DEF Sound, SoundNext, run2
<1>5. CASE UnregisterWorker(r, k)
  <2>1. /\ run2 = Joined(run, k) /\ k \in run.busy
        /\ workspaces' = workspaces /\ owned' = owned \ {run.worker[k]}
    BY <1>1, <1>5, RunAt DEF UnregisterWorker, fleetVars, Worker
  <2> HIDE DEF run, run2
  <2>2. /\ Shaped(run2) /\ run2.plan = run.plan /\ run2.phase = run.phase
        /\ run2.todo = run.todo \ {k} /\ run2.busy = run.busy \ {k} /\ run2.worker = run.worker
        /\ run2.bad = run.bad /\ run2.held = run.held /\ run2.results = run.results
    BY <1>2, <2>1, JoinedOne
  <2>3. Apart(run2) /\ Counted(run2) /\ Registered(run2, workspaces', owned' \cup refused')
    BY <1>1, <1>2, <2>2 DEF Apart, Counted, Registered, Sound
  <2>4. Cleaned(run2, workspaces', owned')
    BY <1>1, <1>2, <2>1, <2>2 DEF Cleaned, Sound
  <2>5. Revoked(run2, tokens')
    BY <1>1, <1>2, <2>2 DEF Revoked, Sound
  <2> QED BY <2>2, <2>3, <2>4, <2>5 DEF Sound, SoundNext, run2
<1> QED BY <1>4, <1>5

\* An interrupt, and what it destroys.
LEMMA InterruptSound ==
  ASSUME RunsInv, NEW r \in Runners, Interrupt(r) \/ \E k \in Nat : DestroyListed(r, k)
  PROVE  SoundNext(r)
<1> DEFINE run == runs[r]
           run2 == runs'[r]
<1>1. run # None /\ tokens' = tokens /\ owned' = owned
  BY DEF Interrupt, DestroyListed, In
<1>2. Sound(run, workspaces, owned, refused, tokens) /\ Shaped(run)
  BY <1>1, RunAt
<1>3. CASE Interrupt(r)
  <2> DEFINE todo == {k \in Forked(r) : Worker(r, k) \in workspaces}
  <2>1. run2 = Begin(run, "interrupted", todo) /\ workspaces' = workspaces
    BY <1>1, <1>3, RunAt DEF Interrupt, fleetVars
  <2>2. /\ todo \in SUBSET (1..run.plan.size) /\ "interrupted" \in Phases
        /\ \A k \in 1..run.plan.size : run.worker[k] # None /\ k \notin todo => run.worker[k] \notin workspaces
    BY DEF Forked, Tasks, Worker, Phases
  <2> HIDE DEF run, run2, todo
  <2>3. /\ Shaped(run2) /\ run2.plan = run.plan /\ run2.phase = "interrupted" /\ run2.todo = todo
        /\ run2.worker = run.worker
    BY <1>2, <2>1, <2>2, Begun
  <2>4. Apart(run2) /\ Counted(run2) /\ Registered(run2, workspaces', owned' \cup refused')
    BY <1>2, <2>3 DEF Apart, Counted, Registered, Sound
  <2>5. Cleaned(run2, workspaces', owned') /\ Revoked(run2, tokens')
    BY <2>1, <2>2, <2>3 DEF Cleaned, Revoked
  <2> QED BY <2>3, <2>4, <2>5 DEF Sound, SoundNext, run2
<1>4. ASSUME NEW k \in Nat, DestroyListed(r, k) PROVE SoundNext(r)
  <2>1. /\ run2 = Joined(run, k) /\ run.phase = "interrupted"
        /\ workspaces' = workspaces \ {run.worker[k]}
    BY <1>1, <1>4, RunAt DEF DestroyListed, In, Destroys, Worker
  <2> HIDE DEF run, run2
  <2>2. /\ Shaped(run2) /\ run2.plan = run.plan /\ run2.phase = run.phase
        /\ run2.todo = run.todo \ {k} /\ run2.worker = run.worker
    BY <1>2, <2>1, JoinedOne
  <2>3. Apart(run2) /\ Counted(run2) /\ Registered(run2, workspaces', owned' \cup refused')
    BY <1>2, <2>1, <2>2 DEF Apart, Counted, Registered, Sound
  <2>4. Cleaned(run2, workspaces', owned') /\ Revoked(run2, tokens')
    BY <1>2, <2>1, <2>2 DEF Cleaned, Revoked, Sound
  <2> QED BY <2>2, <2>3, <2>4 DEF Sound, SoundNext, run2
<1> QED BY <1>3, <1>4

-----------------------------------------------------------------------------
(* What a run does to its surroundings *)

\* The steps of a run.
OwnStep(r) == RunStep(r) \/ Interrupt(r)

\* A step of a run leaves the other runs alone.
LEMMA OwnRun ==
  ASSUME RunsInv, NEW r \in Runners, OwnStep(r)
  PROVE  runs[r] # None /\ runs' = [runs EXCEPT ![r] = runs'[r]]
<1>1. \A v : [runs EXCEPT ![r] = v] = [runs EXCEPT ![r] = [runs EXCEPT ![r] = v][r]]
  BY DEF RunsInv
<1>2. CASE Interrupt(r)
  BY <1>1, <1>2 DEF Interrupt
<1>3. CASE \E k \in Nat : \/ ForkBegins(r, k) \/ ForkFails(r, k) \/ \E i \in Ids : ForkEnds(r, k, i)
       \/ InjectEnv(r, k) \/ BridgeToken(r, k) \/ BridgeConfigured(r, k)
  BY <1>1, <1>3 DEF ForkBegins, ForkFails, ForkEnds, InjectEnv, BridgeToken, BridgeConfigured, In, Acquire
<1>4. CASE \E k \in Nat : \/ ExecBegins(r, k) \/ ExecEnds(r, k)
       \/ DestroyWorker(r, k) \/ UnregisterWorker(r, k) \/ DestroyListed(r, k)
  BY <1>1, <1>4 DEF ExecBegins, ExecEnds, DestroyWorker, UnregisterWorker, DestroyListed, In, Acquire
<1>5. CASE \/ AllForked(r) \/ RegisterWorkers(r) \/ EnvInjected(r) \/ BridgeMissing(r) \/ BridgesConfigured(r)
  BY <1>1, <1>5 DEF AllForked, RegisterWorkers, EnvInjected, BridgeMissing, BridgesConfigured, In, AllJoined, Over
<1>6. CASE \/ AllExecuted(r) \/ Merge(r) \/ TargetMissing(r) \/ Answer(r) \/ Interrupted(r)
  BY <1>1, <1>6 DEF AllExecuted, Merge, TargetMissing, Answer, Interrupted, In, AllJoined, Over, BeginCleanup
<1>7. runs[r] # None => runs[r].plan.size \in Nat
  BY RunFields, RunAt
<1> QED BY <1>2, <1>3, <1>4, <1>5, <1>6, <1>7 DEF OwnStep, RunStep

\* The parts of RunStep by the number of the task.
LEMMA OwnCases ==
  ASSUME RunsInv, NEW r \in Runners, OwnStep(r)
  PROVE  \/ Interrupt(r)
         \/ \E k \in Nat :
              \/ ForkBegins(r, k) \/ ForkFails(r, k) \/ \E i \in Ids : ForkEnds(r, k, i)
              \/ InjectEnv(r, k) \/ BridgeToken(r, k) \/ BridgeConfigured(r, k)
              \/ ExecBegins(r, k) \/ ExecEnds(r, k)
              \/ DestroyWorker(r, k) \/ UnregisterWorker(r, k) \/ DestroyListed(r, k)
         \/ AllForked(r) \/ RegisterWorkers(r) \/ EnvInjected(r)
         \/ BridgeMissing(r) \/ BridgesConfigured(r)
         \/ AllExecuted(r) \/ Merge(r) \/ TargetMissing(r) \/ Answer(r) \/ Interrupted(r)
<1>1. runs[r] # None => runs[r].plan.size \in Nat
  BY RunFields, RunAt
<1> QED BY <1>1 DEF OwnStep, RunStep

\* A run is sound after each of its own steps.
LEMMA OwnSound ==
  ASSUME RunsInv, NEW r \in Runners, OwnStep(r), NewUuids
  PROVE  SoundNext(r)
BY OwnCases, ForkEndsSound, AcquireSound, JoinSound, PhaseSound, OverSound, ExecutedSound,
   BridgeSound, ExecEndsSound, CleanupSound, InterruptSound

\* What a run keeps of its workers when it goes on.
LEMMA SameWorkers ==
  ASSUME NEW run, Shaped(run), NEW run2,
         \/ \E k \in run.todo : run2 = [run EXCEPT !.busy = @ \cup {k}]
         \/ \E k \in 1..run.plan.size :
              run2 = Joined(run, k) \/ run2 = WithBad(run, k) \/ run2 = WithHeld(run, k) \/ run2 = WithResult(run, k)
         \/ \E phase \in Phases, todo \in SUBSET (1..run.plan.size) : run2 = Begin(run, phase, todo)
         \/ run2 = BeginExec(run)
  PROVE  Workers(run2) = Workers(run) /\ run2 # None
<1>1. Shaped(run2) => run2 # None
  BY RunAssumption DEF Shaped
<1>2. run2.worker = run.worker /\ run2.plan = run.plan => Workers(run2) = Workers(run)
  BY DEF Workers
<1>3. CASE \E k \in run.todo : run2 = [run EXCEPT !.busy = @ \cup {k}]
  BY <1>1, <1>2, <1>3, Acquired
<1>4. ASSUME NEW k \in 1..run.plan.size, run2 = Joined(run, k)
      PROVE  Shaped(run2) /\ run2.worker = run.worker /\ run2.plan = run.plan
  BY <1>4, JoinedOne
<1>5. ASSUME NEW k \in 1..run.plan.size, run2 = WithBad(run, k)
      PROVE  Shaped(run2) /\ run2.worker = run.worker /\ run2.plan = run.plan
  BY <1>5, JoinedBad
<1>6. ASSUME NEW k \in 1..run.plan.size, run2 = WithHeld(run, k)
      PROVE  Shaped(run2) /\ run2.worker = run.worker /\ run2.plan = run.plan
  BY <1>6, JoinedHeld
<1>7. ASSUME NEW k \in 1..run.plan.size, run2 = WithResult(run, k)
      PROVE  Shaped(run2) /\ run2.worker = run.worker /\ run2.plan = run.plan
  BY <1>7, JoinedResult
<1>8. ASSUME NEW phase \in Phases, NEW todo \in SUBSET (1..run.plan.size), run2 = Begin(run, phase, todo)
      PROVE  Shaped(run2) /\ run2.worker = run.worker /\ run2.plan = run.plan
  BY <1>8, Begun
<1>9. CASE run2 = BeginExec(run)
  BY <1>1, <1>2, <1>9, BegunExec
<1> QED BY <1>1, <1>2, <1>3, <1>4, <1>5, <1>6, <1>7, <1>8, <1>9

\* A new worker is one worker more.
LEMMA OneMoreWorker ==
  ASSUME NEW run, Shaped(run), NEW k \in 1..run.plan.size, NEW i \in Ids, run.worker[k] = None,
         NEW run2, run2 = WithWorker(run, k, i)
  PROVE  /\ run2 # None /\ Workers(run) \subseteq Workers(run2)
         /\ Workers(run2) \subseteq Workers(run) \cup {i}
<1>1. /\ Shaped(run2) /\ run2.plan = run.plan /\ run2.worker = [run.worker EXCEPT ![k] = i]
  BY JoinedWorker
<1>2. \A l \in 1..run.plan.size : run2.worker[l] = IF l = k THEN i ELSE run.worker[l]
  BY <1>1 DEF Shaped
<1>3. run2 # None
  BY <1>1, RunAssumption DEF Shaped
<1>4. Workers(run) \subseteq Workers(run2) /\ Workers(run2) \subseteq Workers(run) \cup {i}
  BY <1>1, <1>2 DEF Workers
<1> QED BY <1>3, <1>4

\* A run that goes on keeps its workers, and gains only a new one.  One that is
\* over leaves none without an owner.
LEMMA WorkersKept ==
  ASSUME RunsInv, NEW r \in Runners, OwnStep(r), NewUuids
  PROVE  \/ /\ runs'[r] = None
            /\ Workers(runs[r]) \cap workspaces' \subseteq owned' \cup refused'
         \/ /\ runs'[r] # None /\ Workers(runs[r]) \subseteq Workers(runs'[r])
            /\ Workers(runs'[r]) \subseteq Workers(runs[r]) \cup (workspaces' \ workspaces)
<1> DEFINE run == runs[r]
           run2 == runs'[r]
           Same == Workers(run2) = Workers(run) /\ run2 # None
<1>1. run # None /\ Shaped(run) /\ Sound(run, workspaces, owned, refused, tokens)
  BY OwnRun, RunAt
<1>2. /\ {} \in SUBSET (1..run.plan.size) /\ Usable(run) \in SUBSET (1..run.plan.size)
      /\ Forked(r) \in SUBSET (1..run.plan.size)
      /\ {k \in Forked(r) : Worker(r, k) \in workspaces} \in SUBSET (1..run.plan.size)
  BY DEF Usable, Forked, Tasks
<1>3. /\ "register" \in Phases /\ "env" \in Phases /\ "bridge" \in Phases /\ "merge" \in Phases
      /\ "cleanup" \in Phases /\ "interrupted" \in Phases
  BY DEF Phases
<1>4. /\ run.todo \subseteq 1..run.plan.size /\ run.busy \subseteq 1..run.plan.size
  BY <1>1 DEF Shaped
<1>5. ASSUME NEW phase \in Phases, NEW todo \in SUBSET (1..run.plan.size), run2 = Begin(run, phase, todo)
      PROVE  Same
  BY <1>1, <1>5, SameWorkers
<1>6. ASSUME run2 = BeginExec(run) PROVE Same
  BY <1>1, <1>6, SameWorkers
<1>7. CASE Interrupt(r)
  <2>1. run2 = Begin(run, "interrupted", {k \in Forked(r) : Worker(r, k) \in workspaces})
    BY <1>1, <1>7, RunAt DEF Interrupt
  <2> QED BY <1>2, <1>3, <1>5, <2>1
<1>8. ASSUME NEW k \in Nat, ForkBegins(r, k) \/ ExecBegins(r, k) \/ BridgeToken(r, k) \/ DestroyWorker(r, k)
      PROVE  Same
  <2>1. k \in run.todo /\ run2 = [run EXCEPT !.busy = @ \cup {k}]
    BY <1>1, <1>8, RunAt DEF ForkBegins, ExecBegins, BridgeToken, DestroyWorker, Acquire
  <2> QED BY <1>1, <2>1, SameWorkers
<1>9. ASSUME NEW k \in Nat, ForkFails(r, k) \/ InjectEnv(r, k) \/ BridgeConfigured(r, k)
             \/ ExecEnds(r, k) \/ UnregisterWorker(r, k) \/ DestroyListed(r, k)
      PROVE  Same
  <2>1. k \in 1..run.plan.size
    BY <1>1, <1>4, <1>9 DEF ForkFails, InjectEnv, BridgeConfigured, ExecEnds, UnregisterWorker, DestroyListed
  <2>2. run2 = Joined(run, k) \/ run2 = WithBad(run, k) \/ run2 = WithHeld(run, k) \/ run2 = WithResult(run, k)
    BY <1>1, <1>9, RunAt DEF ForkFails, InjectEnv, BridgeConfigured, ExecEnds, UnregisterWorker, DestroyListed
  <2> QED BY <1>1, <2>1, <2>2, SameWorkers
<1>10. CASE AllForked(r) \/ RegisterWorkers(r) \/ EnvInjected(r) \/ BridgesConfigured(r)
  <2>1. \/ run2 = None /\ Forked(r) = {}
        \/ run2 = BeginExec(run) \/ run2 = Begin(run, "register", {})
        \/ run2 = Begin(run, "env", Forked(r)) \/ run2 = Begin(run, "bridge", Usable(run))
    BY <1>1, <1>10, RunAt DEF AllForked, RegisterWorkers, EnvInjected, BridgesConfigured, BeginBridge, Over
  <2>2. Forked(r) = {} => Workers(run) = {}
    BY DEF Forked, Workers, Worker, Tasks
  <2> QED BY <1>2, <1>3, <1>5, <1>6, <2>1, <2>2
<1>15. \A i \in Workers(run) : i # None /\ \E k \in 1..run.plan.size : i = run.worker[k]
  BY DEF Workers
<1>11. CASE AllExecuted(r) \/ Merge(r)
  <2>1. \/ run2 = None /\ ~run.plan.cleanup
        \/ run2 = Begin(run, "merge", {}) \/ run2 = Begin(run, "cleanup", Forked(r))
    BY <1>1, <1>11, RunAt DEF AllExecuted, Merge, BeginCleanup, Over
  <2>2. CASE ~run.plan.cleanup
    <3>1. /\ workspaces' = workspaces /\ owned' = owned /\ refused' = refused
          /\ run.phase \in {"exec", "merge"}
      BY <1>1, <1>11 DEF AllExecuted, Merge, AllJoined, In, fleetVars
    <3>2. run.plan.kind = "swarm"
      BY <1>1, <2>2, RunFields
    <3> QED BY <1>1, <2>1, <3>1, <3>2, <1>2, <1>3, <1>5, <1>15 DEF Registered, Sound
  <2> QED BY <1>2, <1>3, <1>5, <2>1, <2>2
<1>12. CASE BridgeMissing(r) \/ TargetMissing(r) \/ Answer(r) \/ Interrupted(r)
  <2>1. /\ workspaces' = workspaces /\ owned' = owned /\ refused' = refused /\ run2 = None
        /\ run.phase \in {"bridge", "merge"} \/ (run.phase \in {"cleanup", "interrupted"} /\ run.todo = {})
    BY <1>1, <1>12, RunAt
    DEF BridgeMissing, TargetMissing, Answer, Interrupted, Over, In, AllJoined, fleetVars
  <2>2. CASE run.phase \in {"bridge", "merge"}
    <3>1. run.plan.kind = "swarm"
      BY <1>1, <2>2, RunFields DEF Apart, Sound
    <3> QED BY <1>1, <1>15, <2>1, <2>2, <3>1 DEF Registered, Sound
  <2>3. CASE run.phase \in {"cleanup", "interrupted"} /\ run.todo = {}
    BY <1>1, <1>15, <2>1, <2>3 DEF Cleaned, Sound
  <2> QED BY <2>1, <2>2, <2>3
<1>13. ASSUME NEW k \in Nat, NEW i \in Ids, ForkEnds(r, k, i)
       PROVE  /\ run2 # None /\ Workers(run) \subseteq Workers(run2)
              /\ Workers(run2) \subseteq Workers(run) \cup (workspaces' \ workspaces)
  <2>1. /\ run.phase = "fork" /\ k \in run.busy /\ i \in workspaces' \ workspaces
        /\ run2 = WithWorker(run, k, i)
    BY <1>1, <1>13, RunAt DEF ForkEnds, In, Forks
  <2>2. k \in 1..run.plan.size /\ run.worker[k] = None
    BY <1>1, <2>1 DEF Sound, Shaped, Apart
  <2>3. run2 # None /\ Workers(run) \subseteq Workers(run2) /\ Workers(run2) \subseteq Workers(run) \cup {i}
    <3> HIDE DEF run, run2
    <3> QED BY <1>1, <2>1, <2>2, OneMoreWorker
  <2> QED BY <2>1, <2>3
<1>14. CASE \E k \in Nat :
              \/ ForkBegins(r, k) \/ ForkFails(r, k) \/ \E i \in Ids : ForkEnds(r, k, i)
              \/ InjectEnv(r, k) \/ BridgeToken(r, k) \/ BridgeConfigured(r, k)
              \/ ExecBegins(r, k) \/ ExecEnds(r, k)
              \/ DestroyWorker(r, k) \/ UnregisterWorker(r, k) \/ DestroyListed(r, k)
  BY <1>8, <1>9, <1>13, <1>14
<1> QED BY <1>7, <1>10, <1>11, <1>12, <1>14, OwnCases

-----------------------------------------------------------------------------
(* The calls on teams *)

\* The calls on teams and the entries are well-formed; a creation names the
\* workspace it has forked exactly until it has marked it.
CallsInv ==
  /\ workspaces \subseteq Ids /\ team_id \in [Ids -> Names \cup {None}]
  /\ teams \in [Names -> TeamEntry \cup {None}]
  /\ calls \in [Requests -> Creation \cup Destruction \cup {None}]
  /\ \A t \in Requests : calls[t] \in Creation => (calls[t].at = "mark" <=> calls[t].forked # None)
  /\ \A t \in Requests : calls[t] \in Destruction => calls[t].frames # <<>>

\* A call that goes on, or ends.
CallOK(c) ==
  \/ c = None
  \/ c \in Creation /\ (c.at = "mark" <=> c.forked # None)
  \/ c \in Destruction /\ c.frames # <<>>

\* The two kinds of calls.
LEMMA CallKinds ==
  /\ \A c \in Creation : c # None /\ c.op = "create"
  /\ \A d \in Destruction : d # None /\ d.op = "destroy"
BY CallAssumption DEF Creation, Destruction

\* The first element of a sequence.
LEMMA SeqFirst ==
  ASSUME NEW S, NEW s \in Seq(S), s # <<>>
  PROVE  1 \in 1..Len(s) /\ s[1] \in S
<1>1. Len(s) \in Nat /\ Len(s) # 0 /\ s \in [1..Len(s) -> S]
  BY LenProperties, EmptySeq
<1> QED BY <1>1

\* The frame of a team that exists.
LEMMA FrameType ==
  ASSUME CallsInv, NEW name \in Names, teams[name] # None
  PROVE  Frame(name) \in Frames
<1>1. teams[name] \in TeamEntry
  BY DEF CallsInv
<1>2. teams[name].members \subseteq Ids
  BY <1>1 DEF TeamEntry
<1> QED BY <1>2 DEF Frame, Frames

\* A destroy is inside of some team.
LEMMA DestructionAt ==
  ASSUME CallsInv, NEW t \in Requests, Works(t)
  PROVE  /\ calls[t] \in Destruction /\ calls[t].frames \in Seq(Frames) /\ calls[t].frames # <<>>
         /\ Top(t) \in Frames
<1>1. calls[t] \in Destruction
  BY CallKinds DEF CallsInv, Works
<1>2. calls[t].frames \in Seq(Frames) /\ calls[t].frames # <<>>
  BY <1>1 DEF CallsInv, Destruction
<1>3. calls[t].frames[1] \in Frames
  BY <1>2, SeqFirst
<1> QED BY <1>1, <1>2, <1>3 DEF Top

\* A creation at some place.
LEMMA CreationAt ==
  ASSUME CallsInv, NEW t \in Requests, NEW place, At(t, "create", place)
  PROVE  /\ calls[t] \in Creation /\ calls[t].members \in Seq(Ids) /\ calls[t].name \in Names
         /\ calls[t].at = place /\ (place = "mark" <=> calls[t].forked # None)
<1>1. calls[t] \in Creation
  BY CallKinds DEF CallsInv, At
<1> QED BY <1>1 DEF CallsInv, At, Creation

\* A step of a team call touches one call, which stays well-formed.
LEMMA TeamCall ==
  ASSUME CallsInv, NEW t \in Requests,
         \/ \E o \in Orders : CreateTeam(t, o.name, o.parent, o.roles)
         \/ \E n \in Names : DestroyTeam(t, n)
         \/ Proceed(t)
  PROVE  CallOK(calls'[t]) /\ calls' = [calls EXCEPT ![t] = calls'[t]]
<1>0. /\ \A v : [calls EXCEPT ![t] = v][t] = v
      /\ \A v : [calls EXCEPT ![t] = v] = [calls EXCEPT ![t] = [calls EXCEPT ![t] = v][t]]
  BY DEF CallsInv
<1>1. ASSUME NEW o \in Orders, CreateTeam(t, o.name, o.parent, o.roles)
      PROVE  CallOK(calls'[t]) /\ calls' = [calls EXCEPT ![t] = calls'[t]]
  <2>1. /\ o.name \in Names /\ o.parent \in Names \cup {None} /\ o.roles \in Nat \ {0}
    BY TeamsAssumption
  <2>2. (IF o.parent = None THEN 0 ELSE teams[o.parent].depth + 1) \in Nat
    <3>1. CASE o.parent = None
      BY <3>1
    <3>2. CASE o.parent # None
      <4>1. teams[o.parent] \in TeamEntry
        BY <1>1, <2>1, <3>2 DEF CreateTeam, CallsInv
      <4> QED BY <3>2, <4>1 DEF TeamEntry
    <3> QED BY <3>1, <3>2
  <2> DEFINE c == [op |-> "create", at |-> "register", name |-> o.name, parent |-> o.parent,
                   depth |-> IF o.parent = None THEN 0 ELSE teams[o.parent].depth + 1,
                   roles |-> o.roles, members |-> <<>>, forked |-> None]
  <2>3. c \in Creation /\ c.at # "mark" /\ c.forked = None
    BY <2>1, <2>2 DEF Creation
  <2>4. calls' = [calls EXCEPT ![t] = c]
    BY <1>1 DEF CreateTeam
  <2> HIDE DEF c
  <2> QED BY <1>0, <2>3, <2>4 DEF CallOK
<1>2. ASSUME NEW n \in Names, DestroyTeam(t, n)
      PROVE  CallOK(calls'[t]) /\ calls' = [calls EXCEPT ![t] = calls'[t]]
  <2> DEFINE c == [op |-> "destroy", frames |-> <<Frame(n)>>]
  <2>1. Frame(n) \in Frames
    BY <1>2, FrameType DEF DestroyTeam
  <2>2. c \in Destruction /\ c.frames # <<>>
    BY <2>1 DEF Destruction
  <2>3. calls' = [calls EXCEPT ![t] = c]
    BY <1>2 DEF DestroyTeam
  <2> HIDE DEF c
  <2> QED BY <1>0, <2>2, <2>3 DEF CallOK
<1>3. ASSUME Returns(t) PROVE CallOK(calls'[t]) /\ calls' = [calls EXCEPT ![t] = calls'[t]]
  BY <1>0, <1>3 DEF Returns, CallOK
<1>4. ASSUME NEW c, CallOK(c), calls' = [calls EXCEPT ![t] = c]
      PROVE  CallOK(calls'[t]) /\ calls' = [calls EXCEPT ![t] = calls'[t]]
  BY <1>0, <1>4
<1>5. CASE RegisterTeam(t) \/ ForkMemberFails(t)
  <2>1. PICK place \in {"fork", "rollback"} : Goes(t, place)
    BY <1>5 DEF RegisterTeam, ForkMemberFails
  <2>2. calls[t] \in Creation /\ calls[t].forked = None
    BY <1>5, CreationAt DEF RegisterTeam, ForkMemberFails
  <2> DEFINE c == [calls[t] EXCEPT !.at = place]
  <2>3. CallOK(c)
    BY <2>2 DEF CallOK, Creation
  <2>4. calls' = [calls EXCEPT ![t] = c]
    BY <2>1 DEF Goes
  <2> HIDE DEF c
  <2> QED BY <1>4, <2>3, <2>4
<1>6. ASSUME NEW i \in Ids, ForkMember(t, i)
      PROVE  CallOK(calls'[t]) /\ calls' = [calls EXCEPT ![t] = calls'[t]]
  <2>1. calls[t] \in Creation /\ i # None
    BY <1>6, CreationAt, FleetAssumption DEF ForkMember
  <2> DEFINE c == [calls[t] EXCEPT !.at = "mark", !.forked = i]
  <2>2. CallOK(c)
    BY <2>1 DEF CallOK, Creation
  <2>3. calls' = [calls EXCEPT ![t] = c]
    BY <1>6 DEF ForkMember
  <2> HIDE DEF c
  <2> QED BY <1>4, <2>2, <2>3
<1>7. CASE MarkMember(t)
  <2>1. calls[t] \in Creation /\ calls[t].members \in Seq(Ids) /\ calls[t].forked # None
    BY <1>7, CreationAt DEF MarkMember
  <2>2. calls[t].forked \in Ids
    BY <2>1 DEF Creation
  <2>3. Append(calls[t].members, calls[t].forked) \in Seq(Ids)
    BY <2>1, <2>2
  <2> DEFINE c == [calls[t] EXCEPT !.at = "fork", !.forked = None,
                                   !.members = Append(calls[t].members, calls[t].forked)]
  <2>4. CallOK(c)
    BY <2>1, <2>3 DEF CallOK, Creation
  <2>5. Returns(t) \/ calls' = [calls EXCEPT ![t] = c]
    BY <1>7 DEF MarkMember
  <2> HIDE DEF c
  <2> QED BY <1>3, <1>4, <2>4, <2>5
<1>8. CASE RollBack(t)
  <2>1. calls[t] \in Creation /\ calls[t].members \in Seq(Ids) /\ calls[t].forked = None
        /\ calls[t].at = "rollback"
    BY <1>8, CreationAt DEF RollBack
  <2>2. calls[t].members # <<>> => Tail(calls[t].members) \in Seq(Ids)
    BY <2>1
  <2> DEFINE c == [calls[t] EXCEPT !.members = Tail(calls[t].members)]
  <2>3. calls[t].members # <<>> => CallOK(c)
    BY <2>1, <2>2 DEF CallOK, Creation
  <2>4. Returns(t) \/ (calls[t].members # <<>> /\ calls' = [calls EXCEPT ![t] = c])
    BY <1>8 DEF RollBack
  <2> HIDE DEF c
  <2> QED BY <1>3, <1>4, <2>3, <2>4
<1>9. CASE TeamReady(t)
  BY <1>3, <1>9 DEF TeamReady
<1>10. ASSUME NEW frame \in Frames, Works(t), Updates(t, frame)
       PROVE  CallOK(calls'[t]) /\ calls' = [calls EXCEPT ![t] = calls'[t]]
  <2> DEFINE c == [calls[t] EXCEPT !.frames[1] = frame]
  <2>1. calls[t] \in Destruction /\ calls[t].frames \in Seq(Frames) /\ calls[t].frames # <<>>
    BY <1>10, DestructionAt
  <2>2. [calls[t].frames EXCEPT ![1] = frame] \in Seq(Frames)
    BY <1>10, <2>1, ExceptSeq
  <2>3. [calls[t].frames EXCEPT ![1] = frame] # <<>>
    BY <2>1
  <2>4. CallOK(c)
    BY <2>1, <2>2, <2>3 DEF CallOK, Destruction
  <2>5. calls' = [calls EXCEPT ![t] = c]
    BY <1>10 DEF Updates
  <2> HIDE DEF c
  <2> QED BY <1>4, <2>4, <2>5
<1>11. ASSUME NEW child \in Names, Cascade(t, child)
       PROVE  CallOK(calls'[t]) /\ calls' = [calls EXCEPT ![t] = calls'[t]]
  <2>1. calls[t] \in Destruction /\ calls[t].frames \in Seq(Frames) /\ calls[t].frames # <<>> /\ Top(t) \in Frames
    BY <1>11, DestructionAt DEF Cascade
  <2> DEFINE rest == [Top(t) EXCEPT !.children = @ \ {child}]
             below == <<rest>> \o Tail(calls[t].frames)
             frames == IF teams[child] = None THEN below ELSE <<Frame(child)>> \o below
             c == [calls[t] EXCEPT !.frames = frames]
  <2>2. rest \in Frames
    BY <2>1 DEF Frames
  <2>3. Tail(calls[t].frames) \in Seq(Frames)
    BY <2>1
  <2> HIDE DEF rest
  <2>4. below \in Seq(Frames) /\ below # <<>>
    BY <2>2, <2>3
  <2>5. teams[child] # None => Frame(child) \in Frames
    BY FrameType
  <2> HIDE DEF below
  <2>6. frames \in Seq(Frames) /\ frames # <<>>
    BY <2>4, <2>5
  <2>7. calls' = [calls EXCEPT ![t] = c]
    BY <1>11 DEF Cascade, rest, below
  <2> HIDE DEF frames
  <2>8. CallOK(c)
    BY <2>1, <2>6 DEF CallOK, Destruction
  <2> HIDE DEF c
  <2> QED BY <1>4, <2>7, <2>8
<1>12. CASE UnregisterTeam(t) \/ \E i \in Ids : DestroyMember(t, i)
  <2>1. Works(t) /\ Top(t) \in Frames
    BY <1>12, DestructionAt DEF UnregisterTeam, DestroyMember
  <2>2. PICK frame \in Frames : Updates(t, frame)
    BY <1>12, <2>1 DEF UnregisterTeam, DestroyMember, Frames
  <2> QED BY <1>10, <2>1, <2>2
<1>13. CASE RemoveTeam(t)
  <2>1. calls[t] \in Destruction /\ calls[t].frames \in Seq(Frames) /\ calls[t].frames # <<>>
    BY <1>13, DestructionAt DEF RemoveTeam
  <2> DEFINE c == [calls[t] EXCEPT !.frames = Tail(calls[t].frames)]
  <2>2. Len(calls[t].frames) # 1 => Tail(calls[t].frames) \in Seq(Frames) /\ Tail(calls[t].frames) # <<>>
    <3>1. Tail(calls[t].frames) \in Seq(Frames) /\ Len(Tail(calls[t].frames)) = Len(calls[t].frames) - 1
      BY <2>1, HeadTailProperties
    <3>2. Len(calls[t].frames) \in Nat \ {0} /\ Len(<<>>) = 0
      BY <2>1, EmptySeq
    <3>3. Len(calls[t].frames) # 1 => Len(Tail(calls[t].frames)) # 0
      BY <3>1, <3>2
    <3>4. Tail(calls[t].frames) = <<>> => Len(Tail(calls[t].frames)) = 0
      BY <3>2
    <3> QED BY <3>1, <3>3, <3>4
  <2>3. Len(calls[t].frames) # 1 => CallOK(c)
    BY <2>1, <2>2 DEF CallOK, Destruction
  <2>4. calls' = [calls EXCEPT ![t] = IF Len(calls[t].frames) = 1 THEN None ELSE c]
    BY <1>13 DEF RemoveTeam
  <2> HIDE DEF c
  <2> QED BY <1>4, <2>3, <2>4 DEF CallOK
<1> QED
  BY <1>1, <1>2, <1>5, <1>6, <1>7, <1>8, <1>9, <1>11, <1>12, <1>13 DEF Proceed, TeamStep

\* A creation that has forked a workspace and not marked it yet.
Holding(t, i) == calls[t] # None /\ calls[t].op = "create" /\ calls[t].forked = i

\* What a team call does to the workspaces: it destroys some, and what it forks
\* it holds until it has marked it.
Tended(t) ==
  /\ workspaces' \subseteq Ids /\ team_id' \in [Ids -> Names \cup {None}]
  /\ \A i \in workspaces' :
       \/ i \notin workspaces /\ Holding(t, i)'
       \/ /\ i \in workspaces /\ (team_id[i] # None => team_id'[i] # None)
          /\ Holding(t, i) => Holding(t, i)' \/ team_id'[i] # None

\* No call but a creation that is about to mark holds a workspace.
LEMMA NotHolding ==
  ASSUME CallsInv, NEW t \in Requests, NEW i \in Ids,
         \/ calls[t] = None \/ Works(t)
         \/ At(t, "create", "register") \/ At(t, "create", "fork") \/ At(t, "create", "rollback")
  PROVE  ~Holding(t, i)
BY CreationAt, FleetAssumption DEF Holding, Works, At

\* A destroy tends.
LEMMA DestroysTended ==
  ASSUME CallsInv, NEW t \in Requests, NEW i, Destroys(i), \A j \in Ids : ~Holding(t, j)
  PROVE  Tended(t)
<1>1. /\ workspaces' = workspaces \ {i} /\ workspaces \subseteq Ids
      /\ team_id' = [team_id EXCEPT ![i] = None] /\ team_id \in [Ids -> Names \cup {None}]
  BY DEF Destroys, CallsInv
<1>2. team_id' \in [Ids -> Names \cup {None}]
  BY <1>1
<1>3. \A j \in Ids : j # i => team_id'[j] = team_id[j]
  BY <1>1
<1> QED BY <1>1, <1>2, <1>3 DEF Tended

\* So does a step that leaves the workspaces alone.
LEMMA QuietTended ==
  ASSUME CallsInv, NEW t \in Requests, UNCHANGED fleetVars, \A j \in Ids : ~Holding(t, j)
  PROVE  Tended(t)
BY DEF Tended, CallsInv, fleetVars

\* So does every step on a team.
LEMMA TeamTended ==
  ASSUME CallsInv, NEW t \in Requests,
         \/ \E o \in Orders : CreateTeam(t, o.name, o.parent, o.roles)
         \/ \E n \in Names : DestroyTeam(t, n)
         \/ Proceed(t)
  PROVE  Tended(t)
<1>1. CASE \/ \E o \in Orders : CreateTeam(t, o.name, o.parent, o.roles)
           \/ \E n \in Names : DestroyTeam(t, n)
  <2>1. calls[t] = None /\ UNCHANGED fleetVars
    BY <1>1 DEF CreateTeam, DestroyTeam
  <2> QED BY <2>1, NotHolding, QuietTended
<1>2. CASE RegisterTeam(t) \/ ForkMemberFails(t) \/ TeamReady(t)
  <2>1. /\ UNCHANGED fleetVars
        /\ At(t, "create", "register") \/ At(t, "create", "fork")
    BY <1>2 DEF RegisterTeam, ForkMemberFails, TeamReady
  <2> QED BY <2>1, NotHolding, QuietTended
<1>3. ASSUME NEW i \in Ids, ForkMember(t, i) PROVE Tended(t)
  <2>1. /\ workspaces' = workspaces \cup {i} /\ team_id' = team_id /\ i \notin workspaces
        /\ calls[t] \in Creation /\ calls' = [calls EXCEPT ![t].at = "mark", ![t].forked = i]
    BY <1>3, CreationAt DEF ForkMember, Forks
  <2> DEFINE c == [calls[t] EXCEPT !.at = "mark", !.forked = i]
  <2>2. c \in Creation /\ c.forked = i
    BY <2>1 DEF Creation
  <2>3. calls'[t] = c
    BY <2>1 DEF CallsInv
  <2> HIDE DEF c
  <2>4. Holding(t, i)'
    BY <2>2, <2>3, CallKinds DEF Holding
  <2>5. \A j \in Ids : ~Holding(t, j)
    BY <1>3, NotHolding DEF ForkMember
  <2> QED BY <2>1, <2>4, <2>5 DEF Tended, CallsInv
<1>4. CASE MarkMember(t)
  <2> DEFINE c == calls[t]
  <2>1. c \in Creation /\ c.name \in Names /\ c.forked # None
    BY <1>4, CreationAt DEF MarkMember
  <2>2. c.forked \in Ids /\ workspaces' = workspaces /\ c.name # None
    BY <1>4, <2>1, TeamsAssumption DEF MarkMember, Creation
  <2>3. CASE c.forked \in workspaces
    <3>1. team_id' = [team_id EXCEPT ![c.forked] = c.name]
      BY <1>4, <2>3 DEF MarkMember, Mark
    <3> HIDE DEF c
    <3>2. /\ team_id' \in [Ids -> Names \cup {None}] /\ team_id'[c.forked] # None
          /\ \A j \in Ids : j # c.forked => team_id'[j] = team_id[j]
      BY <2>1, <2>2, <3>1 DEF CallsInv
    <3> QED BY <2>2, <3>2 DEF Tended, CallsInv, Holding, c
  <2>4. CASE c.forked \notin workspaces
    <3>1. team_id' = team_id
      BY <1>4, <2>4 DEF MarkMember
    <3> QED BY <2>2, <2>4, <3>1 DEF Tended, CallsInv, Holding
  <2> QED BY <2>3, <2>4
<1>5. CASE RollBack(t)
  <2>1. At(t, "create", "rollback") /\ (UNCHANGED fleetVars \/ Destroys(Head(calls[t].members)))
    BY <1>5 DEF RollBack
  <2> QED BY <2>1, NotHolding, QuietTended, DestroysTended
<1>6. ASSUME NEW i \in Ids, DestroyMember(t, i) PROVE Tended(t)
  BY <1>6, NotHolding, DestroysTended DEF DestroyMember
<1>7. CASE (\E n \in Names : Cascade(t, n)) \/ UnregisterTeam(t) \/ RemoveTeam(t)
  <2>1. Works(t) /\ UNCHANGED fleetVars
    BY <1>7 DEF Cascade, UnregisterTeam, RemoveTeam
  <2> QED BY <2>1, NotHolding, QuietTended
<1> QED BY <1>1, <1>2, <1>3, <1>4, <1>5, <1>6, <1>7 DEF Proceed, TeamStep

\* The entries of the teams stay what they are.
LEMMA TeamEntries ==
  ASSUME CallsInv, NEW t \in Requests,
         \/ \E o \in Orders : CreateTeam(t, o.name, o.parent, o.roles)
         \/ \E n \in Names : DestroyTeam(t, n)
         \/ Proceed(t)
  PROVE  teams' \in [Names -> TeamEntry \cup {None}]
<1>1. CASE teams' = teams
  BY <1>1 DEF CallsInv
<1>2. ASSUME calls[t] \in Creation, NEW state \in {"Creating", "Ready"}, NEW members \in SUBSET Ids,
             teams' = [teams EXCEPT ![calls[t].name] = Entry(calls[t], state, members)]
      PROVE  teams' \in [Names -> TeamEntry \cup {None}]
  <2>1. Entry(calls[t], state, members) \in TeamEntry
    BY <1>2 DEF Entry, TeamEntry, Creation
  <2> QED BY <1>2, <2>1 DEF CallsInv
<1>3. CASE RegisterTeam(t)
  <2>1. calls[t] \in Creation /\ {} \in SUBSET Ids
    BY <1>3, CreationAt DEF RegisterTeam
  <2> QED BY <1>2, <1>3, <2>1 DEF RegisterTeam
<1>4. CASE TeamReady(t)
  <2>1. calls[t] \in Creation /\ calls[t].members \in Seq(Ids)
    BY <1>4, CreationAt DEF TeamReady
  <2>2. Range(calls[t].members) \in SUBSET Ids
    BY <2>1 DEF Range
  <2> QED BY <1>2, <1>4, <2>1, <2>2 DEF TeamReady
<1>5. CASE RollBack(t) \/ RemoveTeam(t)
  <2>1. \/ teams' = teams
        \/ \E n : teams' = [teams EXCEPT ![n] = None]
    BY <1>5 DEF RollBack, RemoveTeam
  <2> QED BY <2>1 DEF CallsInv
<1>6. CASE \/ \E o \in Orders : CreateTeam(t, o.name, o.parent, o.roles)
           \/ \E n \in Names : DestroyTeam(t, n)
  BY <1>1, <1>6 DEF CreateTeam, DestroyTeam
<1>7. CASE \/ \E i \in Ids : ForkMember(t, i) \/ DestroyMember(t, i)
           \/ \E n \in Names : Cascade(t, n)
           \/ ForkMemberFails(t) \/ MarkMember(t) \/ UnregisterTeam(t)
  BY <1>1, <1>7 DEF ForkMember, DestroyMember, Cascade, ForkMemberFails, MarkMember, UnregisterTeam
<1> QED BY <1>3, <1>4, <1>5, <1>6, <1>7 DEF Proceed, TeamStep

-----------------------------------------------------------------------------
(* The runs among the others *)

\* What a run takes or gives it takes or gives for its own workers; what it
\* gives back is gone.
LEMMA OwnEffects ==
  ASSUME RunsInv, CallsInv, NEW r \in Runners, OwnStep(r)
  PROVE  /\ owned' \ owned \subseteq Workers(runs[r])
         /\ tokens' \ tokens \subseteq Workers(runs[r]) \cup {None}
         /\ (owned \cup refused) \cap workspaces' \subseteq owned' \cup refused'
         /\ workspaces' \subseteq Ids /\ team_id' \in [Ids -> Names \cup {None}]
         /\ \A i \in workspaces' \cap workspaces : team_id'[i] = team_id[i]
         /\ workspaces' \subseteq workspaces \/ \E k \in Nat, i \in Ids : ForkEnds(r, k, i)
<1> DEFINE run == runs[r]
           Quiet1 == UNCHANGED <<owned, refused, tokens>>
           Goal == /\ owned' \ owned \subseteq Workers(run)
                   /\ tokens' \ tokens \subseteq Workers(run) \cup {None}
                   /\ (owned \cup refused) \cap workspaces' \subseteq owned' \cup refused'
                   /\ workspaces' \subseteq Ids /\ team_id' \in [Ids -> Names \cup {None}]
                   /\ \A i \in workspaces' \cap workspaces : team_id'[i] = team_id[i]
                   /\ workspaces' \subseteq workspaces \/ \E k \in Nat, i \in Ids : ForkEnds(r, k, i)
<1>1. run # None /\ Sound(run, workspaces, owned, refused, tokens) /\ Shaped(run)
  BY OwnRun, RunAt
<1>2. workspaces \subseteq Ids /\ team_id \in [Ids -> Names \cup {None}] /\ None \notin workspaces
  BY FleetAssumption DEF CallsInv
<1>3. ASSUME UNCHANGED <<fleetVars, owned, refused>>, tokens' \ tokens \subseteq Workers(run) \cup {None}
      PROVE  Goal
  BY <1>2, <1>3 DEF fleetVars
<1>4. ASSUME NEW i, Destroys(i), Quiet1 PROVE Goal
  <2>1. workspaces' = workspaces \ {i} /\ team_id' = [team_id EXCEPT ![i] = None]
    BY <1>4 DEF Destroys
  <2>2. team_id' \in [Ids -> Names \cup {None}] /\ \A j \in Ids : j # i => team_id'[j] = team_id[j]
    BY <1>2, <2>1
  <2> QED BY <1>2, <1>4, <2>1, <2>2
<1>5. ASSUME NEW k \in Nat, NEW i \in Ids, ForkEnds(r, k, i) PROVE Goal
  BY <1>2, <1>5 DEF ForkEnds, Forks
<1>6. ASSUME NEW k \in Nat, BridgeToken(r, k) PROVE Goal
  <2>1. k \in 1..run.plan.size
    BY <1>1, <1>6 DEF BridgeToken, Shaped
  <2>2. run.worker[k] \in Workers(run) \cup {None}
    BY <2>1 DEF Workers
  <2>3. tokens' = tokens \cup {run.worker[k]} /\ UNCHANGED <<fleetVars, owned, refused>>
    BY <1>6 DEF BridgeToken, Worker
  <2> HIDE DEF run
  <2>4. tokens' \ tokens \subseteq Workers(run) \cup {None}
    BY <2>2, <2>3
  <2> QED BY <1>3, <2>3, <2>4
<1>7. ASSUME NEW k \in Nat, UnregisterWorker(r, k) PROVE Goal
  <2>1. k \in 1..run.plan.size /\ run.phase = "cleanup" /\ k \in run.busy
    BY <1>1, <1>7 DEF UnregisterWorker, In, Shaped
  <2>2. run.worker[k] \notin workspaces
    BY <1>1, <1>2, <2>1 DEF Cleaned, Sound
  <2> QED BY <1>2, <1>7, <2>2 DEF UnregisterWorker, fleetVars, Worker
<1>8. ASSUME RegisterWorkers(r) PROVE Goal
  BY <1>1, <1>2, <1>8, WorkersOfARun DEF RegisterWorkers, fleetVars
<1>9. ASSUME AllExecuted(r) \/ Merge(r) PROVE Goal
  <2>1. UNCHANGED <<fleetVars, owned, refused>> /\ tokens' \subseteq tokens
    BY <1>9 DEF AllExecuted, Merge, BeginCleanup
  <2> QED BY <1>3, <2>1
<1>10. ASSUME \/ Interrupt(r) \/ AllForked(r) \/ EnvInjected(r) \/ BridgeMissing(r) \/ BridgesConfigured(r)
              \/ TargetMissing(r) \/ Answer(r) \/ Interrupted(r)
       PROVE  Goal
  <2>1. UNCHANGED <<fleetVars, owned, refused>> /\ tokens' = tokens
    BY <1>10 DEF Interrupt, AllForked, EnvInjected, BridgeMissing, BridgesConfigured, TargetMissing,
                 Answer, Interrupted
  <2> QED BY <1>3, <2>1
<1>11. ASSUME NEW k \in Nat, \/ ForkBegins(r, k) \/ ForkFails(r, k) \/ InjectEnv(r, k) \/ BridgeConfigured(r, k)
              \/ ExecBegins(r, k) \/ ExecEnds(r, k)
       PROVE  Goal
  <2>1. UNCHANGED <<fleetVars, owned, refused>> /\ tokens' = tokens
    BY <1>11 DEF ForkBegins, ForkFails, InjectEnv, BridgeConfigured, ExecBegins, ExecEnds
  <2> QED BY <1>3, <2>1
<1>12. ASSUME NEW k \in Nat, DestroyWorker(r, k) \/ DestroyListed(r, k) PROVE Goal
  <2>1. Destroys(Worker(r, k)) /\ Quiet1
    BY <1>12 DEF DestroyWorker, DestroyListed
  <2> QED BY <1>4, <2>1
<1> HIDE DEF Goal
<1>13. Goal
  BY <1>5, <1>6, <1>7, <1>8, <1>9, <1>10, <1>11, <1>12, OwnCases
<1> QED BY <1>13 DEF Goal

\* New uuids are not those of workers.
LEMMA NewWorkers ==
  ASSUME NewUuids, NEW r \in Runners, runs[r] # None
  PROVE  (workspaces' \ workspaces) \cap Workers(runs[r]) = {}
<1>1. WorkersOf(r) = Workers(runs[r]) /\ WorkersOf(r) \subseteq Known
  BY WorkersOfARun DEF Known
<1> QED BY <1>1 DEF NewUuids

\* A step of a run keeps all the runs sound: its own by the step, the others
\* because it does nothing to their workers.
LEMMA OwnStepKeepsRuns ==
  ASSUME RunsInv, CallsInv, NEW r \in Runners, OwnStep(r), NewUuids
  PROVE  RunsInv'
<1> DEFINE run == runs[r]
           run2 == runs'[r]
<1>1. run # None /\ runs' = [runs EXCEPT ![r] = run2] /\ SoundNext(r)
  BY OwnRun, OwnSound
<1>2. \A s \in Runners : s # r => runs'[s] = runs[s]
  BY <1>1 DEF RunsInv
<1>3. runs' \in [Runners -> Run \cup {None}]
  BY <1>1 DEF RunsInv, SoundNext, Sound, Shaped
<1>4. \A s, q \in Runners : s # q => WorkersOf(s) \cap WorkersOf(q) = {}
  BY DEF RunsInv
<1>5. \A s \in Runners : runs[s] # None => WorkersOf(s) = Workers(runs[s])
  BY WorkersOfARun
<1>6. \A s \in Runners : None \notin WorkersOf(s)
  BY DEF WorkersOf, Forked
<1>7. ASSUME NEW s \in Runners, runs'[s] # None
      PROVE  Sound(runs'[s], workspaces', owned', refused', tokens')
  <2>1. CASE s = r
    BY <1>1, <1>7, <2>1 DEF SoundNext
  <2>2. CASE s # r
    <3>1. runs'[s] = runs[s] /\ Sound(runs[s], workspaces, owned, refused, tokens)
      BY <1>2, <1>7, <2>2, RunAt
    <3>2. Workers(run) \cap Workers(runs[s]) = {} /\ None \notin Workers(runs[s])
      BY <1>1, <1>4, <1>5, <1>6, <1>7, <2>2, <3>1
    <3>3. (workspaces' \ workspaces) \cap Workers(runs[s]) = {}
      BY <1>7, <3>1, NewWorkers
    <3>4. (owned' \ owned) \cap Workers(runs[s]) = {} /\ (tokens' \ tokens) \cap Workers(runs[s]) = {}
      BY <3>2, OwnEffects
    <3>5. (owned \cup refused) \cap workspaces' \subseteq owned' \cup refused'
      BY OwnEffects
    <3> QED BY <3>1, <3>3, <3>4, <3>5, Elsewhere
  <2> QED BY <2>1, <2>2
<1>8. \A s \in Runners : WorkersOf(s)' = IF runs'[s] = None THEN {} ELSE Workers(runs'[s])
  BY DEF WorkersOf, Forked, Worker, Tasks, Workers
<1>9. \A s \in Runners : s # r => WorkersOf(s)' = WorkersOf(s)
  BY <1>2 DEF WorkersOf, Forked, Worker, Tasks
<1>10. WorkersOf(r)' \subseteq WorkersOf(r) \cup (workspaces' \ workspaces)
  BY <1>1, <1>5, <1>8, WorkersKept
<1>11. \A s \in Runners : WorkersOf(s) \cap (workspaces' \ workspaces) = {}
  BY <1>5, NewWorkers DEF WorkersOf
<1>12. ASSUME NEW s \in Runners, NEW q \in Runners, s # q
       PROVE  WorkersOf(s)' \cap WorkersOf(q)' = {}
  <2>1. WorkersOf(s) \cap WorkersOf(q) = {}
    BY <1>4, <1>12
  <2>2. CASE s = r
    BY <1>9, <1>10, <1>11, <1>12, <2>1, <2>2
  <2>3. CASE q = r
    BY <1>9, <1>10, <1>11, <1>12, <2>1, <2>3
  <2>4. CASE s # r /\ q # r
    BY <1>9, <2>1, <2>4
  <2> QED BY <2>2, <2>3, <2>4
<1> QED BY <1>3, <1>7, <1>12 DEF RunsInv

\* So are the steps of everybody else, who neither charge workspaces nor give
\* out tokens.
LEMMA OthersKeepRuns ==
  ASSUME RunsInv, UNCHANGED <<runs, tokens>>, owned' \subseteq owned,
         (workspaces' \ workspaces) \cap Known = {},
         (owned \cup refused) \cap workspaces' \subseteq owned' \cup refused'
  PROVE  RunsInv'
<1>1. \A s \in Runners : WorkersOf(s)' = WorkersOf(s)
  BY DEF WorkersOf, Forked, Worker, Tasks
<1>2. ASSUME NEW s \in Runners, runs[s] # None
      PROVE  Sound(runs[s], workspaces', owned', refused', tokens')
  <2>1. Sound(runs[s], workspaces, owned, refused, tokens)
    BY <1>2, RunAt
  <2>2. (workspaces' \ workspaces) \cap Workers(runs[s]) = {}
    BY <1>2, NewWorkers DEF NewUuids
  <2>3. (owned' \ owned) \cap Workers(runs[s]) = {} /\ (tokens' \ tokens) \cap Workers(runs[s]) = {}
    OBVIOUS
  <2> QED BY <2>1, <2>2, <2>3, Elsewhere
<1> QED BY <1>1, <1>2 DEF RunsInv

\* A new run has no worker yet.
LEMMA StartKeepsRuns ==
  ASSUME RunsInv, NEW r \in Runners, StartRun(r)
  PROVE  RunsInv' /\ runs[r] = None /\ UNCHANGED <<fleetVars, owned, refused, tokens, teamVars>>
         /\ \A s \in Runners : WorkersOf(s)' = WorkersOf(s)
<1>1. PICK plan \in Plans : Start(r, plan)
  BY DEF StartRun
<1> DEFINE run2 == [plan |-> plan, phase |-> "fork", todo |-> 1..plan.size, busy |-> {},
        worker |-> [k \in 1..plan.size |-> None], bad |-> {}, held |-> {},
        results |-> [k \in 1..plan.size |-> 0]]
<1>2. runs[r] = None /\ runs' = [runs EXCEPT ![r] = run2] /\ UNCHANGED <<fleetVars, owned, refused, tokens>>
  BY <1>1 DEF Start
<1>3. plan.size \in Nat /\ 1..plan.size \subseteq Nat
  BY SwarmAssumption
<1> DEFINE worker == [k \in 1..plan.size |-> None]
           results == [k \in 1..plan.size |-> 0]
<1>4. worker \in [1..plan.size -> Ids \cup {None}] /\ results \in [1..plan.size -> Nat]
  OBVIOUS
<1>5. worker \in Seq(Ids \cup {None}) /\ results \in Seq(Nat)
  BY <1>3, <1>4, AsASequence
<1>6. \A k \in 1..plan.size : worker[k] = None
  OBVIOUS
<1>7. run2 = [plan |-> plan, phase |-> "fork", todo |-> 1..plan.size, busy |-> {},
        worker |-> worker, bad |-> {}, held |-> {}, results |-> results]
  OBVIOUS
<1> HIDE DEF worker, results, run2
<1>8. /\ run2 \in Run /\ run2.plan = plan /\ run2.phase = "fork" /\ run2.todo = 1..plan.size
      /\ run2.busy = {} /\ run2.worker = worker /\ run2.bad = {} /\ run2.held = {} /\ run2.results = results
  BY <1>3, <1>5, <1>7 DEF Run, Phases
<1>9. Shaped(run2)
  BY <1>4, <1>8 DEF Shaped
<1>10. Sound(run2, workspaces', owned', refused', tokens') /\ Workers(run2) = {}
  BY <1>6, <1>8, <1>9 DEF Sound, Apart, Counted, Registered, Revoked, Cleaned, Workers
<1>11. \A s \in Runners : runs'[s] = IF s = r THEN run2 ELSE runs[s]
  BY <1>2 DEF RunsInv
<1>12. runs' \in [Runners -> Run \cup {None}]
  BY <1>2, <1>8 DEF RunsInv
<1>13. \A s \in Runners : WorkersOf(s)' = WorkersOf(s)
  <2>1. \A s \in Runners : /\ WorkersOf(s)' = IF runs'[s] = None THEN {} ELSE Workers(runs'[s])
                           /\ WorkersOf(s) = IF runs[s] = None THEN {} ELSE Workers(runs[s])
    BY DEF WorkersOf, Forked, Worker, Tasks, Workers
  <2> QED BY <1>2, <1>10, <1>11, <2>1
<1>14. \A s \in Runners : runs'[s] # None => Sound(runs'[s], workspaces', owned', refused', tokens')
  BY <1>2, <1>10, <1>11, RunAt DEF fleetVars
<1> QED BY <1>2, <1>12, <1>13, <1>14 DEF RunsInv, StartRun

-----------------------------------------------------------------------------
(* The invariant and the theorems *)

\* What accounts for a workspace: the members a call has collected are marked
\* already, and what a destroy works on is.
Accounted(i) ==
  \/ i \in owned \cup refused
  \/ team_id[i] # None
  \/ \E t \in Requests : Holding(t, i)
  \/ \E r \in Runners : i \in WorkersOf(r)

\* The invariant.
FleetInv == RunsInv /\ CallsInv /\ \A i \in workspaces : Accounted(i)

\* It holds at the start.
LEMMA InitFleetInv == Init => FleetInv
<1> SUFFICES ASSUME Init PROVE FleetInv
  OBVIOUS
<1> USE DEF Init, FleetInit, TeamsInit, SwarmInit
<1>1. \A r \in Runners : runs[r] = None /\ WorkersOf(r) = {}
  BY DEF WorkersOf
<1>2. RunsInv
  BY <1>1 DEF RunsInv
<1>3. CallsInv
  <2>1. \A t \in Requests : calls[t] = None /\ None \notin Creation /\ None \notin Destruction
    BY CallAssumption
  <2> QED BY <2>1 DEF CallsInv
<1> QED BY <1>2, <1>3 DEF FleetInv

\* A step on a team.
LEMMA TeamKeepsInv ==
  ASSUME FleetInv, NEW t \in Requests, Teamwork,
         \/ \E o \in Orders : CreateTeam(t, o.name, o.parent, o.roles)
         \/ \E n \in Names : DestroyTeam(t, n)
         \/ Proceed(t)
  PROVE  FleetInv'
<1>1. RunsInv /\ CallsInv /\ NewUuids /\ UNCHANGED <<runs, owned, refused, tokens>>
  BY DEF FleetInv, Teamwork, swarmVars
<1>2. Tended(t) /\ CallOK(calls'[t]) /\ calls' = [calls EXCEPT ![t] = calls'[t]]
      /\ teams' \in [Names -> TeamEntry \cup {None}]
  BY <1>1, TeamTended, TeamCall, TeamEntries
<1>3. RunsInv'
  BY <1>1, OthersKeepRuns DEF NewUuids
<1>4. \A u \in Requests : u # t => calls'[u] = calls[u]
  BY <1>1, <1>2 DEF CallsInv
<1>5. CallsInv'
  <2>1. calls' \in [Requests -> Creation \cup Destruction \cup {None}]
    BY <1>1, <1>2 DEF CallsInv, CallOK
  <2>2. ASSUME NEW u \in Requests
        PROVE  /\ calls'[u] \in Creation => (calls'[u].at = "mark" <=> calls'[u].forked # None)
               /\ calls'[u] \in Destruction => calls'[u].frames # <<>>
    <3>1. CASE u = t
      BY <1>2, <3>1, CallKinds DEF CallOK
    <3>2. CASE u # t
      BY <1>1, <1>4, <3>2 DEF CallsInv
    <3> QED BY <3>1, <3>2
  <2> QED BY <1>2, <2>1, <2>2 DEF CallsInv, Tended
<1>6. \A r \in Runners : WorkersOf(r)' = WorkersOf(r)
  BY <1>1 DEF WorkersOf, Forked, Worker, Tasks
<1>7. \A u \in Requests, i \in Ids : u # t /\ Holding(u, i) => Holding(u, i)'
  BY <1>4 DEF Holding
<1>8. ASSUME NEW i \in workspaces' PROVE Accounted(i)'
  <2>1. CASE i \notin workspaces /\ Holding(t, i)'
    BY <2>1 DEF Accounted
  <2>2. CASE /\ i \in workspaces /\ (team_id[i] # None => team_id'[i] # None)
             /\ Holding(t, i) => Holding(t, i)' \/ team_id'[i] # None
    <3>1. Accounted(i) /\ i \in Ids
      BY <1>1, <2>2 DEF FleetInv, CallsInv
    <3> QED BY <1>1, <1>6, <1>7, <2>2, <3>1 DEF Accounted
  <2> QED BY <1>2, <2>1, <2>2 DEF Tended
<1> QED BY <1>3, <1>5, <1>8 DEF FleetInv

\* The new worker is one of the run.
LEMMA NewWorkerIsOne ==
  ASSUME NEW run, Shaped(run), NEW k \in 1..run.plan.size, NEW i \in Ids,
         NEW run2, run2 = WithWorker(run, k, i)
  PROVE  i \in Workers(run2) /\ run2 # None
<1>1. /\ Shaped(run2) /\ run2.plan = run.plan /\ run2.worker = [run.worker EXCEPT ![k] = i]
  BY JoinedWorker
<1>2. run2.worker[k] = i /\ i # None /\ run2 # None
  BY <1>1, FleetAssumption, RunAssumption DEF Shaped
<1> QED BY <1>1, <1>2 DEF Workers

\* A step of a run.
LEMMA RunKeepsInv ==
  ASSUME FleetInv, NEW r \in Runners, OwnStep(r), NewUuids, UNCHANGED teamVars
  PROVE  FleetInv'
<1>1. RunsInv /\ CallsInv /\ UNCHANGED <<teams, calls>>
  BY DEF FleetInv, teamVars
<1>2. RunsInv'
  BY <1>1, OwnStepKeepsRuns
<1>3. CallsInv'
  BY <1>1, OwnEffects DEF CallsInv
<1>4. runs[r] # None /\ runs' = [runs EXCEPT ![r] = runs'[r]]
  BY <1>1, OwnRun
<1>5. \A s \in Runners : s # r => WorkersOf(s)' = WorkersOf(s)
  <2>1. \A s \in Runners : s # r => runs'[s] = runs[s]
    BY <1>1, <1>4 DEF RunsInv
  <2> QED BY <2>1 DEF WorkersOf, Forked, Worker, Tasks
<1>6. WorkersOf(r) = Workers(runs[r]) /\ (runs'[r] # None => WorkersOf(r)' = Workers(runs'[r]))
  BY <1>4 DEF WorkersOf, Forked, Worker, Tasks, Workers
<1>7. \A t \in Requests, i \in Ids : Holding(t, i)' <=> Holding(t, i)
  BY <1>1 DEF Holding
<1>8. ASSUME NEW i \in workspaces' PROVE Accounted(i)'
  <2>1. CASE i \notin workspaces
    <3>1. PICK k \in Nat, j \in Ids : ForkEnds(r, k, j)
      BY <1>1, <2>1, OwnEffects
    <3>2. i = j
      BY <1>8, <2>1, <3>1 DEF ForkEnds, Forks
    <3>3. /\ runs[r].phase = "fork" /\ k \in runs[r].busy /\ Shaped(runs[r])
          /\ runs'[r] = WithWorker(runs[r], k, j)
      BY <1>1, <1>4, <3>1, RunAt DEF ForkEnds, In
    <3>4. k \in 1..runs[r].plan.size
      BY <3>3 DEF Shaped
    <3>5. j \in Workers(runs'[r]) /\ runs'[r] # None
      BY <3>3, <3>4, NewWorkerIsOne
    <3> QED BY <1>6, <3>2, <3>5 DEF Accounted
  <2>2. CASE i \in workspaces
    <3>1. Accounted(i) /\ i \in Ids
      BY <1>1, <2>2 DEF FleetInv, CallsInv
    <3>2. team_id'[i] = team_id[i] /\ (i \in owned \cup refused => i \in owned' \cup refused')
      BY <1>1, <1>8, <2>2, OwnEffects
    <3>3. i \in WorkersOf(r) => i \in WorkersOf(r)' \/ i \in owned' \cup refused'
      BY <1>1, <1>6, <1>8, WorkersKept
    <3> QED BY <1>5, <1>7, <3>1, <3>2, <3>3 DEF Accounted
  <2> QED BY <2>1, <2>2
<1> QED BY <1>2, <1>3, <1>8 DEF FleetInv

\* The start of a run.
LEMMA StartKeepsInv ==
  ASSUME FleetInv, NEW r \in Runners, StartRun(r)
  PROVE  FleetInv'
<1>1. /\ RunsInv' /\ UNCHANGED <<fleetVars, owned, refused, tokens, teamVars>>
      /\ \A s \in Runners : WorkersOf(s)' = WorkersOf(s)
  BY StartKeepsRuns DEF FleetInv
<1>2. UNCHANGED <<workspaces, team_id, teams, calls, owned, refused>>
  BY <1>1 DEF fleetVars, teamVars
<1>3. CallsInv'
  BY <1>2 DEF FleetInv, CallsInv
<1>4. \A t \in Requests, i \in Ids : Holding(t, i)' <=> Holding(t, i)
  BY <1>2 DEF Holding
<1>5. ASSUME NEW i \in workspaces' PROVE Accounted(i)'
  <2>1. Accounted(i) /\ i \in Ids
    BY <1>2 DEF FleetInv, CallsInv
  <2> QED BY <1>1, <1>2, <1>4, <2>1 DEF Accounted
<1> QED BY <1>1, <1>3, <1>5 DEF FleetInv

\* Somebody destroys a workspace.
LEMMA DestroyKeepsInv ==
  ASSUME FleetInv, NEW i \in Ids, WorkspaceDestroy(i)
  PROVE  FleetInv'
<1>1. /\ workspaces' = workspaces \ {i} /\ team_id' = [team_id EXCEPT ![i] = None]
      /\ owned' = owned \ {i} /\ refused' = refused \ {i} /\ UNCHANGED <<teams, calls, runs, tokens>>
      /\ RunsInv /\ CallsInv
  BY DEF WorkspaceDestroy, Destroys, FleetInv
<1>2. RunsInv'
  <2>1. (workspaces' \ workspaces) \cap Known = {}
    BY <1>1
  <2>2. owned' \subseteq owned /\ (owned \cup refused) \cap workspaces' \subseteq owned' \cup refused'
    BY <1>1
  <2> QED BY <1>1, <2>1, <2>2, OthersKeepRuns
<1>3. team_id' \in [Ids -> Names \cup {None}] /\ \A j \in Ids : j # i => team_id'[j] = team_id[j]
  BY <1>1 DEF CallsInv
<1>4. CallsInv'
  BY <1>1, <1>3 DEF CallsInv
<1>5. \A t \in Requests, j \in Ids : Holding(t, j)' <=> Holding(t, j)
  BY <1>1 DEF Holding
<1>6. \A r \in Runners : WorkersOf(r)' = WorkersOf(r)
  BY <1>1 DEF WorkersOf, Forked, Worker, Tasks
<1>7. ASSUME NEW j \in workspaces' PROVE Accounted(j)'
  <2>1. Accounted(j) /\ j \in Ids /\ j # i
    BY <1>1 DEF FleetInv, CallsInv
  <2> QED BY <1>1, <1>3, <1>5, <1>6, <2>1 DEF Accounted
<1> QED BY <1>2, <1>4, <1>7 DEF FleetInv

\* Every step keeps it.
LEMMA NextFleetInv == FleetInv /\ [Next]_vars => FleetInv'
<1> SUFFICES ASSUME FleetInv, [Next]_vars PROVE FleetInv'
  OBVIOUS
<1>1. CASE UNCHANGED vars
  <2>1. UNCHANGED <<workspaces, team_id, teams, calls, runs, owned, refused, tokens>>
    BY <1>1 DEF vars, fleetVars, teamVars, swarmVars
  <2>2. \A r \in Runners : WorkersOf(r)' = WorkersOf(r)
    BY <2>1 DEF WorkersOf, Forked, Worker, Tasks
  <2>3. RunsInv' /\ CallsInv'
    BY <2>1, <2>2 DEF FleetInv, RunsInv, CallsInv
  <2>4. \A t \in Requests, j \in Ids : Holding(t, j)' <=> Holding(t, j)
    BY <2>1 DEF Holding
  <2>5. ASSUME NEW i \in workspaces' PROVE Accounted(i)'
    <3>1. Accounted(i) /\ i \in Ids
      BY <2>1 DEF FleetInv, CallsInv
    <3> QED BY <2>1, <2>2, <2>4, <3>1 DEF Accounted
  <2> QED BY <2>3, <2>5 DEF FleetInv
<1>2. ASSUME NEW t \in Requests, Request(t) \/ (Proceed(t) /\ Teamwork) PROVE FleetInv'
  BY <1>2, TeamKeepsInv DEF Request
<1>3. ASSUME NEW r \in Runners, StartRun(r) PROVE FleetInv'
  BY <1>3, StartKeepsInv
<1>4. ASSUME NEW r \in Runners, (RunStep(r) \/ Interrupt(r)) /\ NewUuids /\ UNCHANGED teamVars PROVE FleetInv'
  BY <1>4, RunKeepsInv DEF OwnStep
<1>5. ASSUME NEW i \in Ids, WorkspaceDestroy(i) PROVE FleetInv'
  BY <1>5, DestroyKeepsInv
<1> QED BY <1>1, <1>2, <1>3, <1>4, <1>5 DEF Next

\* So it always holds.
LEMMA FleetInvariant == Spec => []FleetInv
<1> QED BY InitFleetInv, NextFleetInv, PTL DEF Spec

\* When swarm_run or an orchestration answers, every worker it forked is
\* destroyed, none is charged to the session and the tokens it kept track of are
\* revoked, whatever others did to the workspaces meanwhile (RunCleansUp).
THEOREM CleanupTheorem == Spec => []RunCleansUp
<1>1. FleetInv => RunCleansUp
  <2> SUFFICES ASSUME FleetInv, NEW r \in Runners, AllJoined(r, "cleanup"), NEW k \in Forked(r)
               PROVE  /\ Worker(r, k) \notin workspaces \cup owned
                      /\ Worker(r, k) \in tokens => k \in runs[r].bad
    BY DEF RunCleansUp
  <2>1. /\ runs[r] # None /\ runs[r].phase = "cleanup" /\ runs[r].todo = {}
        /\ k \in 1..runs[r].plan.size /\ Worker(r, k) = runs[r].worker[k] /\ Worker(r, k) # None
    BY DEF AllJoined, In, Forked, Worker, Tasks
  <2>2. Sound(runs[r], workspaces, owned, refused, tokens)
    BY <2>1 DEF FleetInv, RunsInv
  <2> QED BY <2>1, <2>2 DEF Sound, Cleaned, Revoked
<1> QED BY <1>1, FleetInvariant, PTL

\* When the executions are joined each task has exactly one result, of a failed
\* fork, of a failed setup or of its execution (OneResultEach).
THEOREM ResultTheorem == Spec => []OneResultEach
<1>1. FleetInv => OneResultEach
  <2> SUFFICES ASSUME FleetInv, NEW r \in Runners,
                      AllJoined(r, "exec") \/ In(r, "merge") \/ In(r, "cleanup"), NEW k \in Tasks(r)
               PROVE  runs[r].results[k] = 1
    BY DEF OneResultEach
  <2>1. /\ runs[r] # None /\ k \in 1..runs[r].plan.size
        /\ \/ runs[r].phase = "exec" /\ runs[r].todo = {}
           \/ runs[r].phase \in {"merge", "cleanup"}
    BY DEF AllJoined, In, Tasks
  <2>2. Sound(runs[r], workspaces, owned, refused, tokens)
    BY <2>1 DEF FleetInv, RunsInv
  <2> QED BY <2>1, <2>2 DEF Sound, Counted
<1> QED BY <1>1, FleetInvariant, PTL

\* Every workspace belongs to the session, to a team, or to what is at work on it,
\* also when calls end early, are interrupted or fail half-way
\* (WorkspacesAccountedFor).
THEOREM AccountTheorem == Spec => []WorkspacesAccountedFor
<1>1. FleetInv => WorkspacesAccountedFor
  <2> SUFFICES ASSUME FleetInv, NEW i \in workspaces
               PROVE  \/ i \in owned \cup refused
                      \/ team_id[i] # None
                      \/ \E t \in Requests : i \in Handles(t)
                      \/ \E r \in Runners : i \in WorkersOf(r)
    BY DEF WorkspacesAccountedFor
  <2>1. Accounted(i) /\ i # None
    BY FleetAssumption DEF FleetInv, CallsInv
  <2>2. \A t \in Requests : Holding(t, i) => i \in Handles(t)
    BY <2>1 DEF Holding, Handles
  <2> QED BY <2>1, <2>2 DEF Accounted
<1> QED BY <1>1, FleetInvariant, PTL
=============================================================================
