------------------------------- MODULE Swarm -------------------------------
(***************************************************************************)
(* Fan-out over workers forked from one snapshot: swarm_run                *)
(* (mcp/tools.rs) in the daemon, and orchestrate::execute                  *)
(* (workspace/orchestrate.rs) in a process of its own.                     *)
(*                                                                         *)
(* Both go through phases.  Those that work on many workers at once spawn  *)
(* a task for each and end when the last is joined; forks and executions   *)
(* take a permit of a semaphore.                                           *)
(***************************************************************************)
EXTENDS Fleet

CONSTANTS
  Runners,         \* requests that run a swarm or an orchestration
  Plans,           \* what is run: [kind, size, env, bridge, merge, cleanup]
  MaxParallel      \* permits of a semaphore

ASSUME SwarmAssumption ==
  /\ MaxParallel \in Nat \ {0} /\ None \notin Runners
  /\ \A p \in Plans :
       /\ p.kind \in {"swarm", "orchestrate"} /\ p.size \in Nat \ {0}
       /\ p.bridge \in {"unwanted", "enabled", "disabled"}
       /\ p.kind = "orchestrate" => p.cleanup /\ ~p.merge  \* it destroys its workers, always

VARIABLES
  runs,            \* runner -> None or the run and the phase it is in
  owned,           \* workers the session of the caller owns
  refused,         \* workers it could not register
  tokens           \* workers for which a bridge token is valid

swarmVars == <<runs, owned, refused, tokens>>

Phases == {"fork", "register", "env", "bridge", "exec", "merge", "cleanup", "interrupted"}

\* A run: its workers by task, those not to be used, those whose token is held.
Run ==
  [plan : Plans, phase : Phases, todo : SUBSET Nat, busy : SUBSET Nat,
   worker : Seq(Ids \cup {None}), bad : SUBSET Nat, held : SUBSET Nat, results : Seq(Nat)]

ASSUME RunAssumption == None \notin Run

In(r, phase) == IF runs[r] = None THEN FALSE ELSE runs[r].phase = phase
Tasks(r) == 1..runs[r].plan.size
Worker(r, k) == runs[r].worker[k]
Forked(r) == {k \in Tasks(r) : Worker(r, k) # None}
WorkersOf(r) == IF runs[r] = None THEN {} ELSE {Worker(r, k) : k \in Forked(r)}
Over(r) == runs' = [runs EXCEPT ![r] = None]

\* The next phase, with the tasks it has to spawn.
Begin(run, phase, todo) == [run EXCEPT !.phase = phase, !.todo = todo, !.busy = {}]

\* The permits of the semaphore are the tasks in busy.
Acquire(r, k) ==
  /\ k \in runs[r].todo \ runs[r].busy /\ Cardinality(runs[r].busy) < MaxParallel
  /\ runs' = [runs EXCEPT ![r].busy = @ \cup {k}]

Joined(run, k) == [run EXCEPT !.todo = @ \ {k}, !.busy = @ \ {k}]
WithWorker(run, k, i) == [Joined(run, k) EXCEPT !.worker[k] = i]
WithBad(run, k) == [Joined(run, k) EXCEPT !.bad = @ \cup {k}]
WithHeld(run, k) == [Joined(run, k) EXCEPT !.held = @ \cup {k}]
WithResult(run, k) == [Joined(run, k) EXCEPT !.results[k] = @ + 1]
AllJoined(r, phase) == In(r, phase) /\ runs[r].todo = {}

Usable(run) == {k \in 1..run.plan.size : run.worker[k] # None} \ run.bad

\* Mistake: no result for a worker whose setup failed.
WrongBeginExec(run) ==
  [Begin(run, "exec", Usable(run)) EXCEPT
     !.results = [k \in 1..run.plan.size |-> IF run.worker[k] = None THEN 1 ELSE 0]]

\* Tasks without a usable worker get their result before the others run.
BeginExec(run) ==
  [Begin(run, "exec", Usable(run)) EXCEPT
     !.results = [k \in 1..run.plan.size |-> IF k \in Usable(run) THEN 0 ELSE 1]]

BeginBridge(run) ==
  IF run.plan.bridge # "unwanted" THEN Begin(run, "bridge", Usable(run)) ELSE BeginExec(run)

SwarmInit ==
  runs = [r \in Runners |-> None] /\ owned = {} /\ refused = {} /\ tokens = {}
-----------------------------------------------------------------------------

Start(r, plan) ==
  /\ runs[r] = None
  /\ runs' = [runs EXCEPT ![r] =
       [plan |-> plan, phase |-> "fork", todo |-> 1..plan.size, busy |-> {},
        worker |-> [k \in 1..plan.size |-> None], bad |-> {}, held |-> {},
        results |-> [k \in 1..plan.size |-> 0]]]
  /\ UNCHANGED <<fleetVars, owned, refused, tokens>>

ForkBegins(r, k) ==
  In(r, "fork") /\ Acquire(r, k) /\ UNCHANGED <<fleetVars, owned, refused, tokens>>

ForkEnds(r, k, i) ==
  /\ In(r, "fork") /\ k \in runs[r].busy
  /\ Forks(i)
  /\ runs' = [runs EXCEPT ![r] = WithWorker(@, k, i)]
  /\ UNCHANGED <<owned, refused, tokens>>

ForkFails(r, k) ==
  /\ In(r, "fork") /\ k \in runs[r].busy
  /\ runs' = [runs EXCEPT ![r] = Joined(@, k)]
  /\ UNCHANGED <<fleetVars, owned, refused, tokens>>

\* A swarm without a single worker is an error, an orchestration is not.
AllForked(r) ==
  /\ AllJoined(r, "fork")
  /\ IF runs[r].plan.kind = "orchestrate" THEN runs' = [runs EXCEPT ![r] = BeginExec(@)]
     ELSE IF Forked(r) = {} THEN Over(r)
     ELSE runs' = [runs EXCEPT ![r] = Begin(@, "register", {})]
  /\ UNCHANGED <<fleetVars, owned, refused, tokens>>

\* A worker that the session has no quota for is used all the same.
RegisterWorkers(r) ==
  /\ In(r, "register")
  /\ \E beyond \in SUBSET WorkersOf(r) :
       owned' = owned \cup (WorkersOf(r) \ beyond) /\ refused' = refused \cup beyond
  /\ runs' = [runs EXCEPT ![r] =
       IF @.plan.env THEN Begin(@, "env", Forked(r)) ELSE BeginBridge(@)]
  /\ UNCHANGED <<fleetVars, tokens>>

\* Environment and context files go to all the workers in parallel.
InjectEnv(r, k) ==
  /\ In(r, "env") /\ k \in runs[r].todo
  /\ \/ runs' = [runs EXCEPT ![r] = Joined(@, k)]
     \/ runs' = [runs EXCEPT ![r] = WithBad(@, k)]
  /\ UNCHANGED <<fleetVars, owned, refused, tokens>>

EnvInjected(r) ==
  /\ AllJoined(r, "env")
  /\ runs' = [runs EXCEPT ![r] = BeginBridge(@)]
  /\ UNCHANGED <<fleetVars, owned, refused, tokens>>

\* Whether the configuration has a bridge at all is looked at only now.
BridgeMissing(r) ==
  /\ In(r, "bridge") /\ runs[r].plan.bridge = "disabled"
  /\ Over(r) /\ UNCHANGED <<fleetVars, owned, refused, tokens>>

BridgeToken(r, k) ==
  /\ In(r, "bridge") /\ runs[r].plan.bridge = "enabled" /\ k \in runs[r].todo \ runs[r].busy
  /\ tokens' = tokens \cup {Worker(r, k)}
  /\ runs' = [runs EXCEPT ![r].busy = @ \cup {k}]
  /\ UNCHANGED <<fleetVars, owned, refused>>

\* The token of a worker that cannot be configured is not kept track of.
BridgeConfigured(r, k) ==
  /\ In(r, "bridge") /\ k \in runs[r].busy
  /\ \/ runs' = [runs EXCEPT ![r] = WithHeld(@, k)]
     \/ runs' = [runs EXCEPT ![r] = WithBad(@, k)]
  /\ UNCHANGED <<fleetVars, owned, refused, tokens>>

BridgesConfigured(r) ==
  /\ AllJoined(r, "bridge") /\ runs[r].plan.bridge = "enabled"
  /\ runs' = [runs EXCEPT ![r] = BeginExec(@)]
  /\ UNCHANGED <<fleetVars, owned, refused, tokens>>

ExecBegins(r, k) ==
  In(r, "exec") /\ Acquire(r, k) /\ UNCHANGED <<fleetVars, owned, refused, tokens>>

\* Whatever comes of it, it is a result.
ExecEnds(r, k) ==
  /\ In(r, "exec") /\ k \in runs[r].busy
  /\ runs' = [runs EXCEPT ![r] = WithResult(@, k)]
  /\ UNCHANGED <<fleetVars, owned, refused, tokens>>

\* Mistake: tokens outlive the workers.
WrongBeginCleanup(r) ==
  /\ IF runs[r].plan.cleanup
       THEN runs' = [runs EXCEPT ![r] = Begin(@, "cleanup", Forked(r))] ELSE Over(r)
  /\ UNCHANGED tokens

\* An orchestration always destroys its workers, a swarm when it is told to.
\* Their tokens are revoked first.
BeginCleanup(r) ==
  IF runs[r].plan.cleanup
    THEN /\ runs' = [runs EXCEPT ![r] = Begin(@, "cleanup", Forked(r))]
         /\ tokens' = tokens \ {Worker(r, k) : k \in runs[r].held}
    ELSE Over(r) /\ UNCHANGED tokens

AllExecuted(r) ==
  /\ AllJoined(r, "exec")
  /\ IF runs[r].plan.merge THEN runs' = [runs EXCEPT ![r] = Begin(@, "merge", {})] /\ UNCHANGED tokens
     ELSE BeginCleanup(r)
  /\ UNCHANGED <<fleetVars, owned, refused>>

\* A merge that fails is reported in the answer.  A target that cannot be
\* resolved ends the call where it is.
Merge(r) == In(r, "merge") /\ BeginCleanup(r) /\ UNCHANGED <<fleetVars, owned, refused>>

TargetMissing(r) ==
  In(r, "merge") /\ Over(r) /\ UNCHANGED <<fleetVars, owned, refused, tokens>>

\* In parallel in a swarm, in turn in an orchestration; what the session
\* owns is given back also when the worker is gone already.
DestroyWorker(r, k) ==
  /\ In(r, "cleanup") /\ k \in runs[r].todo \ runs[r].busy
  /\ runs[r].plan.kind = "orchestrate" => runs[r].busy = {}
  /\ Destroys(Worker(r, k))
  /\ runs' = [runs EXCEPT ![r].busy = @ \cup {k}]
  /\ UNCHANGED <<owned, refused, tokens>>

UnregisterWorker(r, k) ==
  /\ In(r, "cleanup") /\ k \in runs[r].busy
  /\ owned' = owned \ {Worker(r, k)} /\ refused' = refused \ {Worker(r, k)}
  /\ runs' = [runs EXCEPT ![r] = Joined(@, k)]
  /\ UNCHANGED <<fleetVars, tokens>>

Answer(r) ==
  AllJoined(r, "cleanup") /\ Over(r) /\ UNCHANGED <<fleetVars, owned, refused, tokens>>

\* Mistake: the process ends at once.
WrongInterrupt(r) ==
  /\ runs[r] # None /\ runs[r].plan.kind = "orchestrate"
  /\ Over(r) /\ UNCHANGED <<fleetVars, owned, refused, tokens>>

\* SIGINT drops the orchestration, and with it the forks that are under way;
\* what is registered under a name of its own is destroyed.
Interrupt(r) ==
  /\ runs[r] # None /\ runs[r].plan.kind = "orchestrate" /\ runs[r].phase # "interrupted"
  /\ runs' = [runs EXCEPT ![r] =
       Begin(@, "interrupted", {k \in Forked(r) : Worker(r, k) \in workspaces})]
  /\ UNCHANGED <<fleetVars, owned, refused, tokens>>

DestroyListed(r, k) ==
  /\ In(r, "interrupted") /\ k \in runs[r].todo
  /\ Destroys(Worker(r, k))
  /\ runs' = [runs EXCEPT ![r] = Joined(@, k)]
  /\ UNCHANGED <<owned, refused, tokens>>

Interrupted(r) ==
  AllJoined(r, "interrupted") /\ Over(r) /\ UNCHANGED <<fleetVars, owned, refused, tokens>>
-----------------------------------------------------------------------------

RunStep(r) ==
  \/ \E k \in 1..(IF runs[r] = None THEN 0 ELSE runs[r].plan.size) :
       \/ ForkBegins(r, k) \/ ForkFails(r, k) \/ \E i \in Ids : ForkEnds(r, k, i)
       \/ InjectEnv(r, k) \/ BridgeToken(r, k) \/ BridgeConfigured(r, k)
       \/ ExecBegins(r, k) \/ ExecEnds(r, k)
       \/ DestroyWorker(r, k) \/ UnregisterWorker(r, k) \/ DestroyListed(r, k)
  \/ AllForked(r) \/ RegisterWorkers(r) \/ EnvInjected(r)
  \/ BridgeMissing(r) \/ BridgesConfigured(r)
  \/ AllExecuted(r) \/ Merge(r) \/ TargetMissing(r) \/ Answer(r) \/ Interrupted(r)
=============================================================================
