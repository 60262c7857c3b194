------------------------------ MODULE Sessions ------------------------------
(***************************************************************************)
(* mcp/auth.rs with its callers: the MCP handlers of mcp/tools.rs, the     *)
(* dashboard's, and save_state, load_state and serve.  A session owns      *)
(* workspaces within a quota.  AuthManager keeps the sessions under a lock *)
(* of its own; a handler asks it, then the workspace manager, then it      *)
(* again, so ownership and the registry meet only in the handlers.         *)
(*                                                                         *)
(* A handler is a task t: pc[t] is the call it makes next, job[t] its      *)
(* arguments and locals.  Each workspace takes one unit of memory, and     *)
(* disk is accounted as memory is.  The workspace manager is reduced to    *)
(* the set of what it has registered (see WorkspaceLifecycle).             *)
(***************************************************************************)
EXTENDS Integers, FiniteSets

CONSTANTS
  Requests,        \* handlers that run at the same time
  Sids,            \* session ids
  Ids,             \* uuids of workspaces
  None,
  MaxWorkspaces,   \* SessionQuota::max_workspaces
  MaxMemory,       \* SessionQuota::max_memory_mb, in workspaces
  MaxBatch,        \* the largest count given to workspace_fork
  Calls            \* which calls are made; "restart": and saves, crashes, restarts

ASSUME QuotaAssumption ==
  MaxWorkspaces \in Nat /\ MaxMemory \in Nat /\ MaxBatch \in Nat
ASSUME SidsAssumption == None \notin Sids /\ None \notin Ids /\ IsFiniteSet(Ids)

VARIABLES
  workspaces,      \* the registry of the workspace manager
  sessions,        \* AuthManager.sessions
  client,          \* session id -> what is connected under it
  exported,        \* what save_state has read of the sessions, or None
  state_file,      \* workspaces and sessions of state.json
  pc, job,
  disputed         \* history: see Disputes

vars == <<workspaces, sessions, client, exported, state_file, pc, job, disputed>>

AllCalls == {"create", "fork", "prepare", "destroy", "adopt", "adoptAll", "restart"}
ASSUME CallsAssumption == Calls \subseteq AllCalls

Clients == {"agent", "dashboard", "bridge", "none"}
Ops == {"none", "create", "fork", "prepare", "destroy", "adopt", "adoptAll"}
Labels == {"idle", "quota", "build", "candidate", "owner", "adopt", "destroy",
           "remove", "unregister", "list", "candidates", "adoptNext"}
Job == [op : Ops, sid : Sids \cup {None}, id : Ids \cup {None}, src : Ids \cup {None},
        todo : 0..MaxBatch + 1, made : SUBSET Ids, force : BOOLEAN]
NoJob == [op |-> "none", sid |-> None, id |-> None, src |-> None, todo |-> 0,
          made |-> {}, force |-> FALSE]

-----------------------------------------------------------------------------
(* AuthManager *)

\* active: the session was touched within the last 60 seconds.
NewSession == [owned |-> {}, count |-> 0, memory |-> 0, active |-> TRUE]

Known(s) == sessions[s] # None
Owns(s, i) == Known(s) /\ i \in sessions[s].owned
Owners(i) == {s \in Sids : Owns(s, i)}

\* check_quota, and the check in register_workspace and adopt_workspace.
Room(s, units) ==
  /\ Known(s)
  /\ sessions[s].count < MaxWorkspaces
  /\ sessions[s].memory + units <= MaxMemory

SaturatingSub(m, n) == IF m < n THEN 0 ELSE m - n

Gain(session, i) ==
  [session EXCEPT !.owned = @ \cup {i}, !.count = @ + 1, !.memory = @ + 1]
Lose(session, i, units) ==
  [session EXCEPT !.owned = @ \ {i},
                  !.count = SaturatingSub(@, 1), !.memory = SaturatingSub(@, units)]

\* Mistake: the set is updated, or not, but the counters always are.
WrongUnregistered(s, i, units) ==
  IF Known(s)
  THEN [sessions EXCEPT ![s] = [@ EXCEPT !.owned = @ \ {i}, !.count = @ - 1,
                                         !.memory = @ - units]]
  ELSE sessions

\* Mistake: the quota is released, the workspace stays in the set.
KeepingUnregistered(s, i, units) ==
  IF Owns(s, i) THEN [sessions EXCEPT ![s] = [Lose(@, i, units) EXCEPT !.owned = @ \cup {i}]]
  ELSE sessions

Registered(s, i) == [sessions EXCEPT ![s] = Gain(@, i)]
Unregistered(s, i, units) ==
  IF Owns(s, i) THEN [sessions EXCEPT ![s] = Lose(@, i, units)] ELSE sessions

\* The sessions adopt_workspace may take i from: when several others own it,
\* the one it met last in the map; None when there is no other.
Others(s, i) == Owners(i) \ {s}
TakenFrom(s, i, force) ==
  IF Others(s, i) = {} THEN {None}
  ELSE {p \in Others(s, i) : force /\ ~sessions[p].active}

\* Mistake: the new owner gains the workspace, the previous one keeps it.
WrongMoved(s, i, p) == [sessions EXCEPT ![s] = Gain(@, i)]

Moved(s, i, p) ==
  [r \in Sids |-> IF r = s THEN Gain(sessions[s], i)
                  ELSE IF r = p THEN Lose(sessions[p], i, 1) ELSE sessions[r]]

\* Mistake: the previous owner has lost it when the quota is found exceeded.
WrongAdoptWorkspace(s, i, force) ==
  /\ Known(s)
  /\ \E p \in TakenFrom(s, i, force) :
       \/ Owns(s, i) /\ sessions' = sessions
       \/ ~Owns(s, i) /\ Room(s, 1) /\ sessions' = Moved(s, i, p)
       \/ /\ ~Owns(s, i) /\ ~Room(s, 1) /\ p # None
          /\ sessions' = [sessions EXCEPT ![p] = Lose(@, i, 1)]

AdoptWorkspace(s, i, force) ==
  /\ Known(s)
  /\ \E p \in TakenFrom(s, i, force) :
       \/ Owns(s, i) /\ sessions' = sessions
       \/ ~Owns(s, i) /\ Room(s, 1) /\ sessions' = Moved(s, i, p)

AdoptRefused(s, i, force) ==
  /\ \/ ~Owns(s, i) /\ ~Room(s, 1)
     \/ \E p \in Others(s, i) : ~force \/ sessions[p].active
  /\ sessions' = sessions

Touched(s) == IF Known(s) THEN [sessions EXCEPT ![s].active = TRUE] ELSE sessions

\* export_sessions; sessions that own nothing are left out, as if they owned {}.
Ownership == [s \in Sids |-> IF Known(s) THEN sessions[s].owned ELSE {}]

\* Mistake: workspaces that no longer exist are restored too.
WrongStillThere(s, kept) == state_file.owners[s]

\* restore_sessions, of one session: what it owned and load_state has kept.
StillThere(s, kept) == state_file.owners[s] \cap kept
Restored(owned) ==
  IF owned = {} THEN None
  ELSE [owned |-> owned, count |-> Cardinality(owned), memory |-> Cardinality(owned),
        active |-> FALSE]

-----------------------------------------------------------------------------
(* Handlers *)

Uses(t, i) == i = job[t].id \/ i \in job[t].made

\* Uuid::new_v4(): an id nothing refers to counts as never used.
Fresh(i) ==
  /\ i \notin workspaces \cup state_file.workspaces
  /\ \A s \in Sids : ~Owns(s, i) /\ i \notin state_file.owners[s]
  /\ exported # None => \A s \in Sids : i \notin exported[s]
  /\ \A t \in Requests : ~Uses(t, i) /\ job[t].src # i

Unused(s) ==
  /\ ~Known(s) /\ client[s] = "none" /\ state_file.owners[s] = {}
  /\ exported # None => exported[s] = {}
  /\ \A t \in Requests : job[t].sid # s

Goto(t, label, j) ==
  /\ pc' = [pc EXCEPT ![t] = label]
  /\ job' = [job EXCEPT ![t] = IF label = "idle" THEN NoJob ELSE j]

\* The first step of a handler; those of the dashboard do not touch the session.
Enter(t, s, clients, label, j) ==
  /\ pc[t] = "idle" /\ client[s] \in clients /\ j.op \in Calls
  /\ Goto(t, label, j)
  /\ sessions' = IF client[s] = "dashboard" THEN sessions ELSE Touched(s)
  /\ UNCHANGED <<workspaces, client, exported, state_file>>

At(t, label) == pc[t] = label /\ UNCHANGED <<client, exported, state_file>>

\* workspace_create checks the quota first, the dashboard does not.
Create(t) == \E s \in Sids :
  Enter(t, s, {"agent", "dashboard"},
        IF client[s] = "dashboard" THEN "build" ELSE "quota",
        [NoJob EXCEPT !.op = "create", !.sid = s, !.todo = 1])

\* workspace_fork, one or a batch; a refused call is Touch.
Fork(t) == \E s \in Sids, i \in workspaces, n \in 1..MaxBatch :
  /\ Owns(s, i)
  /\ Enter(t, s, {"agent"}, "quota",
           [NoJob EXCEPT !.op = "fork", !.sid = s, !.src = i, !.todo = n])

Prepare(t) == \E s \in Sids :
  Enter(t, s, {"agent", "bridge"}, "candidate", [NoJob EXCEPT !.op = "prepare", !.sid = s])

Destroy(t) == \E s \in Sids, i \in workspaces :
  Enter(t, s, {"agent", "dashboard"},
        IF client[s] = "dashboard" THEN "destroy" ELSE "owner",
        [NoJob EXCEPT !.op = "destroy", !.sid = s, !.id = i, !.force = TRUE])

Adopt(t) == \E s \in Sids, i \in workspaces, force \in BOOLEAN :
  Enter(t, s, {"agent", "dashboard"}, "adopt",
        [NoJob EXCEPT !.op = "adopt", !.sid = s, !.id = i, !.force = force])

\* workspace_adopt without an id begins with purge_stale_sessions.
AdoptAll(t) == \E s \in Sids, force \in BOOLEAN :
  /\ pc[t] = "idle" /\ client[s] = "agent" /\ "adoptAll" \in Calls
  /\ Goto(t, "list", [NoJob EXCEPT !.op = "adoptAll", !.sid = s, !.force = force])
  /\ sessions' = [r \in Sids |-> IF r = s THEN Touched(s)[s] ELSE None]
  /\ UNCHANGED <<workspaces, client, exported, state_file>>

\* Every other tool.
Touch(s) ==
  /\ client[s] \in {"agent", "bridge"} /\ sessions' = Touched(s)
  /\ UNCHANGED <<workspaces, client, exported, state_file, pc, job>>

-----------------------------------------------------------------------------
(* Building: create, fork, prepare_create_fresh *)

\* A name that could not be had: workspace_prepare goes on to the next suffix.
IsRetry(j) == j.op = "prepare" /\ j.force
Refused(j) == IF IsRetry(j) THEN "candidate" ELSE "idle"
Going(j) == IF j.todo = 0 /\ j.made = {} THEN Refused(j) ELSE "build"

CheckQuota(t) == LET j == job[t] IN
  /\ At(t, "quota") /\ UNCHANGED <<workspaces, sessions>>
  /\ \/ Room(j.sid, j.todo) /\ Goto(t, "build", j)
     \/ ~Room(j.sid, j.todo) /\ Goto(t, Refused(j), [j EXCEPT !.todo = 0])

\* One create or fork of the workspace manager; those of a batch run in parallel.
Make(t) == LET j == [job[t] EXCEPT !.todo = @ - 1] IN
  /\ At(t, "build") /\ job[t].todo > 0 /\ UNCHANGED sessions
  /\ \/ \E i \in Ids :
          /\ Fresh(i)
          /\ j.op = "fork" => j.src \in workspaces
          /\ workspaces' = workspaces \cup {i}
          /\ Goto(t, "build", [j EXCEPT !.made = @ \cup {i}])
     \/ UNCHANGED workspaces /\ Goto(t, Going(j), j)

\* Mistake: no check but that of CheckQuota.
WrongRegister(t) == \E i \in job[t].made :
  LET j == [job[t] EXCEPT !.made = @ \ {i}] IN
  /\ At(t, "build") /\ UNCHANGED workspaces
  /\ IF Known(j.sid) THEN sessions' = Registered(j.sid, i) ELSE UNCHANGED sessions
  /\ Goto(t, Going(j), j)

\* register_workspace.  The setup of a prepared workspace may fail and destroy it.
Register(t) == \E i \in job[t].made :
  LET j == [job[t] EXCEPT !.made = @ \ {i}] IN
  /\ At(t, "build") /\ UNCHANGED workspaces
  /\ \/ /\ Room(j.sid, 1) /\ sessions' = Registered(j.sid, i)
        /\ IF j.op = "prepare"
           THEN \E label \in {"idle", "destroy"} : Goto(t, label, [j EXCEPT !.id = i])
           ELSE Goto(t, Going(j), j)
     \/ /\ ~Room(j.sid, 1) /\ UNCHANGED sessions
        /\ IF client[j.sid] = "dashboard" THEN Goto(t, Going(j), j)
           ELSE Goto(t, "destroy", [j EXCEPT !.id = i, !.made = job[t].made])

\* prepare_acquire_workspace: the name, or the next suffix, is taken or free; or it
\* gives up, after suffix 6 or when the workspace found is gone at the next call.
Candidate(t) == LET j == job[t] IN
  /\ At(t, "candidate") /\ UNCHANGED <<workspaces, sessions>>
  /\ \/ \E i \in workspaces : Goto(t, "adopt", [j EXCEPT !.id = i])
     \/ Goto(t, "quota", [j EXCEPT !.id = None, !.todo = 1])
     \/ Goto(t, "idle", j)

-----------------------------------------------------------------------------
(* Adopting and destroying *)

CheckOwner(t) == LET j == job[t] IN
  /\ At(t, "owner") /\ UNCHANGED <<workspaces, sessions>>
  /\ Goto(t, IF Owns(j.sid, j.id) THEN "destroy" ELSE "adopt", j)

\* adopt_workspace, for workspace_adopt, workspace_destroy and workspace_prepare.
\* Of these only workspace_adopt lets the caller choose force.
AdoptOne(t) ==
  LET j == job[t]
      force == j.force \/ j.op = "prepare"
  IN /\ At(t, "adopt") /\ UNCHANGED workspaces
     /\ \/ /\ AdoptWorkspace(j.sid, j.id, force)
           /\ Goto(t, IF j.op = "destroy" THEN "destroy" ELSE "idle", j)
        \/ /\ AdoptRefused(j.sid, j.id, force)
           /\ IF j.op = "prepare" /\ ~Owns(j.sid, j.id)
              THEN Goto(t, "candidate", [j EXCEPT !.force = TRUE, !.id = None])
              ELSE Goto(t, "idle", j)

\* destroy, of the workspace manager: it fails when the entry is gone, and works
\* on a copy of it until the entry is removed.  What was to be registered is
\* rolled back; of the others only the dashboard heeds the failure.
RollsBack(j) == j.id \in j.made
Destroyed(t, j) ==
  IF RollsBack(j)
  THEN LET rest == [j EXCEPT !.made = @ \ {j.id}, !.id = None] IN Goto(t, Going(rest), rest)
  ELSE Goto(t, "unregister", j)

DestroyOne(t) == LET j == job[t] IN
  /\ At(t, "destroy") /\ UNCHANGED <<workspaces, sessions>>
  /\ \/ j.id \in workspaces /\ Goto(t, "remove", j)
     \/ /\ j.id \notin workspaces
        /\ IF client[j.sid] = "dashboard" THEN Goto(t, "idle", j) ELSE Destroyed(t, j)

Remove(t) == LET j == job[t] IN
  /\ At(t, "remove") /\ workspaces' = workspaces \ {j.id} /\ UNCHANGED sessions
  /\ Destroyed(t, j)

\* unregister_workspace; the dashboard gives back no memory.
Unregister(t) == LET j == job[t] IN
  /\ At(t, "unregister") /\ UNCHANGED workspaces
  /\ sessions' = Unregistered(j.sid, j.id, IF client[j.sid] = "dashboard" THEN 0 ELSE 1)
  /\ Goto(t, "idle", j)

ListAll(t) ==
  /\ At(t, "list") /\ UNCHANGED <<workspaces, sessions>>
  /\ Goto(t, "candidates", [job[t] EXCEPT !.made = workspaces])

Remaining(made) == IF made = {} THEN "idle" ELSE "adoptNext"

Candidates(t) ==
  LET j == job[t]
      chosen == {i \in j.made : IF j.force THEN ~Owns(j.sid, i) ELSE Owners(i) = {}}
  IN /\ At(t, "candidates") /\ UNCHANGED <<workspaces, sessions>>
     /\ Goto(t, Remaining(chosen), [j EXCEPT !.made = chosen])

AdoptNext(t) == \E i \in job[t].made : LET j == [job[t] EXCEPT !.made = @ \ {i}] IN
  /\ At(t, "adoptNext") /\ UNCHANGED workspaces
  /\ AdoptWorkspace(j.sid, i, j.force) \/ AdoptRefused(j.sid, i, j.force)
  /\ Goto(t, Remaining(j.made), j)

-----------------------------------------------------------------------------
(* The rest of the daemon *)

\* Nothing was heard of a session for 60 seconds.
MinutePasses(s) ==
  /\ Known(s) /\ sessions[s].active
  /\ sessions' = [sessions EXCEPT ![s].active = FALSE]
  /\ UNCHANGED <<workspaces, client, exported, state_file, pc, job>>

\* An agent inside a VM connects to the bridge; its session outlives the connection.
Connect(s) ==
  /\ Unused(s)
  /\ client' = [client EXCEPT ![s] = "bridge"]
  /\ sessions' = [sessions EXCEPT ![s] = NewSession]
  /\ UNCHANGED <<workspaces, exported, state_file, pc, job>>

Disconnect(s) ==
  /\ client[s] = "bridge" /\ \A t \in Requests : job[t].sid # s
  /\ client' = [client EXCEPT ![s] = "none"]
  /\ UNCHANGED <<workspaces, sessions, exported, state_file, pc, job>>

\* save_state reads the sessions before it takes the locks of the registry.
SaveSessions ==
  /\ "restart" \in Calls /\ exported = None /\ exported' = Ownership
  /\ UNCHANGED <<workspaces, sessions, client, state_file, pc, job>>

SaveWorkspaces ==
  /\ exported # None /\ exported' = None
  /\ state_file' = [workspaces |-> workspaces, owners |-> exported]
  /\ UNCHANGED <<workspaces, sessions, client, pc, job>>

\* The entries load_state keeps: not those whose dataset is gone.
TornDown == {i \in Ids : \E t \in Requests : i = job[t].id /\ pc[t] = "remove"}
Kept == {kept \in SUBSET state_file.workspaces :
           (state_file.workspaces \cap workspaces) \ TornDown \subseteq kept}

\* serve registers a session for the agent on stdio and one for the dashboard.
Started(a, d) ==
  [s \in Sids |-> IF s = a THEN "agent" ELSE IF s = d THEN "dashboard" ELSE "none"]

\* Crash, load_state and serve: the ids of the new sessions are none that is restored.
Restart == \E kept \in Kept, a, d \in Sids :
  /\ "restart" \in Calls
  /\ a # d /\ client[a] # "agent" /\ state_file.owners[a] \cup state_file.owners[d] = {}
  /\ workspaces' = kept
  /\ sessions' = [s \in Sids |-> IF s \in {a, d} THEN NewSession
                                 ELSE Restored(StillThere(s, kept))]
  /\ client' = Started(a, d)
  /\ exported' = None
  /\ pc' = [t \in Requests |-> "idle"] /\ job' = [t \in Requests |-> NoJob]
  /\ UNCHANGED state_file

Init ==
  /\ workspaces = {}
  /\ \E a, d \in Sids :
       /\ a # d
       /\ sessions = [s \in Sids |-> IF s \in {a, d} THEN NewSession ELSE None]
       /\ client = Started(a, d)
  /\ exported = None
  /\ state_file = [workspaces |-> {}, owners |-> [s \in Sids |-> {}]]
  /\ pc = [t \in Requests |-> "idle"] /\ job = [t \in Requests |-> NoJob]
  /\ disputed = {}

Call(t) ==
  \/ Create(t) \/ Fork(t) \/ Prepare(t) \/ Destroy(t) \/ Adopt(t) \/ AdoptAll(t)
  \/ CheckQuota(t) \/ Make(t) \/ Register(t) \/ Candidate(t)
  \/ CheckOwner(t) \/ AdoptOne(t) \/ DestroyOne(t) \/ Remove(t) \/ Unregister(t)
  \/ ListAll(t) \/ Candidates(t) \/ AdoptNext(t)

Daemon ==
  \/ \E s \in Sids : Touch(s) \/ MinutePasses(s) \/ Connect(s) \/ Disconnect(s)
  \/ SaveSessions \/ SaveWorkspaces \/ Restart

\* History: ids two calls were at work on at once, and ids the dashboard set out
\* to destroy while another session owned them.
Disputes ==
  {i \in Ids :
     \/ \E t, u \in Requests : t # u /\ Uses(t, i) /\ Uses(u, i)
     \/ \E t \in Requests :
          /\ Uses(t, i) /\ pc[t] \in {"destroy", "remove"}
          /\ client[job[t].sid] = "dashboard" /\ Others(job[t].sid, i) # {}}

Next ==
  /\ (\E t \in Requests : Call(t)) \/ Daemon
  /\ disputed' = {i \in disputed \cup Disputes' : ~Fresh(i)'}

Spec == Init /\ [][Next]_vars
=============================================================================
