------------------------- MODULE WorkspaceLifecycle -------------------------
(***************************************************************************)
(* workspace/mod.rs, with the parts of vm/mod.rs, network/mod.rs,          *)
(* workspace/pool.rs and storage/ it drives: how concurrent requests       *)
(* create, fork, start, stop and destroy workspaces, how the warm pool is  *)
(* filled and claimed, and how the state file is written and read back     *)
(* after the daemon died.                                                  *)
(*                                                                         *)
(* A request is a task.  It holds one lock at a time, so every section     *)
(* under a lock is a step (pc says which one comes next) and the requests  *)
(* interleave between sections.  job[t] holds the locals a task carries    *)
(* across locks: the workspace it builds, or the copy it took of the       *)
(* registered one.  A workspace id stands for its uuid, for the short id   *)
(* derived from it and for everything named after that: the dataset, the   *)
(* TAP device, the run directory and the QEMU process launched under it.   *)
(***************************************************************************)
EXTENDS Integers, Sequences, FiniteSets

CONSTANTS
  Requests,        \* concurrent calls of create, fork, start, stop, destroy
  Replenisher,     \* the timer task that calls replenish_pool
  Saver,           \* the timer task that calls save_state
  Ids,             \* uuids
  Names,           \* names an agent may ask for; the default name is the id
  IPs,             \* guest addresses of the subnet
  None,
  MaxWorkspaces,   \* resources.max_workspaces
  MaxForks,        \* resources.max_concurrent_forks
  PoolEnabled,     \* pool.enabled
  TargetFree,      \* pool.target_free
  MaxPoolSize,     \* pool.max_size
  PoolBudget,      \* pool.max_memory_mb, in VMs of the default size
  CidStart,        \* vm.vsock_cid_start
  CidLimit,        \* u32::MAX
  Calls,           \* which requests are issued, "save" for the timer's
  OneCallAtATime,  \* a workspace has at most one request in progress
  Faults           \* which of the failures below happen

AllCalls == {"create", "fork", "start", "stop", "destroy", "save"}
AllFaults ==
  {"storage", "network", "tap", "launch", "configure", "destroy", "save", "vm", "crash"}

ASSUME ConstantsAssumption ==
  /\ MaxWorkspaces \in Nat \ {0} /\ MaxForks \in Nat
  /\ TargetFree \in Nat /\ MaxPoolSize \in Nat /\ PoolBudget \in Nat
  /\ CidStart \in Nat /\ CidLimit \in Nat
  /\ TargetFree <= MaxPoolSize
  /\ CidStart > 2 /\ CidStart <= CidLimit
  /\ PoolEnabled \in BOOLEAN /\ OneCallAtATime \in BOOLEAN
  /\ Calls \subseteq AllCalls /\ Faults \subseteq AllFaults
ASSUME IdsAssumption == IsFiniteSet(Ids) /\ None \notin Ids /\ None \notin IPs
ASSUME TasksAssumption ==
  Replenisher # Saver /\ {Replenisher, Saver} \cap Requests = {}
  /\ None \notin Requests \cup {Replenisher, Saver}

Tasks == Requests \cup {Replenisher, Saver}

VARIABLES
  workspaces,        \* WorkspaceManager.workspaces: the registered workspaces
  vms,               \* VmManager.vms: key -> the QEMU process of the handle
  ready,             \* VmPool.ready: FIFO of warm VMs
  next_vsock_cid,
  free_vsock_cids,   \* a stack
  leased,            \* addresses leased by the IpAllocator
  save_lock,         \* the task inside save_state
  snapshot,          \* task -> the PersistedState it is about to write
  state_file,        \* state.json
  qemu,              \* host: live QEMU processes, by the id they were launched under
  taps,              \* host: TAP devices
  datasets,          \* host: ZFS datasets of workspaces, forks and pool VMs
  origin,            \* host: the dataset a cloned dataset depends on
  pc, job            \* the tasks

memory == <<workspaces, vms, ready>>
cids == <<next_vsock_cid, free_vsock_cids>>
file == <<save_lock, snapshot, state_file>>
net == <<leased, taps>>
storage == <<datasets, origin>>
vars == <<memory, cids, file, net, storage, qemu, pc, job>>

Cids == 3..(CidLimit - 1)
States == {"Running", "Stopped"}
Workspace ==
  [name : Names \cup Ids, state : States, ds : Ids, cid : Cids, ip : IPs,
   pid : Ids \cup {None}]
WarmVm == [id : Ids, cid : Cids, ip : IPs]
Process == [cid : Cids, ds : Ids, tap : Ids]
ASSUME WorkspaceAssumption == None \notin Workspace
ASSUME ProcessAssumption == None \notin Process
PersistedState ==
  [workspaces : [Ids -> Workspace \cup {None}],
   next_vsock_cid : 0..CidLimit, free_vsock_cids : Seq(Cids)]

\* A workspace under construction: fields are filled in as they are acquired.
Blank == [name |-> None, state |-> "Running", ds |-> None, cid |-> None,
          ip |-> None, pid |-> None]
NoJob == [op |-> "none", id |-> None, src |-> None, ws |-> Blank]

Registered == {i \in Ids : workspaces[i] # None}
Count == Cardinality(Registered)
NameTaken(n) == \E i \in Registered : workspaces[i].name = n

Fails(fault) == fault \in Faults
Busy(i) == \E t \in Tasks : job[t].id = i
Callable(i) == i \in Registered /\ (OneCallAtATime => ~Busy(i))

\* Uuid::new_v4(): an id nothing refers to any more counts as never used.
Refers(ws, i) == ws # None /\ i \in {ws.name, ws.ds, ws.pid}
Fresh(i) ==
  /\ i \notin Registered \cup taps \cup datasets
  /\ qemu[i] = None /\ vms[i] = None
  /\ \A j \in Ids :
       /\ ~Refers(workspaces[j], i) /\ vms[j] # i /\ origin[j] # i
       /\ ~Refers(state_file.workspaces[j], i)
  /\ state_file.workspaces[i] = None
  /\ \A k \in DOMAIN ready : ready[k].id # i
  /\ \A t \in Tasks :
       /\ job[t].id # i /\ job[t].src # i /\ ~Refers(job[t].ws, i)
       /\ snapshot[t].workspaces[i] = None
       /\ \A j \in Ids : ~Refers(snapshot[t].workspaces[j], i)

NothingPersisted ==
  [workspaces |-> [i \in Ids |-> None], next_vsock_cid |-> CidStart, free_vsock_cids |-> <<>>]

Init ==
  /\ workspaces = [i \in Ids |-> None]
  /\ vms = [i \in Ids |-> None]
  /\ ready = <<>>
  /\ next_vsock_cid = CidStart
  /\ free_vsock_cids = <<>>
  /\ leased = {}
  /\ save_lock = None
  /\ snapshot = [t \in Tasks |-> NothingPersisted]
  /\ state_file = NothingPersisted
  /\ qemu = [i \in Ids |-> None]
  /\ taps = {}
  /\ datasets = {}
  /\ origin = [i \in Ids |-> None]
  /\ pc = [t \in Tasks |-> "idle"]
  /\ job = [t \in Tasks |-> NoJob]

-----------------------------------------------------------------------------
(* Control of a task.  An operator whose name begins with Wrong is a        *)
(* mistake one could make in the operation defined after it; no behaviour   *)
(* of Spec takes it, and each property is shown to notice one.              *)

At(t, label) == pc[t] = label
Goto(t, label) == pc' = [pc EXCEPT ![t] = label]
Return(t) == Goto(t, "idle") /\ job' = [job EXCEPT ![t] = NoJob]

Call(t, label, op, i, src, ws) ==
  /\ At(t, "idle")
  /\ Goto(t, label)
  /\ job' = [job EXCEPT ![t] = [op |-> op, id |-> i, src |-> src, ws |-> ws]]

WrongEndVm(i) ==  \* drops the handle, leaves the process
  /\ vms' = [vms EXCEPT ![i] = None]
  /\ UNCHANGED qemu

\* VmManager::stop and force_kill end the process and drop its handle.
EndVm(i) ==
  /\ qemu' = [qemu EXCEPT ![vms[i]] = None]
  /\ vms' = [vms EXCEPT ![i] = None]

\* NetworkManager::cleanup_workspace and setup_workspace.
ReleaseNetwork(i, ip) == taps' = taps \ {i} /\ leased' = leased \ {ip}
SetupNetwork(i, ip) ==
  /\ ip \in IPs \ leased
  /\ taps' = taps \cup {i}
  /\ leased' = leased \cup {ip}
\* create_tap may fail after it made the device, which stays.
SetupFails(i) ==
  /\ UNCHANGED leased
  /\ \/ /\ Fails("network") \/ leased = IPs
        /\ UNCHANGED taps
     \/ Fails("tap") /\ leased # IPs /\ taps' = taps \cup {i}

\* zfs destroy -r: refused while QEMU has the zvol open or a clone depends on it.
Alive == {p \in Ids : qemu[p] # None}
Destroyable(ds) ==
  {p \in Alive : qemu[p].ds = ds} = {} /\ {d \in datasets : origin[d] = ds} = {}
RemoveDataset(ds) ==
  /\ datasets' = datasets \ {ds}
  /\ origin' = [origin EXCEPT ![ds] = None]
DestroyDataset(ds) ==
  \/ Destroyable(ds) /\ RemoveDataset(ds)
  \/ /\ ~Destroyable(ds) \/ Fails("destroy")
     /\ UNCHANGED storage

-----------------------------------------------------------------------------
(* create *)

\* The early quota and name checks, under the read lock.  A request for the
\* default base image goes on to the pool.
Create(t, i, n, defaultImage) ==
  /\ "create" \in Calls /\ Fresh(i)
  /\ Count < MaxWorkspaces /\ ~NameTaken(n)
  /\ Call(t, IF PoolEnabled /\ defaultImage THEN "claim" ELSE "provision",
          "create", i, None, [Blank EXCEPT !.name = n])
  /\ UNCHANGED <<memory, cids, file, net, storage, qemu>>

Claim(t) ==
  /\ At(t, "claim")
  /\ IF ready = <<>>
       THEN /\ Goto(t, "provision")
            /\ UNCHANGED <<ready, job>>
       ELSE LET warm == Head(ready) IN
            /\ ready' = Tail(ready)
            /\ job' = [job EXCEPT ![t].src = warm.id,
                                  ![t].ws.ds = warm.id, ![t].ws.cid = warm.cid,
                                  ![t].ws.ip = warm.ip, ![t].ws.pid = warm.id]
            /\ Goto(t, "warmRelease")
  /\ UNCHANGED <<workspaces, vms, cids, file, net, storage, qemu>>

WarmRelease(t) ==
  /\ At(t, "warmRelease")
  /\ ReleaseNetwork(job[t].src, job[t].ws.ip)
  /\ Goto(t, "warmSetup")
  /\ UNCHANGED <<memory, cids, file, storage, qemu, job>>

\* On failure the warm VM goes back to the pool as it was claimed.
WarmSetup(t) ==
  /\ At(t, "warmSetup")
  /\ \/ \E ip \in IPs :
          /\ SetupNetwork(job[t].id, ip)
          /\ job' = [job EXCEPT ![t].ws.ip = ip]
          /\ Goto(t, "rekey")
          /\ UNCHANGED ready
     \/ /\ SetupFails(job[t].id)
        /\ ready' = Append(ready, [id |-> job[t].src, cid |-> job[t].ws.cid,
                                   ip |-> job[t].ws.ip])
        /\ Return(t)
  /\ UNCHANGED <<workspaces, vms, cids, file, storage, qemu>>

WrongRekey(t) ==  \* leaves the handle under the id of the warm VM
  /\ At(t, "rekey")
  /\ Goto(t, "warmRegister")
  /\ UNCHANGED <<memory, cids, file, net, storage, qemu, job>>

\* A failed re-key is only logged.
Rekey(t) ==
  /\ At(t, "rekey")
  /\ vms' = IF vms[job[t].src] = None THEN vms
            ELSE [vms EXCEPT ![job[t].id] = vms[job[t].src], ![job[t].src] = None]
  /\ Goto(t, "warmRegister")
  /\ UNCHANGED <<workspaces, ready, cids, file, net, storage, qemu, job>>

WarmRegister(t) ==
  /\ At(t, "warmRegister")
  /\ workspaces' = [workspaces EXCEPT ![job[t].id] = job[t].ws]
  /\ Goto(t, "save")
  /\ UNCHANGED <<vms, ready, cids, file, net, storage, qemu, job>>

\* The storage clone and the network setup.  create runs them in parallel and
\* joins, replenish_pool one after the other; both undo the one that worked
\* when the other failed, and nobody else can see either before the join.
Provision(t) ==
  LET i == job[t].id IN
  /\ At(t, "provision")
  /\ \/ \E ip \in IPs :
          /\ SetupNetwork(i, ip)
          /\ datasets' = datasets \cup {i}
          /\ job' = [job EXCEPT ![t].ws.ds = i, ![t].ws.ip = ip]
          /\ Goto(t, "cid")
     \/ /\ Fails("storage")
        /\ Return(t)
        /\ UNCHANGED <<net, datasets>>
     \/ /\ SetupFails(i)
        /\ \/ UNCHANGED datasets
           \/ Fails("destroy") /\ datasets' = datasets \cup {i}
        /\ Return(t)
  /\ UNCHANGED <<memory, cids, file, origin, qemu>>

-----------------------------------------------------------------------------
(* vsock CIDs *)

CidKnown(t, c) == job' = [job EXCEPT ![t].ws.cid = c] /\ Goto(t, "launch")

WrongPopCid(t) ==  \* reads the top of the free list and leaves it there
  /\ At(t, "cid")
  /\ IF free_vsock_cids = <<>>
       THEN Goto(t, "counter") /\ UNCHANGED job
       ELSE CidKnown(t, free_vsock_cids[Len(free_vsock_cids)])
  /\ UNCHANGED <<memory, cids, file, net, storage, qemu>>

\* alloc_vsock_cid: a recycled CID if there is one; the counter is under
\* another lock.
PopCid(t) ==
  /\ At(t, "cid")
  /\ IF free_vsock_cids = <<>>
       THEN /\ Goto(t, "counter")
            /\ UNCHANGED <<free_vsock_cids, job>>
       ELSE LET top == Len(free_vsock_cids) IN
            /\ CidKnown(t, free_vsock_cids[top])
            /\ free_vsock_cids' = SubSeq(free_vsock_cids, 1, top - 1)
  /\ UNCHANGED <<memory, next_vsock_cid, file, net, storage, qemu>>

WrongCountCid(t) ==  \* issues u32::MAX
  /\ At(t, "counter")
  /\ CidKnown(t, next_vsock_cid)
  /\ next_vsock_cid' = next_vsock_cid + 1
  /\ UNCHANGED <<memory, free_vsock_cids, file, net, storage, qemu>>

\* An exhausted counter ends create and fork at once; replenish_pool rolls back.
CountCid(t) ==
  /\ At(t, "counter")
  /\ \/ /\ next_vsock_cid < CidLimit
        /\ CidKnown(t, next_vsock_cid)
        /\ next_vsock_cid' = next_vsock_cid + 1
     \/ /\ next_vsock_cid = CidLimit
        /\ IF job[t].op = "replenish"
             THEN Goto(t, "undoHost") /\ UNCHANGED job
             ELSE Return(t)
        /\ UNCHANGED next_vsock_cid
  /\ UNCHANGED <<memory, free_vsock_cids, file, net, storage, qemu>>

RecycleCid(c) ==
  /\ free_vsock_cids' = Append(free_vsock_cids, c)
  /\ UNCHANGED next_vsock_cid

-----------------------------------------------------------------------------
(* From the CID to the registration: create, fork and replenish_pool *)

\* The kernel gives a guest CID to one process at a time; QEMU does not come up
\* without its CID or its disk.
CidInUse(c) == \E p \in Alive : qemu[p].cid = c
CanLaunch(i, ws) == vms[i] = None /\ ~CidInUse(ws.cid) /\ ws.ds \in datasets

AfterLaunch(op) ==
  CASE op = "create" -> "configure"
    [] op = "fork" -> "register"
    [] op = "replenish" -> "addReady"
    [] OTHER -> "markRunning"  \* start

\* VmManager::launch, under the vm lock until the guest agent answers.  Only
\* create, fork and replenish_pool roll back when it fails.
Launch(t) ==
  LET i == job[t].id
      ws == job[t].ws IN
  /\ At(t, "launch")
  /\ \/ /\ CanLaunch(i, ws)
        /\ qemu' = [qemu EXCEPT ![i] = [cid |-> ws.cid, ds |-> ws.ds, tap |-> i]]
        /\ vms' = [vms EXCEPT ![i] = i]
        /\ job' = [job EXCEPT ![t].ws.pid = i]
        /\ Goto(t, AfterLaunch(job[t].op))
     \/ /\ Fails("launch") \/ ~CanLaunch(i, ws)
        /\ IF job[t].op = "start"
             THEN Return(t)
             ELSE Goto(t, "undoCid") /\ UNCHANGED job
        /\ UNCHANGED <<qemu, vms>>
  /\ UNCHANGED <<workspaces, ready, cids, file, net, storage>>

\* create gives up when the guest agent cannot be reached; the other callers
\* only log it.
Configure(t) ==
  /\ At(t, "configure")
  /\ \/ Goto(t, "register") /\ UNCHANGED job
     \/ Fails("configure") /\ Return(t)
  /\ UNCHANGED <<memory, cids, file, net, storage, qemu>>

WrongRegister(t) ==  \* trusts the early check
  /\ At(t, "register")
  /\ workspaces' = [workspaces EXCEPT ![job[t].id] = job[t].ws]
  /\ Goto(t, "save")
  /\ UNCHANGED <<vms, ready, cids, file, net, storage, qemu, job>>

\* The authoritative quota check, under the write lock.
Register(t) ==
  /\ At(t, "register")
  /\ IF Count < MaxWorkspaces
       THEN /\ workspaces' = [workspaces EXCEPT ![job[t].id] = job[t].ws]
            /\ Goto(t, "save")
       ELSE /\ Goto(t, "undoCid")
            /\ UNCHANGED workspaces
  /\ UNCHANGED <<vms, ready, cids, file, net, storage, qemu, job>>

UndoCid(t) ==
  /\ At(t, "undoCid")
  /\ RecycleCid(job[t].ws.cid)
  /\ Goto(t, "undoVm")
  /\ UNCHANGED <<memory, file, net, storage, qemu, job>>

WrongUndoVm(t) ==  \* forgets the VM
  /\ At(t, "undoVm")
  /\ Goto(t, "undoHost")
  /\ UNCHANGED <<memory, cids, file, net, storage, qemu, job>>

UndoVm(t) ==
  /\ At(t, "undoVm")
  /\ IF vms[job[t].id] # None THEN EndVm(job[t].id) ELSE UNCHANGED <<qemu, vms>>
  /\ Goto(t, "undoHost")
  /\ UNCHANGED <<workspaces, ready, cids, file, net, storage, job>>

UndoHost(t) ==
  /\ At(t, "undoHost")
  /\ ReleaseNetwork(job[t].id, job[t].ws.ip)
  /\ DestroyDataset(job[t].ws.ds)
  /\ Return(t)
  /\ UNCHANGED <<memory, cids, file, qemu>>

-----------------------------------------------------------------------------
(* fork: the caller holds a permit of fork_semaphore until it returns *)

Forks == {t \in Tasks : job[t].op = "fork"}

Fork(t, source, i, n) ==
  /\ "fork" \in Calls /\ Callable(source) /\ Fresh(i)
  /\ Cardinality(Forks) < MaxForks
  /\ Call(t, "forkChecks", "fork", i, workspaces[source].ds, [Blank EXCEPT !.name = n])
  /\ UNCHANGED <<memory, cids, file, net, storage, qemu>>

ForkChecks(t) ==
  /\ At(t, "forkChecks")
  /\ IF Count < MaxWorkspaces /\ ~NameTaken(job[t].ws.name)
       THEN Goto(t, "clone") /\ UNCHANGED job
       ELSE Return(t)
  /\ UNCHANGED <<memory, cids, file, net, storage, qemu>>

Clone(t) ==
  LET i == job[t].id IN
  /\ At(t, "clone")
  /\ \/ /\ job[t].src \in datasets
        /\ datasets' = datasets \cup {i}
        /\ origin' = [origin EXCEPT ![i] = job[t].src]
        /\ job' = [job EXCEPT ![t].ws.ds = i]
        /\ Goto(t, "forkSetup")
     \/ /\ Fails("storage") \/ job[t].src \notin datasets
        /\ Return(t)
        /\ UNCHANGED storage
  /\ UNCHANGED <<memory, cids, file, net, qemu>>

ForkSetup(t) ==
  /\ At(t, "forkSetup")
  /\ \/ \E ip \in IPs :
          /\ SetupNetwork(job[t].id, ip)
          /\ job' = [job EXCEPT ![t].ws.ip = ip]
          /\ Goto(t, "cid")
          /\ UNCHANGED storage
     \/ /\ SetupFails(job[t].id)
        /\ DestroyDataset(job[t].id)
        /\ Return(t)
  /\ UNCHANGED <<memory, cids, file, qemu>>

-----------------------------------------------------------------------------
(* destroy: works on the copy taken at its start *)

Destroy(t, i) ==
  /\ "destroy" \in Calls /\ Callable(i)
  /\ Call(t, "endVm", "destroy", i, None, workspaces[i])
  /\ UNCHANGED <<memory, cids, file, net, storage, qemu>>

DestroyVm(t) ==
  /\ At(t, "endVm")
  /\ IF job[t].ws.state = "Running" /\ vms[job[t].id] # None
       THEN EndVm(job[t].id)
       ELSE UNCHANGED <<qemu, vms>>
  /\ Goto(t, "endNetwork")
  /\ UNCHANGED <<workspaces, ready, cids, file, net, storage, job>>

DestroyNetwork(t) ==
  /\ At(t, "endNetwork")
  /\ ReleaseNetwork(job[t].id, job[t].ws.ip)
  /\ Goto(t, "endStorage")
  /\ UNCHANGED <<memory, cids, file, storage, qemu, job>>

WrongDestroyStorage(t) ==  \* gives up on a dataset it cannot destroy
  /\ At(t, "endStorage")
  /\ \/ Destroyable(job[t].ws.ds) /\ RemoveDataset(job[t].ws.ds) /\ Goto(t, "endCid") /\ UNCHANGED job
     \/ Fails("destroy") /\ Return(t) /\ UNCHANGED storage
  /\ UNCHANGED <<memory, cids, file, net, qemu>>

\* Best effort: a dataset that cannot be destroyed stays behind.
DestroyStorage(t) ==
  /\ At(t, "endStorage")
  /\ DestroyDataset(job[t].ws.ds)
  /\ Goto(t, "endCid")
  /\ UNCHANGED <<memory, cids, file, net, qemu, job>>

DestroyCid(t) ==
  /\ At(t, "endCid")
  /\ RecycleCid(job[t].ws.cid)
  /\ Goto(t, "endEntry")
  /\ UNCHANGED <<memory, file, net, storage, qemu, job>>

DestroyEntry(t) ==
  /\ At(t, "endEntry")
  /\ workspaces' = [workspaces EXCEPT ![job[t].id] = None]
  /\ Goto(t, "save")
  /\ UNCHANGED <<vms, ready, cids, file, net, storage, qemu, job>>

-----------------------------------------------------------------------------
(* stop and start *)

Stop(t, i) ==
  /\ "stop" \in Calls /\ Callable(i) /\ workspaces[i].state = "Running"
  /\ Call(t, "stopVm", "stop", i, None, workspaces[i])
  /\ UNCHANGED <<memory, cids, file, net, storage, qemu>>

WrongStopVm(t) ==  \* releases the network as destroy does
  /\ At(t, "stopVm")
  /\ IF vms[job[t].id] # None THEN EndVm(job[t].id) ELSE UNCHANGED <<qemu, vms>>
  /\ ReleaseNetwork(job[t].id, workspaces[job[t].id].ip)
  /\ Goto(t, "markStopped")
  /\ UNCHANGED <<workspaces, ready, cids, file, storage, job>>

StopVm(t) ==
  /\ At(t, "stopVm")
  /\ IF vms[job[t].id] # None THEN EndVm(job[t].id) ELSE UNCHANGED <<qemu, vms>>
  /\ Goto(t, "markStopped")
  /\ UNCHANGED <<workspaces, ready, cids, file, net, storage, job>>

\* The entry may be gone by now.
Mark(t, state, pid) ==
  /\ workspaces' = IF workspaces[job[t].id] = None THEN workspaces
                   ELSE [workspaces EXCEPT ![job[t].id].state = state,
                                           ![job[t].id].pid = pid]
  /\ Goto(t, "save")
  /\ UNCHANGED <<vms, ready, cids, file, net, storage, qemu, job>>

MarkStopped(t) == At(t, "markStopped") /\ Mark(t, "Stopped", None)

Start(t, i) ==
  /\ "start" \in Calls /\ Callable(i) /\ workspaces[i].state = "Stopped"
  /\ Call(t, "ensureNetwork", "start", i, None, workspaces[i])
  /\ UNCHANGED <<memory, cids, file, net, storage, qemu>>

\* ensure_workspace_network destroys the TAP device and makes it again; the
\* address is taken from the copy and not looked up.
EnsureNetwork(t) ==
  /\ At(t, "ensureNetwork")
  /\ \/ taps' = taps \cup {job[t].id} /\ Goto(t, "launch") /\ UNCHANGED job
     \/ Fails("network") /\ taps' = taps \ {job[t].id} /\ Return(t)
     \/ Fails("tap") /\ taps' = taps \cup {job[t].id} /\ Return(t)
  /\ UNCHANGED <<memory, cids, file, leased, storage, qemu>>

MarkRunning(t) == At(t, "markRunning") /\ Mark(t, "Running", job[t].ws.pid)

-----------------------------------------------------------------------------
(* The warm pool *)

Deficit == Len(ready) < TargetFree /\ Len(ready) < MaxPoolSize

ReplenishPool(i) ==
  /\ PoolEnabled /\ Deficit /\ Len(ready) < PoolBudget /\ Fresh(i)
  /\ Call(Replenisher, "provision", "replenish", i, None, Blank)
  /\ UNCHANGED <<memory, cids, file, net, storage, qemu>>

AddReady(t) ==
  /\ At(t, "addReady")
  /\ ready' = Append(ready, [id |-> job[t].id, cid |-> job[t].ws.cid, ip |-> job[t].ws.ip])
  /\ Return(t)
  /\ UNCHANGED <<workspaces, vms, cids, file, net, storage, qemu>>

-----------------------------------------------------------------------------
(* The state file *)

SaveTimer ==
  /\ "save" \in Calls
  /\ Call(Saver, "save", "save", None, None, Blank)
  /\ UNCHANGED <<memory, cids, file, net, storage, qemu>>

Persisted ==
  [workspaces |-> workspaces, next_vsock_cid |-> next_vsock_cid,
   free_vsock_cids |-> free_vsock_cids]

WrongSaveBegin(t) ==  \* without save_lock
  /\ At(t, "save")
  /\ snapshot' = [snapshot EXCEPT ![t] = Persisted]
  /\ Goto(t, "write")
  /\ UNCHANGED <<memory, cids, save_lock, state_file, net, storage, qemu, job>>

\* save_state takes its snapshot under the read locks of all it saves, then
\* writes a temporary file and renames it.
SaveBegin(t) ==
  /\ At(t, "save")
  /\ save_lock = None
  /\ save_lock' = t
  /\ snapshot' = [snapshot EXCEPT ![t] = Persisted]
  /\ Goto(t, "write")
  /\ UNCHANGED <<memory, cids, state_file, net, storage, qemu, job>>

WrongSaveEnd(t) ==  \* a failed save keeps save_lock
  /\ At(t, "write")
  /\ \/ state_file' = snapshot[t] /\ save_lock' = None
     \/ Fails("save") /\ UNCHANGED <<state_file, save_lock>>
  /\ snapshot' = [snapshot EXCEPT ![t] = NothingPersisted]
  /\ Return(t)
  /\ UNCHANGED <<memory, cids, net, storage, qemu>>

\* A failed save is only logged.
SaveEnd(t) ==
  /\ At(t, "write")
  /\ save_lock' = None
  /\ \/ state_file' = snapshot[t]
     \/ Fails("save") /\ UNCHANGED state_file
  /\ snapshot' = [snapshot EXCEPT ![t] = NothingPersisted]
  /\ Return(t)
  /\ UNCHANGED <<memory, cids, net, storage, qemu>>

-----------------------------------------------------------------------------
(* What the host does to it *)

VmDies(p) ==
  /\ Fails("vm") /\ p \in Alive
  /\ qemu' = [qemu EXCEPT ![p] = None]
  /\ UNCHANGED <<memory, cids, file, net, storage, pc, job>>

\* load_state on what the dead daemon left behind.
StillRuns(ws) == ws.state = "Running" /\ ws.pid \in Alive
Adopted == {i \in Ids : state_file.workspaces[i] # None /\ StillRuns(state_file.workspaces[i])}
Loaded ==
  [i \in Ids |->
     IF state_file.workspaces[i] = None \/ i \in Adopted
       THEN state_file.workspaces[i]
       ELSE [state_file.workspaces[i] EXCEPT !.state = "Stopped", !.pid = None]]
LoadedStopped == {i \in Ids : Loaded[i] # None /\ Loaded[i].state = "Stopped"}
Zombies ==
  IF datasets = {} /\ LoadedStopped # {} THEN {}
  ELSE {i \in LoadedStopped : Loaded[i].ds \notin datasets}
AddressesOf(S) == {Loaded[i].ip : i \in {j \in S : Loaded[j] # None}}

\* Devices create_tap failed to attach: the sweep of the bridge misses them.
OffBridge == IF Fails("tap") THEN {i \in taps : state_file.workspaces[i] = None} ELSE {}

WrongLoadedCounter == CidStart  \* starts counting again
LoadedCounter == state_file.next_vsock_cid

Orders(S) ==
  {s \in [1..Cardinality(S) -> S] : \A k, l \in DOMAIN s : s[k] = s[l] => k = l}

\* cleanup_orphan_qemu_processes kills every QEMU of the run directory, found by
\* its PID file or by its command line.
KillOrphans == qemu' = [i \in Ids |-> None]

\* The daemon dies between two steps, its QEMU processes and host state stay,
\* and the next daemon loads the state file before it serves requests.
Restart ==
  /\ Fails("crash")
  /\ workspaces' = [i \in Ids |-> IF i \in Zombies THEN None ELSE Loaded[i]]
  /\ leased' = AddressesOf(Ids) \ AddressesOf(Zombies)
  /\ \E order \in Orders(Zombies) :
       free_vsock_cids' = state_file.free_vsock_cids
                          \o [k \in DOMAIN order |-> Loaded[order[k]].cid]
  /\ next_vsock_cid' = LoadedCounter
  /\ KillOrphans
  /\ \E stray \in SUBSET OffBridge : taps' = (taps \cap Adopted) \cup stray
  /\ vms' = [i \in Ids |-> None]
  /\ ready' = <<>>
  /\ save_lock' = None
  /\ snapshot' = [t \in Tasks |-> NothingPersisted]
  /\ pc' = [t \in Tasks |-> "idle"]
  /\ job' = [t \in Tasks |-> NoJob]
  /\ UNCHANGED <<state_file, storage>>

-----------------------------------------------------------------------------
Arrive(t) ==
  \/ \E i \in Ids : \E n \in Names \cup {i} :
       \/ \E default \in BOOLEAN : Create(t, i, n, default)
       \/ \E source \in Ids : Fork(t, source, i, n)
  \/ \E i \in Ids : Destroy(t, i) \/ Stop(t, i) \/ Start(t, i)

Step(t) ==
  \/ Claim(t) \/ WarmRelease(t) \/ WarmSetup(t) \/ Rekey(t) \/ WarmRegister(t)
  \/ Provision(t) \/ PopCid(t) \/ CountCid(t) \/ Launch(t) \/ Configure(t) \/ Register(t)
  \/ UndoCid(t) \/ UndoVm(t) \/ UndoHost(t)
  \/ ForkChecks(t) \/ Clone(t) \/ ForkSetup(t)
  \/ DestroyVm(t) \/ DestroyNetwork(t) \/ DestroyStorage(t) \/ DestroyCid(t) \/ DestroyEntry(t)
  \/ StopVm(t) \/ MarkStopped(t) \/ EnsureNetwork(t) \/ MarkRunning(t)
  \/ AddReady(t) \/ SaveBegin(t) \/ SaveEnd(t)

Next ==
  \/ \E t \in Requests : Arrive(t)
  \/ \E t \in Tasks : Step(t)
  \/ \E i \in Ids : ReplenishPool(i)
  \/ SaveTimer
  \/ \E p \in Ids : VmDies(p)
  \/ Restart

Spec == Init /\ [][Next]_vars

\* A request, once begun, runs on; save_lock is a tokio Mutex, which serves its
\* waiters in order.
FairSpec ==
  /\ Spec
  /\ \A t \in Tasks : WF_vars(Step(t)) /\ SF_vars(SaveBegin(t))
=============================================================================
