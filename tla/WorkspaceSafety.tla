-------------------------- MODULE WorkspaceSafety --------------------------
(***************************************************************************)
(* What WorkspaceLifecycle must keep true.  A resource (a vsock CID, a     *)
(* guest address, a dataset, a TAP device, a QEMU process) has an owner: a *)
(* registered workspace, a warm VM of the pool, the free list, or the task *)
(* that is building or tearing down.  A task that destroys a workspace     *)
(* takes each resource from it in turn, and gives it up in that step.      *)
(***************************************************************************)
EXTENDS WorkspaceLifecycle

Labels ==
  {"idle", "claim", "warmRelease", "warmSetup", "rekey", "warmRegister", "provision",
   "cid", "counter", "launch", "configure", "register", "addReady", "undoCid", "undoVm",
   "undoHost", "forkChecks", "clone", "forkSetup", "endVm", "endNetwork", "endStorage",
   "endCid", "endEntry", "stopVm", "markStopped", "ensureNetwork", "markRunning",
   "save", "write"}

TypeOK ==
  /\ workspaces \in [Ids -> Workspace \cup {None}]
  /\ vms \in [Ids -> Ids \cup {None}]
  /\ ready \in Seq(WarmVm)
  /\ next_vsock_cid \in CidStart..CidLimit
  /\ free_vsock_cids \in Seq(Cids)
  /\ leased \subseteq IPs
  /\ save_lock \in Tasks \cup {None}
  /\ snapshot \in [Tasks -> PersistedState]
  /\ state_file \in PersistedState
  /\ qemu \in [Ids -> Process \cup {None}]
  /\ taps \subseteq Ids
  /\ datasets \subseteq Ids
  /\ origin \in [Ids -> Ids \cup {None}]
  /\ pc \in [Tasks -> Labels]
  /\ \A t \in Tasks :
       /\ job[t].op \in {"none", "replenish"} \cup AllCalls
       /\ {job[t].id, job[t].src, job[t].ws.ds, job[t].ws.pid} \subseteq Ids \cup {None}
       /\ job[t].ws.name \in Names \cup Ids \cup {None}
       /\ job[t].ws.state \in States
       /\ job[t].ws.cid \in Cids \cup {None}
       /\ job[t].ws.ip \in IPs \cup {None}

-----------------------------------------------------------------------------
(* Owners *)

Builders == {"create", "fork", "replenish"}
WarmPath == {"warmRelease", "warmSetup", "rekey", "warmRegister"}
ColdPath == {"launch", "configure", "register", "addReady", "undoCid"}
HoldsCid == WarmPath \cup ColdPath
HoldsIp == {"warmRelease", "rekey", "warmRegister", "cid", "counter", "undoVm", "undoHost"}
           \cup ColdPath
HoldsDisk == WarmPath \cup ColdPath \cup {"forkSetup", "cid", "counter", "undoVm", "undoHost"}

Builds(t, labels) == job[t].op \in Builders /\ pc[t] \in labels
TornDown(i, labels) == \E t \in Tasks : job[t].op = "destroy" /\ job[t].id = i /\ pc[t] \in labels

Warm == DOMAIN ready
KeepsCid == {i \in Registered : ~TornDown(i, {"endEntry"})}
KeepsIp == {i \in Registered : ~TornDown(i, {"endStorage", "endCid", "endEntry"})}
KeepsDisk == {i \in Registered : ~TornDown(i, {"endCid", "endEntry"})}

CidOwners(c) ==
  {<<"workspace", i>> : i \in {j \in KeepsCid : workspaces[j].cid = c}}
  \cup {<<"warm", k>> : k \in {j \in Warm : ready[j].cid = c}}
  \cup {<<"free", k>> : k \in {j \in DOMAIN free_vsock_cids : free_vsock_cids[j] = c}}
  \cup {<<"task", t>> : t \in {u \in Tasks : Builds(u, HoldsCid) /\ job[u].ws.cid = c}}

IpOwners(a) ==
  {<<"workspace", i>> : i \in {j \in KeepsIp : workspaces[j].ip = a}}
  \cup {<<"warm", k>> : k \in {j \in Warm : ready[j].ip = a}}
  \cup {<<"task", t>> : t \in {u \in Tasks : Builds(u, HoldsIp) /\ job[u].ws.ip = a}}

DiskOwners(d) ==
  {<<"workspace", i>> : i \in {j \in KeepsDisk : workspaces[j].ds = d}}
  \cup {<<"warm", k>> : k \in {j \in Warm : ready[j].id = d}}
  \cup {<<"task", t>> : t \in {u \in Tasks : Builds(u, HoldsDisk) /\ job[u].ws.ds = d}}

\* No request is at work on i.
Quiet(i) == ~Busy(i)

-----------------------------------------------------------------------------
(* CIDs and addresses *)

\* A CID has at most one owner, and a CID the counter has yet to issue has
\* none: recycle_vsock_cid on every rollback and destroy path gives a CID back
\* once, and only after the VM that used it lost its place.
CidExclusive ==
  \A c \in Cids :
    /\ \A o, p \in CidOwners(c) : o = p
    /\ c >= next_vsock_cid => CidOwners(c) = {}

\* No CID is lost: each issued one has an owner.
CidsAccountedFor == \A c \in CidStart..(next_vsock_cid - 1) : CidOwners(c) # {}

\* Between them: every CID that was issued has exactly one owner.
CidsOwnedOnce == CidExclusive /\ CidsAccountedFor

\* A guest address belongs to at most one workspace, warm VM or task, and is
\* leased as long as it belongs to one: cleanup_workspace on the rollback,
\* destroy and claim paths releases no address that is in use.
IpExclusive ==
  \A a \in IPs :
    /\ \A o, p \in IpOwners(a) : o = p
    /\ IpOwners(a) # {} => a \in leased

\* No address stays leased without an owner.
IpsAccountedFor == \A a \in leased : IpOwners(a) # {}

\* Between them: an address is leased exactly when it has an owner, and then
\* it has one.
IpsOwnedOnce == IpExclusive /\ IpsAccountedFor

-----------------------------------------------------------------------------
(* Disks, devices and processes *)

\* A disk belongs to one owner and exists as long as it does, however the
\* requests overlap: destroy and the rollbacks remove no disk that is in use.
DiskKept ==
  \A d \in Ids :
    /\ \A o, p \in DiskOwners(d) : o = p
    /\ DiskOwners(d) # {} => d \in datasets

\* No disk is left behind: the step that takes its last owner removes it,
\* unless a fork still depends on it.
DisksAccountedFor ==
  [][\A d \in datasets : DiskOwners(d) # {} /\ DiskOwners(d)' = {} =>
       d \notin datasets' \/ \E e \in datasets : origin[e] = d]_vars

\* Rollbacks, destroy and the claim of a warm VM leave no TAP device behind.
TapsAccountedFor ==
  \A i \in taps :
    \/ i \in Registered
    \/ \E k \in Warm : ready[k].id = i
    \/ \E t \in Tasks : job[t].op \in Builders /\ i \in {job[t].id, job[t].src}

\* A QEMU process is under the control of one handle, kept for a workspace
\* marked Running, a warm VM or a request at work on it.
ProcessesOwned ==
  \A p \in Ids : qemu[p] # None =>
    \E i \in Ids :
      /\ \A j \in Ids : vms[j] = p <=> j = i
      /\ \/ i \in Registered /\ workspaces[i].state = "Running"
         \/ \E k \in Warm : ready[k].id = i
         \/ Busy(i) \/ \E t \in Tasks : job[t].src = i

\* What a workspace's state says of its VM is so whenever no request is at
\* work on it: Running has a live process on its disk with its CID, Stopped
\* has none.
StateMatchesVm ==
  \A i \in Registered : Quiet(i) =>
    IF workspaces[i].state = "Running"
      THEN /\ vms[i] # None /\ vms[i] = workspaces[i].pid
           /\ qemu[vms[i]] # None
           /\ qemu[vms[i]].ds = workspaces[i].ds /\ qemu[vms[i]].cid = workspaces[i].cid
      ELSE /\ vms[i] = None
           /\ \A p \in Ids : qemu[p] # None => qemu[p].ds # workspaces[i].ds

\* Between them: no request, rollback or destroy leaves a process behind or a
\* workspace that is wrong about its VM.
VmsAccountedFor == ProcessesOwned /\ StateMatchesVm

\* A claimed warm VM takes its address, disk, device and process along into the
\* workspace (assign_warm_vm), and the races for it leave nothing without an owner.
PoolHandsOver == IpExclusive /\ DiskKept /\ TapsAccountedFor /\ StateMatchesVm

-----------------------------------------------------------------------------
(* Limits *)

\* Concurrent creates and forks together never register more workspaces than
\* the quota allows: the check under the write lock decides.
QuotaHeld == Count <= MaxWorkspaces

-----------------------------------------------------------------------------
(* The state file *)

\* When no request is at work on a workspace, the file says what memory says:
\* a save that began before a change never overwrites one that includes it.
FileIsCurrent == \A i \in Ids : Quiet(i) => state_file.workspaces[i] = workspaces[i]

\* The comment in save_state: no workspace (nor the free list) is saved with a
\* CID the saved counter would issue again.
SavedCounterFresh ==
  /\ \A i \in Ids : state_file.workspaces[i] # None =>
       state_file.workspaces[i].cid < state_file.next_vsock_cid
  /\ \A k \in DOMAIN state_file.free_vsock_cids :
       state_file.free_vsock_cids[k] < state_file.next_vsock_cid

\* A crash loses no workspace whose disk exists and on which no request was at
\* work, whatever the others were doing, and keeps its name, disk, CID and
\* address.
SameIdentity(ws, ws2) ==
  ws2 # None /\ <<ws2.name, ws2.ds, ws2.cid, ws2.ip>> = <<ws.name, ws.ds, ws.cid, ws.ip>>
SurvivesRestart ==
  \A i \in Registered : Quiet(i) /\ workspaces[i].ds \in datasets =>
    SameIdentity(workspaces[i], workspaces'[i])
RestartKeepsWorkspaces == [][Restart => SurvivesRestart]_vars

-----------------------------------------------------------------------------
(* Progress *)

\* Every request comes to an end, whichever step of it fails, although saves
\* queue for save_lock.
RequestsReturn == \A t \in Requests : pc[t] # "idle" ~> pc[t] = "idle"

\* "Best-effort so state cleanup always runs": a workspace under destruction
\* disappears from memory even when its disk cannot be removed, so that its
\* name does not stay taken.
DestroyForgets == \A i \in Ids : TornDown(i, {"endVm"}) ~> workspaces[i] = None

-----------------------------------------------------------------------------
(* What the documentation promises and the code does not keep *)

\* docs/architecture.md:99: "Each VM is assigned a unique CID".
WorkspaceCidsDistinct ==
  \A i, j \in Registered : workspaces[i].cid = workspaces[j].cid => i = j

\* The note in load_state: "this only kills processes not adopted above;
\* adopted PIDs are preserved".
AdoptedVmsSurvive ==
  [][Restart => \A i \in Adopted : state_file.workspaces[i].pid \in Alive']_vars
=============================================================================
