----------------------- MODULE WorkspaceSafety_proofs -----------------------
(***************************************************************************)
(* Proofs about WorkspaceLifecycle for any number of requests, workspaces  *)
(* and addresses: types; what the state file has of the CID counter and of *)
(* the registry, and what a restart makes of it; the quota without the     *)
(* warm pool.  The proofs hold whichever calls overlap, and but for what a *)
(* theorem assumes, whichever steps fail and whenever the daemon dies.     *)
(***************************************************************************)
EXTENDS WorkspaceSafety, FiniteSetTheorems, SequenceTheorems, TLAPS

-----------------------------------------------------------------------------
(* Types: which locals a task has at each of its places *)

Drafts ==
  [name : Names \cup Ids \cup {None}, state : States, ds : Ids \cup {None},
   cid : Cids \cup {None}, ip : IPs \cup {None}, pid : Ids \cup {None}]
JobRecords ==
  [op : {"none", "replenish"} \cup AllCalls, id : Ids \cup {None}, src : Ids \cup {None},
   ws : Drafts]

\* Which locals a task has at which place, and what it is doing there.
Working == Labels \ {"idle", "save", "write"}
Ending == {"endVm", "endNetwork", "endStorage", "endCid"}
WithDisk == WarmPath \cup ColdPath \cup {"ensureNetwork", "forkSetup", "cid", "counter"}
WithCid == HoldsCid \cup Ending \cup {"ensureNetwork"}
WithIp == WarmPath \cup ColdPath \cup {"ensureNetwork", "cid", "counter"}

Shaped(j, label) ==
  /\ label \in Working => j.id \in Ids
  /\ label \in WarmPath \cup {"forkChecks", "clone"} => j.src \in Ids
  /\ label \in WithDisk => j.ws.ds \in Ids
  /\ label \in WithCid => j.ws.cid \in Cids
  /\ label \in WithIp => j.ws.ip \in IPs
  /\ j.op \in {"create", "fork"} => j.ws.name \in Names \cup Ids
  /\ label \in {"claim", "configure"} \cup WarmPath => j.op = "create"
  /\ label = "register" => j.op \in {"create", "fork"}
  /\ label \in {"forkChecks", "clone", "forkSetup"} => j.op = "fork"
  /\ label \in {"provision", "cid", "counter", "undoCid", "undoVm", "undoHost"} => j.op \in Builders
  /\ label = "launch" => j.op \in Builders \cup {"start"}
  /\ label = "addReady" => j.op = "replenish"
  /\ label \in {"ensureNetwork", "markRunning"} => j.op = "start"
  /\ label \in {"stopVm", "markStopped"} => j.op = "stop"
  /\ label \in Ending \cup {"endEntry"} => j.op = "destroy"

JobsOK ==
  /\ pc \in [Tasks -> Labels]
  /\ job \in [Tasks -> JobRecords]
  /\ \A t \in Tasks : Shaped(job[t], pc[t])

HostOK ==
  /\ vms \in [Ids -> Ids \cup {None}]
  /\ qemu \in [Ids -> Process \cup {None}]
  /\ leased \subseteq IPs /\ taps \subseteq Ids
  /\ datasets \subseteq Ids /\ origin \in [Ids -> Ids \cup {None}]
RegistryOK == workspaces \in [Ids -> Workspace \cup {None}]
PoolOK == ready \in Seq(WarmVm)
CidsOK == next_vsock_cid \in CidStart..CidLimit /\ free_vsock_cids \in Seq(Cids)
Saved == {p \in PersistedState : p.next_vsock_cid >= CidStart}
SavesOK ==
  /\ save_lock \in Tasks \cup {None}
  /\ snapshot \in [Tasks -> Saved] /\ state_file \in Saved

TypeInv == JobsOK /\ HostOK /\ RegistryOK /\ PoolOK /\ CidsOK /\ SavesOK

\* TypeOK looks at the fields of a task one by one.
LEMMA TypeInvMeansTypeOK ==
  ASSUME TypeInv
  PROVE  TypeOK
<1>1. job \in [Tasks -> JobRecords] /\ pc \in [Tasks -> Labels]
  BY DEF TypeInv, JobsOK
<1>2. ASSUME NEW t \in Tasks
      PROVE  /\ job[t].op \in {"none", "replenish"} \cup AllCalls
             /\ {job[t].id, job[t].src, job[t].ws.ds, job[t].ws.pid} \subseteq Ids \cup {None}
             /\ job[t].ws.name \in Names \cup Ids \cup {None}
             /\ job[t].ws.state \in States
             /\ job[t].ws.cid \in Cids \cup {None}
             /\ job[t].ws.ip \in IPs \cup {None}
  <2> PICK j \in JobRecords : j = job[t]
    BY <1>1
  <2> QED BY DEF JobRecords, Drafts
<1> QED
  BY <1>1, <1>2 DEF TypeInv, TypeOK, HostOK, RegistryOK, PoolOK, CidsOK, SavesOK, Saved

\* A task that goes on with locals that fit its next place.
LEMMA TaskMoves ==
  ASSUME JobsOK, NEW t \in Tasks, NEW label \in Labels, Goto(t, label),
         NEW j \in JobRecords, job' = [job EXCEPT ![t] = j], Shaped(j, label)
  PROVE  JobsOK'
<1>1. pc' \in [Tasks -> Labels] /\ job' \in [Tasks -> JobRecords]
  BY DEF JobsOK, Goto
<1>2. ASSUME NEW u \in Tasks PROVE Shaped(job'[u], pc'[u])
  <2>1. CASE u = t
    <3>1. job'[u] = j /\ pc'[u] = label
      BY <2>1 DEF JobsOK, Goto
    <3> QED BY <3>1
  <2>2. CASE u # t
    <3>1. job'[u] = job[u] /\ pc'[u] = pc[u]
      BY <2>2 DEF JobsOK, Goto
    <3> QED BY <3>1 DEF JobsOK
  <2> QED BY <2>1, <2>2
<1> QED BY <1>1, <1>2 DEF JobsOK

\* The same with the locals it has.
LEMMA TaskGoes ==
  ASSUME JobsOK, NEW t \in Tasks, NEW label \in Labels, Goto(t, label),
         UNCHANGED job, Shaped(job[t], label)
  PROVE  JobsOK'
<1>1. job[t] \in JobRecords /\ job' = [job EXCEPT ![t] = job[t]]
  BY DEF JobsOK
<1> QED BY <1>1, TaskMoves

\* An idle task has no locals.
LEMMA NoJobShaped == NoJob \in JobRecords /\ Shaped(NoJob, "idle")
BY DEF NoJob, Blank, JobRecords, Drafts, AllCalls, States, Shaped, Working, WarmPath, WithDisk,
       WithCid, WithIp, HoldsCid, ColdPath, Ending, Labels, Builders

\* A request that ends, at whichever step.
LEMMA TaskReturns ==
  ASSUME JobsOK, NEW t \in Tasks, Return(t)
  PROVE  JobsOK'
BY TaskMoves, NoJobShaped DEF Return, Labels

\* How the locals of a task read once it has claimed a warm VM, has its disk and
\* its address, or has its address.
Claimed(j, warm) ==
  [j EXCEPT !.src = warm.id, !.ws.ds = warm.id, !.ws.cid = warm.cid,
            !.ws.ip = warm.ip, !.ws.pid = warm.id]
Provisioned(j, ds, ip) == [j EXCEPT !.ws.ds = ds, !.ws.ip = ip]
Addressed(j, ip) == [j EXCEPT !.ws.ip = ip]

LEMMA ClaimedRecord ==
  ASSUME NEW j \in JobRecords, NEW warm \in WarmVm
  PROVE  /\ Claimed(j, warm) \in JobRecords
         /\ Claimed(j, warm).op = j.op /\ Claimed(j, warm).id = j.id
         /\ Claimed(j, warm).src = warm.id
         /\ Claimed(j, warm).ws.name = j.ws.name /\ Claimed(j, warm).ws.ds = warm.id
         /\ Claimed(j, warm).ws.cid = warm.cid /\ Claimed(j, warm).ws.ip = warm.ip
         /\ Claimed(j, warm).ws.pid = warm.id /\ Claimed(j, warm).ws.state = j.ws.state
<1> DEFINE k == Claimed(j, warm)
           ws == [j.ws EXCEPT !.ds = warm.id, !.cid = warm.cid, !.ip = warm.ip, !.pid = warm.id]
<1>1. j.ws \in Drafts /\ warm.id \in Ids /\ warm.cid \in Cids /\ warm.ip \in IPs
  BY DEF JobRecords, WarmVm
<1>2. /\ ws \in Drafts /\ ws.name = j.ws.name /\ ws.ds = warm.id /\ ws.cid = warm.cid
      /\ ws.ip = warm.ip /\ ws.pid = warm.id /\ ws.state = j.ws.state
  BY <1>1 DEF Drafts
<1>3. k = [j EXCEPT !.src = warm.id, !.ws = ws]
  BY DEF JobRecords, Claimed
<1> HIDE DEF ws, k
<1>4. /\ k \in JobRecords
      /\ k.op = j.op /\ k.id = j.id /\ k.src = warm.id /\ k.ws = ws
  BY <1>1, <1>2, <1>3 DEF JobRecords
<1> QED BY <1>2, <1>4 DEF k

LEMMA ProvisionedRecord ==
  ASSUME NEW j \in JobRecords, NEW d \in Ids, NEW ip \in IPs
  PROVE  /\ Provisioned(j, d, ip) \in JobRecords
         /\ Provisioned(j, d, ip).op = j.op /\ Provisioned(j, d, ip).id = j.id
         /\ Provisioned(j, d, ip).src = j.src
         /\ Provisioned(j, d, ip).ws.name = j.ws.name /\ Provisioned(j, d, ip).ws.ds = d
         /\ Provisioned(j, d, ip).ws.cid = j.ws.cid /\ Provisioned(j, d, ip).ws.ip = ip
<1> DEFINE k == Provisioned(j, d, ip)
           ws == [j.ws EXCEPT !.ds = d, !.ip = ip]
<1>1. j.ws \in Drafts
  BY DEF JobRecords
<1>2. /\ ws \in Drafts /\ ws.name = j.ws.name /\ ws.ds = d /\ ws.cid = j.ws.cid /\ ws.ip = ip
  BY <1>1 DEF Drafts
<1>3. k = [j EXCEPT !.ws = ws]
  BY DEF JobRecords, Provisioned
<1> HIDE DEF ws, k
<1>4. k \in JobRecords /\ k.op = j.op /\ k.id = j.id /\ k.src = j.src /\ k.ws = ws
  BY <1>1, <1>2, <1>3 DEF JobRecords
<1> QED BY <1>2, <1>4 DEF k

LEMMA AddressedRecord ==
  ASSUME NEW j \in JobRecords, NEW ip \in IPs
  PROVE  /\ Addressed(j, ip) \in JobRecords
         /\ Addressed(j, ip).op = j.op /\ Addressed(j, ip).id = j.id
         /\ Addressed(j, ip).src = j.src
         /\ Addressed(j, ip).ws.name = j.ws.name /\ Addressed(j, ip).ws.ds = j.ws.ds
         /\ Addressed(j, ip).ws.cid = j.ws.cid /\ Addressed(j, ip).ws.ip = ip
<1> DEFINE k == Addressed(j, ip)
           ws == [j.ws EXCEPT !.ip = ip]
<1>1. j.ws \in Drafts
  BY DEF JobRecords
<1>2. /\ ws \in Drafts /\ ws.name = j.ws.name /\ ws.ds = j.ws.ds /\ ws.cid = j.ws.cid /\ ws.ip = ip
  BY <1>1 DEF Drafts
<1>3. k = [j EXCEPT !.ws = ws]
  BY DEF JobRecords, Addressed
<1> HIDE DEF ws, k
<1>4. k \in JobRecords /\ k.op = j.op /\ k.id = j.id /\ k.src = j.src /\ k.ws = ws
  BY <1>1, <1>2, <1>3 DEF JobRecords
<1> QED BY <1>2, <1>4 DEF k

\* Claim takes the first VM of the pool.
LEMMA ClaimTakes ==
  ASSUME JobsOK, PoolOK, NEW t \in Tasks, Claim(t), ready # <<>>
  PROVE  /\ job' = [job EXCEPT ![t] = job'[t]] /\ job'[t] \in JobRecords
         /\ Head(ready) \in WarmVm /\ ready' = Tail(ready)
         /\ pc[t] = "claim" /\ Goto(t, "warmRelease")
         /\ job'[t].op = job[t].op /\ job'[t].id = job[t].id /\ job'[t].src = Head(ready).id
         /\ job'[t].ws.name = job[t].ws.name /\ job'[t].ws.ds = Head(ready).id
         /\ job'[t].ws.cid = Head(ready).cid /\ job'[t].ws.ip = Head(ready).ip
         /\ job'[t].ws.pid = Head(ready).id /\ job'[t].ws.state = job[t].ws.state
<1> PICK warm \in WarmVm : warm = Head(ready)
  BY DEF PoolOK
<1>1. job \in [Tasks -> JobRecords]
  BY DEF JobsOK
<1>2. job' = [job EXCEPT ![t].src = warm.id, ![t].ws.ds = warm.id, ![t].ws.cid = warm.cid,
                         ![t].ws.ip = warm.ip, ![t].ws.pid = warm.id]
  BY DEF Claim
<1>3. job'[t] = Claimed(job[t], warm)
  BY <1>1, <1>2 DEF Claimed
<1>4. job' = [job EXCEPT ![t] = job'[t]]
  <2>1. \A u \in Tasks : u # t => job'[u] = job[u]
    BY <1>1, <1>2
  <2>2. job' = [u \in Tasks |-> job'[u]]
    BY <1>1, <1>2
  <2> QED BY <1>1, <2>1, <2>2
<1>5. job[t] \in JobRecords
  BY <1>1
<1>6. ready' = Tail(ready) /\ pc[t] = "claim" /\ Goto(t, "warmRelease")
  BY DEF Claim, At
<1> QED BY <1>3, <1>4, <1>5, <1>6, ClaimedRecord

\* The steps of create up to the CID, by the pool and without it.
LEMMA CreateShapes ==
  ASSUME TypeInv, NEW t \in Tasks,
         \/ Claim(t) \/ WarmRelease(t) \/ WarmSetup(t) \/ Rekey(t) \/ WarmRegister(t)
         \/ Provision(t)
  PROVE  JobsOK'
<1> DEFINE j == job[t]
<1> USE DEF Shaped, Working, Labels, WithDisk, WithCid, WithIp, WarmPath, ColdPath, HoldsCid,
            Ending, Builders
<1>1. JobsOK /\ j \in JobRecords /\ Shaped(j, pc[t]) /\ RegistryOK /\ PoolOK
  BY DEF TypeInv, JobsOK
<1>11. job \in [Tasks -> JobRecords]
  BY <1>1 DEF JobsOK
<1>2. CASE Claim(t)
  <2>1. CASE ready = <<>>
    BY <1>1, <1>2, <2>1, TaskGoes DEF Claim, At
  <2>2. CASE ready # <<>>
    <3> DEFINE warm == Head(ready)
               k == job'[t]
    <3> HIDE DEF Shaped
    <3>1. /\ job' = [job EXCEPT ![t] = k] /\ k \in JobRecords /\ Goto(t, "warmRelease")
          /\ warm \in WarmVm
          /\ k.op = j.op /\ k.id = j.id /\ k.src = warm.id /\ k.ws.name = j.ws.name
          /\ k.ws.ds = warm.id /\ k.ws.cid = warm.cid /\ k.ws.ip = warm.ip
      BY <1>1, <1>2, <2>2, ClaimTakes
    <3>2. warm.id \in Ids /\ warm.cid \in Cids /\ warm.ip \in IPs
      BY <3>1 DEF WarmVm
    <3>3. Shaped(j, "claim")
      BY <1>1, <1>2 DEF Claim, At
    <3> HIDE DEF k, j, warm
    <3>4. Shaped(k, "warmRelease")
      BY <3>1, <3>2, <3>3 DEF Shaped
    <3> QED BY <1>1, <3>1, <3>4, TaskMoves
  <2> QED BY <2>1, <2>2
<1>3. CASE WarmRelease(t) \/ Rekey(t) \/ WarmRegister(t)
  BY <1>1, <1>3, TaskGoes DEF WarmRelease, Rekey, WarmRegister, At
<1>4. CASE WarmSetup(t)
  <2>1. ASSUME NEW ip \in IPs, job' = [job EXCEPT ![t].ws.ip = ip], Goto(t, "rekey")
        PROVE  JobsOK'
    <3> DEFINE k == job'[t]
    <3>1. Shaped(j, "warmSetup")
      BY <1>1, <1>4 DEF WarmSetup, At
    <3> HIDE DEF Shaped
    <3>4. k = Addressed(j, ip) /\ j \in JobRecords
      BY <1>11, <2>1 DEF Addressed
    <3>5. job' = [job EXCEPT ![t] = k]
      BY <1>11, <2>1
    <3>2. /\ k \in JobRecords
          /\ k.op = j.op /\ k.id = j.id /\ k.src = j.src /\ k.ws.name = j.ws.name
          /\ k.ws.ds = j.ws.ds /\ k.ws.cid = j.ws.cid /\ k.ws.ip = ip
      BY <3>4, AddressedRecord
    <3> HIDE DEF k, j
    <3>3. Shaped(k, "rekey")
      BY <3>1, <3>2 DEF Shaped
    <3> QED BY <1>1, <2>1, <3>2, <3>3, <3>5, TaskMoves
  <2> QED BY <1>1, <1>4, <2>1, TaskReturns DEF WarmSetup
<1>5. CASE Provision(t)
  <2>1. ASSUME NEW ip \in IPs, Goto(t, "cid"),
               job' = [job EXCEPT ![t].ws.ds = j.id, ![t].ws.ip = ip]
        PROVE  JobsOK'
    <3> DEFINE k == job'[t]
    <3>1. Shaped(j, "provision") /\ j.id \in Ids
      BY <1>1, <1>5 DEF Provision, At
    <3> HIDE DEF Shaped
    <3>4. k = Provisioned(j, j.id, ip) /\ j \in JobRecords
      BY <1>11, <2>1 DEF Provisioned
    <3>5. job' = [job EXCEPT ![t] = k]
      BY <1>11, <2>1
    <3>2. /\ k \in JobRecords
          /\ k.op = j.op /\ k.id = j.id /\ k.src = j.src /\ k.ws.name = j.ws.name
          /\ k.ws.ds = j.id /\ k.ws.cid = j.ws.cid /\ k.ws.ip = ip
      BY <3>1, <3>4, ProvisionedRecord
    <3> HIDE DEF k, j
    <3>3. Shaped(k, "cid")
      BY <3>1, <3>2 DEF Shaped
    <3> QED BY <1>1, <2>1, <3>2, <3>3, <3>5, TaskMoves
  <2> QED BY <1>1, <1>5, <2>1, TaskReturns DEF Provision
<1> QED BY <1>2, <1>3, <1>4, <1>5

\* The CID and the launch, and what undoes them.
LEMMA LaunchShapes ==
  ASSUME TypeInv, NEW t \in Tasks,
         \/ PopCid(t) \/ CountCid(t) \/ Launch(t) \/ Configure(t) \/ Register(t)
         \/ UndoCid(t) \/ UndoVm(t) \/ UndoHost(t) \/ AddReady(t)
  PROVE  JobsOK'
<1> DEFINE j == job[t]
<1> USE DEF Shaped, Working, Labels, WithDisk, WithCid, WithIp, WarmPath, ColdPath, HoldsCid,
            Ending, Builders
<1>1. JobsOK /\ j \in JobRecords /\ Shaped(j, pc[t]) /\ CidsOK
  BY DEF TypeInv, JobsOK
<1>2. ASSUME pc[t] \in {"cid", "counter"}, NEW c \in Cids, CidKnown(t, c) PROVE JobsOK'
  <2> DEFINE k == [j EXCEPT !.ws.cid = c]
  <2>1. job' = [job EXCEPT ![t] = k] /\ Goto(t, "launch")
    BY <1>1, <1>2 DEF JobsOK, CidKnown
  <2>2. k \in JobRecords /\ Shaped(k, "launch")
    BY <1>1, <1>2 DEF JobRecords, Drafts
  <2> QED BY <1>1, <2>1, <2>2, TaskMoves
<1>3. CASE PopCid(t)
  <2>1. CASE free_vsock_cids = <<>>
    BY <1>1, <1>3, <2>1, TaskGoes DEF PopCid, At
  <2>2. CASE free_vsock_cids # <<>>
    BY <1>1, <1>2, <1>3, <2>2 DEF PopCid, At, CidsOK
  <2> QED BY <2>1, <2>2
<1>4. CASE CountCid(t)
  <2>1. CASE next_vsock_cid < CidLimit
    <3>1. next_vsock_cid \in Cids
      BY <1>1, <2>1, ConstantsAssumption DEF Cids, CidsOK
    <3> QED BY <1>1, <1>2, <1>4, <2>1, <3>1, ConstantsAssumption DEF CountCid, At, CidsOK
  <2>2. CASE next_vsock_cid = CidLimit
    BY <1>1, <1>4, <2>2, TaskGoes, TaskReturns, ConstantsAssumption DEF CountCid, At
  <2> QED BY <1>4, <2>1, <2>2 DEF CountCid
<1>5. CASE Launch(t)
  <2>1. CASE /\ job' = [job EXCEPT ![t].ws.pid = j.id]
             /\ Goto(t, AfterLaunch(j.op))
    <3> DEFINE k == [j EXCEPT !.ws.pid = j.id]
    <3>1. job' = [job EXCEPT ![t] = k]
      BY <1>1, <2>1 DEF JobsOK
    <3>2. k \in JobRecords /\ Shaped(k, AfterLaunch(j.op)) /\ AfterLaunch(j.op) \in Labels
      BY <1>1, <1>5 DEF JobRecords, Drafts, Launch, At, AfterLaunch
    <3>3. PICK label \in Labels : label = AfterLaunch(j.op)
      BY <3>2
    <3>4. Goto(t, label) /\ k \in JobRecords /\ Shaped(k, label)
      BY <2>1, <3>2, <3>3
    <3> HIDE DEF k
    <3> QED BY <1>1, <3>1, <3>4, TaskMoves
  <2>2. CASE j.op # "start" /\ Goto(t, "undoCid") /\ UNCHANGED job
    BY <1>1, <1>5, <2>2, TaskGoes DEF Launch, At
  <2> QED BY <1>1, <1>5, <2>1, <2>2, TaskReturns DEF Launch
<1>6. CASE Configure(t)
  <2>1. CASE UNCHANGED job /\ Goto(t, "register")
    BY <1>1, <1>6, <2>1, TaskGoes DEF Configure, At
  <2>2. CASE Return(t)
    BY <1>1, <2>2, TaskReturns
  <2> QED BY <1>6, <2>1, <2>2 DEF Configure
<1>7. CASE Register(t) \/ UndoCid(t) \/ UndoVm(t)
  BY <1>1, <1>7, TaskGoes DEF Register, UndoCid, UndoVm, At
<1>8. CASE UndoHost(t) \/ AddReady(t)
  BY <1>1, <1>8, TaskReturns DEF UndoHost, AddReady
<1> QED BY <1>3, <1>4, <1>5, <1>6, <1>7, <1>8

\* The steps of fork, destroy, stop and start, and the saves.
LEMMA OtherShapes ==
  ASSUME TypeInv, NEW t \in Tasks,
         \/ ForkChecks(t) \/ Clone(t) \/ ForkSetup(t)
         \/ DestroyVm(t) \/ DestroyNetwork(t) \/ DestroyStorage(t) \/ DestroyCid(t) \/ DestroyEntry(t)
         \/ StopVm(t) \/ MarkStopped(t) \/ EnsureNetwork(t) \/ MarkRunning(t)
         \/ SaveBegin(t) \/ SaveEnd(t)
  PROVE  JobsOK'
<1> DEFINE j == job[t]
<1> USE DEF Shaped, Working, Labels, WithDisk, WithCid, WithIp, WarmPath, ColdPath, HoldsCid,
            Ending, Builders
<1>1. JobsOK /\ j \in JobRecords /\ Shaped(j, pc[t])
  BY DEF TypeInv, JobsOK
<1>2. CASE ForkChecks(t)
  BY <1>1, <1>2, TaskGoes, TaskReturns DEF ForkChecks, At
<1>3. CASE Clone(t)
  <2>1. CASE job' = [job EXCEPT ![t].ws.ds = j.id] /\ Goto(t, "forkSetup")
    <3> DEFINE k == [j EXCEPT !.ws.ds = j.id]
    <3>1. job' = [job EXCEPT ![t] = k]
      BY <1>1, <2>1 DEF JobsOK
    <3>2. k \in JobRecords /\ Shaped(k, "forkSetup")
      BY <1>1, <1>3 DEF JobRecords, Drafts, Clone, At
    <3> QED BY <1>1, <2>1, <3>1, <3>2, TaskMoves
  <2> QED BY <1>1, <1>3, <2>1, TaskReturns DEF Clone
<1>4. CASE ForkSetup(t)
  <2>1. ASSUME NEW ip \in IPs, job' = [job EXCEPT ![t].ws.ip = ip], Goto(t, "cid")
        PROVE  JobsOK'
    <3> DEFINE k == [j EXCEPT !.ws.ip = ip]
    <3>1. job' = [job EXCEPT ![t] = k]
      BY <1>1, <2>1 DEF JobsOK
    <3>2. k \in JobRecords /\ Shaped(k, "cid")
      BY <1>1, <1>4 DEF JobRecords, Drafts, ForkSetup, At
    <3> QED BY <1>1, <2>1, <3>1, <3>2, TaskMoves
  <2> QED BY <1>1, <1>4, <2>1, TaskReturns DEF ForkSetup
<1>5. CASE DestroyVm(t) \/ DestroyNetwork(t) \/ DestroyStorage(t) \/ DestroyCid(t)
  <2>1. CASE DestroyVm(t) \/ DestroyNetwork(t)
    BY <1>1, <2>1, TaskGoes DEF DestroyVm, DestroyNetwork, At
  <2>2. CASE DestroyStorage(t) \/ DestroyCid(t)
    BY <1>1, <2>2, TaskGoes DEF DestroyStorage, DestroyCid, At
  <2> QED BY <1>5, <2>1, <2>2
<1>6. CASE DestroyEntry(t) \/ MarkStopped(t) \/ MarkRunning(t)
  BY <1>1, <1>6, TaskGoes DEF DestroyEntry, MarkStopped, MarkRunning, Mark, At
<1>7. CASE StopVm(t) \/ EnsureNetwork(t)
  BY <1>1, <1>7, TaskGoes, TaskReturns DEF StopVm, EnsureNetwork, At
<1>8. CASE SaveBegin(t) \/ SaveEnd(t)
  BY <1>1, <1>8, TaskGoes, TaskReturns DEF SaveBegin, SaveEnd, At
<1> QED BY <1>2, <1>3, <1>4, <1>5, <1>6, <1>7, <1>8

\* A request that arrives has what its place needs, the saves of the timer and
\* a refill of the pool as well.
LEMMA CallShapes ==
  ASSUME JobsOK, NEW t \in Tasks, NEW label \in Labels, NEW j \in JobRecords,
         Call(t, label, j.op, j.id, j.src, j.ws), Shaped(j, label)
  PROVE  JobsOK'
<1>1. j = [op |-> j.op, id |-> j.id, src |-> j.src, ws |-> j.ws]
  BY DEF JobRecords
<1> QED BY <1>1, TaskMoves DEF Call

\* A request begins with a new id, or with a copy of what is registered.
LEMMA ArriveShapes ==
  ASSUME TypeInv, NEW t \in Requests, Arrive(t)
  PROVE  JobsOK'
<1> DEFINE J(op, i, src, ws) == [op |-> op, id |-> i, src |-> src, ws |-> ws]
<1> USE DEF Shaped, Working, Labels, WithDisk, WithCid, WithIp, WarmPath, ColdPath, HoldsCid,
            Ending, Builders
<1>1. JobsOK /\ RegistryOK /\ t \in Tasks
  BY DEF TypeInv, Tasks
<1>2. ASSUME NEW i \in Ids, NEW n \in Names \cup {i}, NEW default \in BOOLEAN,
             Create(t, i, n, default)
      PROVE  JobsOK'
  <2> DEFINE k == J("create", i, None, [Blank EXCEPT !.name = n])
  <2>1. \E label \in {"claim", "provision"} : Call(t, label, k.op, k.id, k.src, k.ws)
    BY <1>2 DEF Create
  <2>2. k \in JobRecords /\ \A label \in {"claim", "provision"} : Shaped(k, label)
    BY DEF JobRecords, Drafts, Blank, AllCalls, States
  <2> HIDE DEF k
  <2> QED BY <1>1, <2>1, <2>2, CallShapes
<1>3. ASSUME NEW i \in Ids, NEW n \in Names \cup {i}, NEW source \in Ids, Fork(t, source, i, n)
      PROVE  JobsOK'
  <2> DEFINE k == J("fork", i, workspaces[source].ds, [Blank EXCEPT !.name = n])
  <2>1. Call(t, "forkChecks", k.op, k.id, k.src, k.ws)
    BY <1>3 DEF Fork
  <2>2. workspaces[source].ds \in Ids
    BY <1>1, <1>3 DEF Fork, Callable, Registered, RegistryOK, Workspace
  <2>3. k \in JobRecords /\ Shaped(k, "forkChecks")
    BY <2>2 DEF JobRecords, Drafts, Blank, AllCalls, States
  <2> HIDE DEF k
  <2> QED BY <1>1, <2>1, <2>3, CallShapes
<1>4. ASSUME NEW i \in Ids, Destroy(t, i) \/ Stop(t, i) \/ Start(t, i) PROVE JobsOK'
  <2>1. workspaces[i] \in Workspace
    BY <1>1, <1>4 DEF Destroy, Stop, Start, Callable, Registered, RegistryOK
  <2>2. PICK op \in {"destroy", "stop", "start"}, label \in {"endVm", "stopVm", "ensureNetwork"} :
          /\ Call(t, label, op, i, None, workspaces[i])
          /\ <<op, label>> \in {<<"destroy", "endVm">>, <<"stop", "stopVm">>,
                               <<"start", "ensureNetwork">>}
    BY <1>4 DEF Destroy, Stop, Start
  <2> DEFINE k == J(op, i, None, workspaces[i])
  <2>3. k \in JobRecords /\ Shaped(k, label)
    BY <2>1, <2>2 DEF JobRecords, Drafts, Workspace, AllCalls
  <2>4. Call(t, label, k.op, k.id, k.src, k.ws)
    BY <2>2
  <2> HIDE DEF k
  <2> QED BY <1>1, <2>3, <2>4, CallShapes
<1> QED BY <1>2, <1>3, <1>4 DEF Arrive

\* So do the two timers.
LEMMA TimerShapes ==
  ASSUME TypeInv, SaveTimer \/ \E i \in Ids : ReplenishPool(i)
  PROVE  JobsOK'
<1> USE DEF Shaped, Working, Labels, WithDisk, WithCid, WithIp, WarmPath, ColdPath, HoldsCid,
            Ending, Builders
<1>1. JobsOK /\ {Replenisher, Saver} \subseteq Tasks
  BY DEF TypeInv, Tasks
<1>2. CASE SaveTimer
  <2> DEFINE k == [op |-> "save", id |-> None, src |-> None, ws |-> Blank]
  <2>1. Call(Saver, "save", k.op, k.id, k.src, k.ws)
    BY <1>2 DEF SaveTimer
  <2>2. k \in JobRecords /\ Shaped(k, "save")
    BY DEF JobRecords, Drafts, Blank, AllCalls, States
  <2> HIDE DEF k
  <2> QED BY <1>1, <2>1, <2>2, CallShapes
<1>3. ASSUME NEW i \in Ids, ReplenishPool(i) PROVE JobsOK'
  <2> DEFINE k == [op |-> "replenish", id |-> i, src |-> None, ws |-> Blank]
  <2>1. Call(Replenisher, "provision", k.op, k.id, k.src, k.ws)
    BY <1>3 DEF ReplenishPool
  <2>2. k \in JobRecords /\ Shaped(k, "provision")
    BY DEF JobRecords, Drafts, Blank, AllCalls, States
  <2> HIDE DEF k
  <2> QED BY <1>1, <2>1, <2>2, CallShapes
<1> QED BY <1>2, <1>3

(* The other parts of the type invariant. *)

\* What is saved is well-formed.
LEMMA PersistedSaved ==
  ASSUME TypeInv
  PROVE  Persisted \in Saved /\ NothingPersisted \in Saved
<1>1. Persisted \in PersistedState /\ Persisted.next_vsock_cid >= CidStart
  BY ConstantsAssumption DEF TypeInv, RegistryOK, CidsOK, Persisted, PersistedState
<1>2. NothingPersisted \in PersistedState /\ NothingPersisted.next_vsock_cid >= CidStart
  BY ConstantsAssumption DEF NothingPersisted, PersistedState
<1> QED BY <1>1, <1>2 DEF Saved

\* What save_state writes was well-formed when it was read.
LEMMA StepKeepsSaves ==
  ASSUME TypeInv, NEW t \in Tasks, Step(t)
  PROVE  SavesOK'
<1>1. SavesOK /\ Persisted \in Saved /\ NothingPersisted \in Saved
  BY PersistedSaved DEF TypeInv
<1>2. CASE SaveBegin(t)
  BY <1>1, <1>2 DEF SaveBegin, SavesOK
<1>3. CASE SaveEnd(t)
  BY <1>1, <1>3 DEF SaveEnd, SavesOK
<1>4. CASE UNCHANGED file
  BY <1>1, <1>4 DEF file, SavesOK
<1> QED
  BY <1>2, <1>3, <1>4
  DEF Step, Claim, WarmRelease, WarmSetup, Rekey, WarmRegister, Provision, PopCid, CountCid,
      Launch, Configure, Register, UndoCid, UndoVm, UndoHost, ForkChecks, Clone, ForkSetup,
      DestroyVm, DestroyNetwork, DestroyStorage, DestroyCid, DestroyEntry, StopVm, MarkStopped,
      EnsureNetwork, MarkRunning, Mark, AddReady

\* A workspace is registered with all its fields filled in.
LEMMA StepKeepsRegistry ==
  ASSUME TypeInv, NEW t \in Tasks, Step(t)
  PROVE  RegistryOK'
<1> DEFINE j == job[t]
<1>1. RegistryOK /\ j \in JobRecords /\ Shaped(j, pc[t])
  BY DEF TypeInv, JobsOK
<1>2. CASE WarmRegister(t) \/ Register(t)
  <2>1. j.ws \in Workspace
    BY <1>1, <1>2 DEF WarmRegister, Register, At, Shaped, WithDisk, WithCid, WithIp, WarmPath,
                      ColdPath, HoldsCid, JobRecords, Drafts, Workspace
  <2> QED BY <1>1, <1>2, <2>1 DEF WarmRegister, Register, RegistryOK
<1>3. CASE DestroyEntry(t)
  BY <1>1, <1>3 DEF DestroyEntry, RegistryOK
<1>4. CASE MarkStopped(t) \/ MarkRunning(t)
  <2>1. PICK state \in States, pid \in Ids \cup {None} : Mark(t, state, pid)
    BY <1>1, <1>4 DEF MarkStopped, MarkRunning, States, JobRecords, Drafts
  <2>2. CASE workspaces[j.id] = None
    BY <1>1, <2>1, <2>2 DEF Mark, RegistryOK
  <2>3. CASE workspaces[j.id] # None
    <3>1. CASE j.id \in Ids
      <4> DEFINE ws == [workspaces[j.id] EXCEPT !.state = state, !.pid = pid]
      <4>1. workspaces[j.id] \in Workspace
        BY <1>1, <2>3, <3>1 DEF RegistryOK
      <4>2. ws \in Workspace
        BY <4>1 DEF Workspace
      <4>3. workspaces' = [workspaces EXCEPT ![j.id] = ws]
        BY <1>1, <2>1, <2>3, <3>1 DEF Mark, RegistryOK
      <4> QED BY <1>1, <4>2, <4>3 DEF RegistryOK
    <3>2. CASE j.id \notin Ids
      BY <1>1, <1>4, <3>2 DEF MarkStopped, MarkRunning, At, Shaped, Working, Labels
    <3> QED BY <3>1, <3>2
  <2> QED BY <2>2, <2>3
<1>5. CASE UNCHANGED workspaces
  BY <1>1, <1>5 DEF RegistryOK
<1> QED
  BY <1>2, <1>3, <1>4, <1>5
  DEF Step, Claim, WarmRelease, WarmSetup, Rekey, Provision, PopCid, CountCid,
      Launch, Configure, UndoCid, UndoVm, UndoHost, ForkChecks, Clone, ForkSetup,
      DestroyVm, DestroyNetwork, DestroyStorage, DestroyCid, StopVm,
      EnsureNetwork, AddReady, SaveBegin, SaveEnd, memory

\* So is a VM of the pool.
LEMMA StepKeepsPool ==
  ASSUME TypeInv, NEW t \in Tasks, Step(t)
  PROVE  PoolOK'
<1> DEFINE j == job[t]
<1>1. PoolOK /\ j \in JobRecords /\ Shaped(j, pc[t])
  BY DEF TypeInv, JobsOK
<1>2. CASE Claim(t)
  <2>1. ready # <<>> => Tail(ready) \in Seq(WarmVm)
    BY <1>1, HeadTailProperties DEF PoolOK
  <2> QED BY <1>1, <1>2, <2>1 DEF Claim, PoolOK
<1>3. CASE WarmSetup(t)
  <2>1. [id |-> j.src, cid |-> j.ws.cid, ip |-> j.ws.ip] \in WarmVm
    BY <1>1, <1>3 DEF WarmSetup, At, Shaped, WithCid, WithIp, WarmPath, HoldsCid, WarmVm
  <2> QED BY <1>1, <1>3, <2>1 DEF WarmSetup, PoolOK
<1>4. CASE AddReady(t)
  <2>1. [id |-> j.id, cid |-> j.ws.cid, ip |-> j.ws.ip] \in WarmVm
    BY <1>1, <1>4 DEF AddReady, At, Shaped, Working, Labels, WithCid, WithIp, ColdPath,
                      HoldsCid, WarmVm
  <2> QED BY <1>1, <1>4, <2>1 DEF AddReady, PoolOK
<1>5. CASE UNCHANGED ready
  BY <1>1, <1>5 DEF PoolOK
<1> QED
  BY <1>2, <1>3, <1>4, <1>5
  DEF Step, WarmRelease, Rekey, WarmRegister, Provision, PopCid, CountCid,
      Launch, Configure, Register, UndoCid, UndoVm, UndoHost, ForkChecks, Clone, ForkSetup,
      DestroyVm, DestroyNetwork, DestroyStorage, DestroyCid, DestroyEntry, StopVm, MarkStopped,
      EnsureNetwork, MarkRunning, Mark, SaveBegin, SaveEnd, memory

\* A CID goes to the free list only from a task that has one, and the counter
\* stops at its limit.
LEMMA StepKeepsCids ==
  ASSUME TypeInv, NEW t \in Tasks, Step(t)
  PROVE  CidsOK'
<1> DEFINE j == job[t]
<1>1. CidsOK /\ j \in JobRecords /\ Shaped(j, pc[t])
  BY DEF TypeInv, JobsOK
<1>2. CASE PopCid(t)
  <2>1. CASE free_vsock_cids = <<>>
    BY <1>1, <1>2, <2>1 DEF PopCid, CidsOK
  <2>2. CASE free_vsock_cids # <<>>
    <3> DEFINE n == Len(free_vsock_cids) - 1
    <3>1. n \in Int /\ \A i \in 1..n : free_vsock_cids[i] \in Cids
      BY <1>1 DEF CidsOK
    <3>2. SubSeq(free_vsock_cids, 1, n) \in Seq(Cids)
      BY <3>1, SubSeqProperties
    <3> QED BY <1>1, <1>2, <2>2, <3>2 DEF PopCid, CidsOK
  <2> QED BY <2>1, <2>2
<1>3. CASE CountCid(t)
  BY <1>1, <1>3, ConstantsAssumption DEF CountCid, CidsOK
<1>4. CASE UndoCid(t) \/ DestroyCid(t)
  <2>1. j.ws.cid \in Cids
    BY <1>1, <1>4 DEF UndoCid, DestroyCid, At, Shaped, WithCid, ColdPath, HoldsCid, Ending
  <2> QED BY <1>1, <1>4, <2>1 DEF UndoCid, DestroyCid, RecycleCid, CidsOK
<1>5. CASE UNCHANGED cids
  BY <1>1, <1>5 DEF CidsOK, cids
<1> QED
  BY <1>2, <1>3, <1>4, <1>5
  DEF Step, Claim, WarmSetup, AddReady, WarmRelease, Rekey, WarmRegister, Provision,
      Launch, Configure, Register, UndoVm, UndoHost, ForkChecks, Clone, ForkSetup,
      DestroyVm, DestroyNetwork, DestroyStorage, DestroyEntry, StopVm, MarkStopped,
      EnsureNetwork, MarkRunning, Mark, SaveBegin, SaveEnd

\* The end of a VM, the clean-up of a network and of a dataset.
LEMMA EndVmTyped ==
  ASSUME HostOK, NEW i, EndVm(i)
  PROVE  vms' \in [Ids -> Ids \cup {None}] /\ qemu' \in [Ids -> Process \cup {None}]
BY DEF HostOK, EndVm

\* The removal of a dataset.
LEMMA DestroyDatasetTyped ==
  ASSUME HostOK, NEW d, DestroyDataset(d)
  PROVE  datasets' \subseteq Ids /\ origin' \in [Ids -> Ids \cup {None}]
BY DEF HostOK, DestroyDataset, RemoveDataset, storage

\* The host side: handles, processes, addresses, devices and datasets.
LEMMA StepKeepsHost ==
  ASSUME TypeInv, NEW t \in Tasks, Step(t)
  PROVE  HostOK'
<1> DEFINE j == job[t]
<1>1. HostOK /\ j \in JobRecords /\ Shaped(j, pc[t])
  BY DEF TypeInv, JobsOK
<1>2. pc[t] \in Working => j.id \in Ids
  BY <1>1 DEF Shaped
<1>3. CASE UNCHANGED <<vms, qemu, net, storage>>
  BY <1>1, <1>3 DEF HostOK, net, storage
<1>4. CASE WarmRelease(t) \/ DestroyNetwork(t)
  BY <1>1, <1>4 DEF WarmRelease, DestroyNetwork, ReleaseNetwork, HostOK, memory, storage
<1>5. CASE WarmSetup(t)
  <2>1. UNCHANGED <<vms, qemu, storage>> /\ j.id \in Ids
    BY <1>2, <1>5 DEF WarmSetup, At, Working, Labels
  <2>2. \/ \E ip \in IPs : SetupNetwork(j.id, ip)
        \/ SetupFails(j.id)
    BY <1>5 DEF WarmSetup
  <2>3. leased' \subseteq IPs /\ taps' \subseteq Ids
    BY <1>1, <2>1, <2>2 DEF SetupNetwork, SetupFails, HostOK
  <2> QED BY <1>1, <2>1, <2>3 DEF HostOK, storage
<1>6. CASE Rekey(t)
  <2>1. j.src \in Ids
    BY <1>1, <1>6 DEF Rekey, At, Shaped, WarmPath
  <2> QED BY <1>1, <1>6, <2>1 DEF Rekey, HostOK, net, storage
<1>7. CASE Provision(t)
  <2>1. UNCHANGED <<vms, qemu, origin>> /\ j.id \in Ids
    BY <1>2, <1>7 DEF Provision, memory, At, Working, Labels
  <2>2. leased' \subseteq IPs /\ taps' \subseteq Ids /\ datasets' \subseteq Ids
    BY <1>1, <1>7, <2>1 DEF Provision, SetupNetwork, SetupFails, HostOK, net
  <2> QED BY <1>1, <2>1, <2>2 DEF HostOK
<1>8. CASE Launch(t)
  <2>1. j.id \in Ids /\ j.ws.ds \in Ids /\ j.ws.cid \in Cids
    BY <1>1, <1>8 DEF Launch, At, Shaped, Working, Labels, WithDisk, WithCid, ColdPath, HoldsCid
  <2>2. [cid |-> j.ws.cid, ds |-> j.ws.ds, tap |-> j.id] \in Process
    BY <2>1 DEF Process
  <2> QED BY <1>1, <1>8, <2>1, <2>2 DEF Launch, HostOK, net, storage
<1>9. CASE UndoVm(t) \/ DestroyVm(t) \/ StopVm(t)
  BY <1>1, <1>9, EndVmTyped DEF UndoVm, DestroyVm, StopVm, HostOK, net, storage
<1>10. CASE UndoHost(t)
  BY <1>1, <1>10, DestroyDatasetTyped DEF UndoHost, ReleaseNetwork, HostOK, memory
<1>11. CASE Clone(t)
  BY <1>1, <1>2, <1>11 DEF Clone, At, Shaped, Working, Labels, HostOK, memory, net, storage
<1>12. CASE ForkSetup(t)
  <2>1. UNCHANGED <<vms, qemu>> /\ j.id \in Ids
    BY <1>2, <1>12 DEF ForkSetup, memory, At, Working, Labels
  <2>2. leased' \subseteq IPs /\ taps' \subseteq Ids
    BY <1>1, <1>12, <2>1 DEF ForkSetup, SetupNetwork, SetupFails, HostOK
  <2>3. datasets' \subseteq Ids /\ origin' \in [Ids -> Ids \cup {None}]
    BY <1>1, <1>12, DestroyDatasetTyped DEF ForkSetup, HostOK, storage
  <2> QED BY <1>1, <2>1, <2>2, <2>3 DEF HostOK
<1>13. CASE DestroyStorage(t)
  BY <1>1, <1>13, DestroyDatasetTyped DEF DestroyStorage, HostOK, memory, net
<1>14. CASE EnsureNetwork(t)
  BY <1>1, <1>2, <1>14 DEF EnsureNetwork, At, Working, Labels, HostOK, memory, storage
<1> QED
  BY <1>3, <1>4, <1>5, <1>6, <1>7, <1>8, <1>9, <1>10, <1>11, <1>12, <1>13, <1>14
  DEF Step, Claim, WarmRegister, PopCid, CountCid, Configure, Register, UndoCid, ForkChecks,
      DestroyCid, DestroyEntry, MarkStopped, MarkRunning, Mark, AddReady, SaveBegin, SaveEnd,
      memory

\* What load_state makes of the file.
LEMMA LoadedTyped ==
  ASSUME TypeInv
  PROVE  Loaded \in [Ids -> Workspace \cup {None}]
<1>1. state_file.workspaces \in [Ids -> Workspace \cup {None}]
  BY DEF TypeInv, SavesOK, Saved, PersistedState
<1>2. ASSUME NEW i \in Ids PROVE Loaded[i] \in Workspace \cup {None}
  <2> PICK ws \in Workspace \cup {None} : ws = state_file.workspaces[i]
    BY <1>1
  <2>1. ws # None => [ws EXCEPT !.state = "Stopped", !.pid = None] \in Workspace
    BY DEF Workspace, States
  <2> QED BY <2>1 DEF Loaded
<1> QED BY <1>2 DEF Loaded

\* load_state recycles the CIDs of workspaces that it had read.
LEMMA ZombiesTyped ==
  ASSUME TypeInv
  PROVE  /\ Zombies \subseteq Ids /\ \A i \in Zombies : Loaded[i] \in Workspace
         /\ \A order \in Orders(Zombies) :
              [k \in DOMAIN order |-> Loaded[order[k]].cid] \in Seq(Cids)
<1>1. Loaded \in [Ids -> Workspace \cup {None}]
  BY LoadedTyped
<1>2. Zombies \subseteq LoadedStopped
  BY DEF Zombies
<1>3. ASSUME NEW i \in Zombies PROVE i \in Ids /\ Loaded[i] \in Workspace
  BY <1>1, <1>2 DEF LoadedStopped
<1>4. ASSUME NEW order \in Orders(Zombies)
      PROVE  [k \in DOMAIN order |-> Loaded[order[k]].cid] \in Seq(Cids)
  <2> DEFINE n == Cardinality(Zombies)
  <2>1. n \in Nat
    BY <1>3, IdsAssumption, FS_Subset, FS_CardinalityType
  <2>2. order \in [1..n -> Zombies]
    BY DEF Orders
  <2>3. \A k \in 1..n : Loaded[order[k]].cid \in Cids
    BY <1>3, <2>2 DEF Workspace
  <2>4. [k \in DOMAIN order |-> Loaded[order[k]].cid] \in [1..n -> Cids]
    BY <2>2, <2>3
  <2> HIDE DEF n
  <2> QED BY <2>1, <2>4, IsASeq
<1> QED BY <1>3, <1>4

\* What the next daemon starts with is well-formed.
LEMMA RestartTyped ==
  ASSUME TypeInv, Restart
  PROVE  TypeInv'
<1>1. Loaded \in [Ids -> Workspace \cup {None}]
  BY LoadedTyped
<1>2. SavesOK /\ state_file \in Saved /\ NothingPersisted \in Saved
  BY PersistedSaved DEF TypeInv, SavesOK
<1>3. RegistryOK'
  BY <1>1 DEF Restart, RegistryOK
<1>4. PoolOK' /\ SavesOK'
  BY <1>2 DEF Restart, PoolOK, SavesOK
<1>5. CidsOK'
  <2>1. state_file.free_vsock_cids \in Seq(Cids)
        /\ state_file.next_vsock_cid \in CidStart..CidLimit
    BY <1>2, ConstantsAssumption DEF Saved, PersistedState
  <2>2. PICK order \in Orders(Zombies) :
          free_vsock_cids' = state_file.free_vsock_cids
                             \o [k \in DOMAIN order |-> Loaded[order[k]].cid]
    BY DEF Restart
  <2>3. [k \in DOMAIN order |-> Loaded[order[k]].cid] \in Seq(Cids)
    BY ZombiesTyped
  <2>4. free_vsock_cids' \in Seq(Cids)
    BY <2>1, <2>2, <2>3, ConcatProperties
  <2> QED BY <2>1, <2>4 DEF Restart, LoadedCounter, CidsOK
<1>6. HostOK'
  <2>1. leased' \subseteq IPs
    <3>1. \A i \in Ids : Loaded[i] # None => Loaded[i].ip \in IPs
      BY <1>1 DEF Workspace
    <3> QED BY <3>1 DEF Restart, AddressesOf
  <2>2. taps' \subseteq Ids
    BY DEF Restart, OffBridge, Adopted, TypeInv, HostOK
  <2> QED BY <2>1, <2>2 DEF Restart, KillOrphans, HostOK, TypeInv, storage
<1>7. JobsOK'
  BY NoJobShaped DEF Restart, JobsOK, Labels
<1> QED BY <1>3, <1>4, <1>5, <1>6, <1>7 DEF TypeInv

\* The first start.
LEMMA InitTyped ==
  ASSUME Init
  PROVE  TypeInv
<1>1. NothingPersisted \in PersistedState /\ NothingPersisted.next_vsock_cid >= CidStart
  BY ConstantsAssumption DEF NothingPersisted, PersistedState
<1>2. SavesOK
  BY <1>1 DEF Init, SavesOK, Saved
<1>3. JobsOK
  BY NoJobShaped DEF Init, JobsOK, Labels
<1>4. HostOK /\ RegistryOK /\ PoolOK /\ CidsOK
  BY ConstantsAssumption DEF Init, HostOK, RegistryOK, PoolOK, CidsOK
<1> QED BY <1>2, <1>3, <1>4 DEF TypeInv

\* TypeInv is inductive.
LEMMA NextTyped ==
  ASSUME TypeInv, [Next]_vars
  PROVE  TypeInv'
<1>1. ASSUME NEW t \in Tasks, Step(t) PROVE TypeInv'
  <2>1. JobsOK'
    BY <1>1, CreateShapes, LaunchShapes, OtherShapes DEF Step
  <2> QED
    BY <1>1, <2>1, StepKeepsHost, StepKeepsRegistry, StepKeepsPool, StepKeepsCids, StepKeepsSaves
    DEF TypeInv
<1>2. ASSUME JobsOK', UNCHANGED <<memory, cids, file, net, storage, qemu>> PROVE TypeInv'
  BY <1>2 DEF TypeInv, HostOK, RegistryOK, PoolOK, CidsOK, SavesOK, memory, cids, file, net, storage
<1>3. ASSUME NEW t \in Requests, Arrive(t) PROVE TypeInv'
  <2>1. UNCHANGED <<memory, cids, file, net, storage, qemu>>
    BY <1>3 DEF Arrive, Create, Fork, Destroy, Stop, Start
  <2> QED BY <1>2, <1>3, <2>1, ArriveShapes
<1>4. CASE SaveTimer \/ \E i \in Ids : ReplenishPool(i)
  <2>1. UNCHANGED <<memory, cids, file, net, storage, qemu>>
    BY <1>4 DEF SaveTimer, ReplenishPool
  <2> QED BY <1>2, <1>4, <2>1, TimerShapes
<1>5. ASSUME NEW p \in Ids, VmDies(p) PROVE TypeInv'
  BY <1>5 DEF VmDies, TypeInv, HostOK, RegistryOK, PoolOK, CidsOK, SavesOK, JobsOK,
              memory, cids, file, net, storage
<1>6. CASE Restart
  BY <1>6, RestartTyped
<1>7. CASE UNCHANGED vars
  BY <1>7 DEF vars, TypeInv, HostOK, RegistryOK, PoolOK, CidsOK, SavesOK, JobsOK,
              memory, cids, file, net, storage
<1> QED BY <1>1, <1>3, <1>4, <1>5, <1>6, <1>7 DEF Next

\* Whatever overlaps and fails, each place of a request finds the locals it needs:
\* a workspace is registered with a disk, a CID and an address of its kind.
THEOREM TypeTheorem == Spec => []TypeOK
<1>1. Init => TypeInv
  BY InitTyped
<1>2. TypeInv /\ [Next]_vars => TypeInv'
  BY NextTyped
<1>3. TypeInv => TypeOK
  BY TypeInvMeansTypeOK
<1> QED BY <1>1, <1>2, <1>3, PTL DEF Spec

-----------------------------------------------------------------------------
(* Steps of one task *)

\* A step of one task changes neither the place nor the locals of another.
LEMMA OthersStay ==
  ASSUME TypeInv, NEW t \in Tasks, Step(t), NEW u \in Tasks, u # t
  PROVE  pc'[u] = pc[u] /\ job'[u] = job[u]
<1>1. pc \in [Tasks -> Labels] /\ job \in [Tasks -> JobRecords]
  BY DEF TypeInv, JobsOK
<1>2. ASSUME NEW label, Goto(t, label) PROVE pc'[u] = pc[u]
  BY <1>1, <1>2 DEF Goto
<1>3. ASSUME Return(t) PROVE pc'[u] = pc[u] /\ job'[u] = job[u]
  BY <1>1, <1>3 DEF Return, Goto
<1>4. CASE \/ Claim(t) \/ WarmRelease(t) \/ WarmSetup(t) \/ Rekey(t) \/ WarmRegister(t)
           \/ Provision(t)
  BY <1>1, <1>2, <1>3, <1>4
  DEF Claim, WarmRelease, WarmSetup, Rekey, WarmRegister, Provision
<1>5. CASE \/ PopCid(t) \/ CountCid(t) \/ Launch(t) \/ Configure(t) \/ Register(t)
           \/ UndoCid(t) \/ UndoVm(t) \/ UndoHost(t) \/ AddReady(t)
  BY <1>1, <1>2, <1>3, <1>5
  DEF PopCid, CountCid, CidKnown, Launch, Configure, Register, UndoCid, UndoVm, UndoHost, AddReady
<1>6. CASE \/ ForkChecks(t) \/ Clone(t) \/ ForkSetup(t)
           \/ DestroyVm(t) \/ DestroyNetwork(t) \/ DestroyStorage(t) \/ DestroyCid(t) \/ DestroyEntry(t)
  BY <1>1, <1>2, <1>3, <1>6
  DEF ForkChecks, Clone, ForkSetup, DestroyVm, DestroyNetwork, DestroyStorage, DestroyCid,
      DestroyEntry
<1>7. CASE \/ StopVm(t) \/ MarkStopped(t) \/ EnsureNetwork(t) \/ MarkRunning(t)
           \/ SaveBegin(t) \/ SaveEnd(t)
  BY <1>1, <1>2, <1>3, <1>7
  DEF StopVm, MarkStopped, EnsureNetwork, MarkRunning, Mark, SaveBegin, SaveEnd
<1> QED BY <1>4, <1>5, <1>6, <1>7 DEF Step

\* Where the CID of a request may come from.
LEMMA WhereCidsComeFrom ==
  ASSUME TypeInv, NEW t \in Tasks, Step(t), pc'[t] \in WithCid
  PROVE  \/ pc[t] \in WithCid /\ job'[t].ws.cid = job[t].ws.cid
         \/ Claim(t) /\ ready # <<>> /\ job'[t].ws.cid = Head(ready).cid
         \/ PopCid(t) /\ free_vsock_cids # <<>>
            /\ job'[t].ws.cid = free_vsock_cids[Len(free_vsock_cids)]
         \/ CountCid(t) /\ next_vsock_cid < CidLimit /\ job'[t].ws.cid = next_vsock_cid
            /\ next_vsock_cid' = next_vsock_cid + 1
<1> DEFINE j == job[t]
<1> USE DEF Labels, WithCid, WarmPath, ColdPath, HoldsCid, Ending
<1>1. JobsOK /\ pc \in [Tasks -> Labels] /\ job \in [Tasks -> JobRecords] /\ Shaped(j, pc[t]) /\ j \in JobRecords
  BY DEF TypeInv, JobsOK
<1>2. ~Return(t)
  BY <1>1 DEF Return, Goto
<1>3. ASSUME NEW label, Goto(t, label) PROVE label \in WithCid /\ pc'[t] = label
  BY <1>1, <1>3 DEF Goto
<1>4. CASE Claim(t)
  <2>1. ready # <<>>
    BY <1>3, <1>4 DEF Claim
  <2>2. job'[t].ws.cid = Head(ready).cid
    BY <1>1, <1>4, <2>1 DEF Claim, JobRecords, Drafts
  <2> QED BY <1>4, <2>1, <2>2
<1>5. CASE WarmRelease(t) \/ Rekey(t) \/ WarmRegister(t) \/ Register(t) \/ UndoCid(t) \/ UndoVm(t)
  BY <1>1, <1>3, <1>5 DEF WarmRelease, Rekey, WarmRegister, Register, UndoCid, UndoVm, At
<1>6. CASE WarmSetup(t)
  <2>1. PICK ip \in IPs : job' = [job EXCEPT ![t].ws.ip = ip]
    BY <1>2, <1>6 DEF WarmSetup
  <2> QED BY <1>1, <1>6, <2>1 DEF WarmSetup, At, JobRecords, Drafts
<1>7. CASE Provision(t) \/ ForkSetup(t) \/ Clone(t) \/ ForkChecks(t)
  BY <1>2, <1>3, <1>7 DEF Provision, ForkSetup, Clone, ForkChecks
<1>8. CASE PopCid(t)
  <2>1. free_vsock_cids # <<>>
    BY <1>3, <1>8 DEF PopCid
  <2> QED BY <1>1, <1>8, <2>1 DEF PopCid, CidKnown, JobRecords, Drafts
<1>9. CASE CountCid(t)
  <2>1. next_vsock_cid < CidLimit /\ CidKnown(t, next_vsock_cid)
        /\ next_vsock_cid' = next_vsock_cid + 1
    BY <1>2, <1>3, <1>9 DEF CountCid
  <2> QED BY <1>1, <1>9, <2>1 DEF CidKnown, JobRecords, Drafts
<1>10. CASE Launch(t)
  <2>1. pc[t] \in WithCid
    BY <1>10 DEF Launch, At
  <2>2. job'[t].ws.cid = j.ws.cid
    BY <1>1, <1>2, <1>10 DEF Launch, JobRecords, Drafts
  <2> QED BY <2>1, <2>2
<1>11. CASE Configure(t)
  BY <1>1, <1>2, <1>11 DEF Configure, At
<1>12. CASE UndoHost(t) \/ AddReady(t) \/ SaveEnd(t)
  BY <1>2, <1>12 DEF UndoHost, AddReady, SaveEnd
<1>13. CASE DestroyVm(t) \/ DestroyNetwork(t) \/ DestroyStorage(t) \/ DestroyCid(t) \/ DestroyEntry(t)
  BY <1>1, <1>3, <1>13 DEF DestroyVm, DestroyNetwork, DestroyStorage, DestroyCid, DestroyEntry, At
<1>14. CASE StopVm(t) \/ MarkStopped(t) \/ MarkRunning(t) \/ SaveBegin(t)
  BY <1>3, <1>14 DEF StopVm, MarkStopped, MarkRunning, Mark, SaveBegin
<1>15. CASE EnsureNetwork(t)
  BY <1>1, <1>2, <1>15 DEF EnsureNetwork, At
<1> QED
  BY <1>4, <1>5, <1>6, <1>7, <1>8, <1>9, <1>10, <1>11, <1>12, <1>13, <1>14, <1>15 DEF Step

-----------------------------------------------------------------------------
(* The CID counter *)

TableBelow(table, n) == \A i \in Ids : table[i] # None => table[i].cid < n
ListBelow(list, n) == \A k \in 1..Len(list) : list[k] < n
SavedBelow(p) ==
  TableBelow(p.workspaces, p.next_vsock_cid) /\ ListBelow(p.free_vsock_cids, p.next_vsock_cid)

\* Every CID that is known anywhere was issued by the counter; and what is saved
\* was consistent when it was.
CountedInv ==
  /\ TableBelow(workspaces, next_vsock_cid)
  /\ ListBelow(free_vsock_cids, next_vsock_cid)
  /\ \A k \in 1..Len(ready) : ready[k].cid < next_vsock_cid
  /\ \A t \in Tasks : pc[t] \in WithCid => job[t].ws.cid < next_vsock_cid
  /\ \A t \in Tasks : SavedBelow(snapshot[t])
  /\ SavedBelow(state_file)

\* A step never takes the counter back.
LEMMA CounterGrows ==
  ASSUME TypeInv, NEW t \in Tasks, Step(t)
  PROVE  next_vsock_cid' >= next_vsock_cid /\ next_vsock_cid \in Int /\ next_vsock_cid' \in Int
<1>1. next_vsock_cid \in Int
  BY ConstantsAssumption DEF TypeInv, CidsOK
<1>2. CASE CountCid(t)
  BY <1>1, <1>2 DEF CountCid
<1>3. CASE PopCid(t)
  BY <1>1, <1>3 DEF PopCid
<1>4. CASE UndoCid(t) \/ DestroyCid(t)
  BY <1>1, <1>4 DEF UndoCid, DestroyCid, RecycleCid
<1>5. CASE UNCHANGED cids
  BY <1>1, <1>5 DEF cids
<1> QED
  BY <1>2, <1>3, <1>4, <1>5
  DEF Step, Claim, WarmSetup, AddReady, WarmRelease, Rekey, WarmRegister, Provision,
      Launch, Configure, Register, UndoVm, UndoHost, ForkChecks, Clone, ForkSetup,
      DestroyVm, DestroyNetwork, DestroyStorage, DestroyEntry, StopVm, MarkStopped,
      EnsureNetwork, MarkRunning, Mark, SaveBegin, SaveEnd

\* Nothing saved, nothing to compare.
LEMMA NothingBelow == SavedBelow(NothingPersisted)
BY DEF SavedBelow, TableBelow, ListBelow, NothingPersisted

\* What a step writes to the registry: the workspace of its locals, nothing, or
\* an entry with its CID.
LEMMA RegistryStep ==
  ASSUME TypeInv, NEW t \in Tasks, Step(t)
  PROVE  \/ UNCHANGED workspaces
         \/ /\ WarmRegister(t) \/ Register(t)
            /\ workspaces' = [workspaces EXCEPT ![job[t].id] = job[t].ws]
         \/ DestroyEntry(t) /\ workspaces' = [workspaces EXCEPT ![job[t].id] = None]
         \/ /\ MarkStopped(t) \/ MarkRunning(t)
            /\ workspaces[job[t].id] # None
            /\ \E state \in States, pid \in Ids \cup {None} :
                 workspaces' = [workspaces EXCEPT ![job[t].id].state = state,
                                                  ![job[t].id].pid = pid]
<1>1. job[t] \in JobRecords
  BY DEF TypeInv, JobsOK
<1>2. CASE WarmRegister(t)
  BY <1>2 DEF WarmRegister
<1>3. CASE Register(t)
  BY <1>3 DEF Register
<1>4. CASE DestroyEntry(t)
  BY <1>4 DEF DestroyEntry
<1>5. CASE MarkStopped(t) \/ MarkRunning(t)
  <2>1. PICK state \in States, pid \in Ids \cup {None} : Mark(t, state, pid)
    BY <1>1, <1>5 DEF MarkStopped, MarkRunning, States, JobRecords, Drafts
  <2> QED BY <1>5, <2>1 DEF Mark
<1>6. CASE UNCHANGED workspaces
  BY <1>6
<1> QED
  BY <1>2, <1>3, <1>4, <1>5, <1>6
  DEF Step, Claim, WarmRelease, WarmSetup, Rekey, Provision, PopCid, CountCid,
      Launch, Configure, UndoCid, UndoVm, UndoHost, ForkChecks, Clone, ForkSetup,
      DestroyVm, DestroyNetwork, DestroyStorage, DestroyCid, StopVm,
      EnsureNetwork, AddReady, SaveBegin, SaveEnd, memory

\* A workspace is registered with a CID that was issued.
LEMMA StepKeepsTableBelow ==
  ASSUME TypeInv, CountedInv, NEW t \in Tasks, Step(t)
  PROVE  TableBelow(workspaces', next_vsock_cid')
<1> DEFINE m == next_vsock_cid'
           j == job[t]
<1>1. m >= next_vsock_cid /\ next_vsock_cid \in Int /\ m \in Int
  BY CounterGrows
<1>2. workspaces \in [Ids -> Workspace \cup {None}] /\ j \in JobRecords /\ Shaped(j, pc[t])
  BY DEF TypeInv, JobsOK, RegistryOK
<1>3. \A i \in Ids : workspaces[i] # None => workspaces[i].cid \in Int /\ workspaces[i].cid < m
  BY <1>1, <1>2 DEF CountedInv, TableBelow, Workspace, Cids
<1>4. CASE UNCHANGED workspaces
  BY <1>3, <1>4 DEF TableBelow
<1>5. CASE /\ WarmRegister(t) \/ Register(t)
           /\ workspaces' = [workspaces EXCEPT ![j.id] = j.ws]
  <2>1. pc[t] \in WithCid
    BY <1>5 DEF WarmRegister, Register, At, WithCid, HoldsCid, WarmPath, ColdPath
  <2>2. j.ws.cid < m
    BY <1>1, <1>2, <2>1 DEF CountedInv, Shaped, Cids
  <2> QED BY <1>2, <1>3, <1>5, <2>2 DEF TableBelow
<1>6. CASE workspaces' = [workspaces EXCEPT ![j.id] = None]
  BY <1>2, <1>3, <1>6 DEF TableBelow
<1>7. ASSUME workspaces[j.id] # None, NEW state \in States, NEW pid \in Ids \cup {None},
             workspaces' = [workspaces EXCEPT ![j.id].state = state, ![j.id].pid = pid]
      PROVE  TableBelow(workspaces', m)
  <2> DEFINE ws == [workspaces[j.id] EXCEPT !.state = state, !.pid = pid]
  <2>1. workspaces' = [workspaces EXCEPT ![j.id] = ws]
    BY <1>2, <1>7
  <2>2. j.id \in Ids => ws.cid = workspaces[j.id].cid
    BY <1>2, <1>7 DEF Workspace
  <2> HIDE DEF ws
  <2> QED BY <1>2, <1>3, <1>7, <2>1, <2>2 DEF TableBelow
<1> QED BY <1>4, <1>5, <1>6, <1>7, RegistryStep

\* What a step does to the free list.
LEMMA FreeStep ==
  ASSUME TypeInv, NEW t \in Tasks, Step(t)
  PROVE  \/ UNCHANGED free_vsock_cids
         \/ /\ PopCid(t) /\ free_vsock_cids # <<>>
            /\ free_vsock_cids' = SubSeq(free_vsock_cids, 1, Len(free_vsock_cids) - 1)
         \/ /\ UndoCid(t) \/ DestroyCid(t)
            /\ free_vsock_cids' = Append(free_vsock_cids, job[t].ws.cid)
<1>1. CASE PopCid(t)
  BY <1>1 DEF PopCid
<1>2. CASE UndoCid(t) \/ DestroyCid(t)
  BY <1>2 DEF UndoCid, DestroyCid, RecycleCid
<1>3. CASE UNCHANGED free_vsock_cids
  BY <1>3
<1> QED
  BY <1>1, <1>2, <1>3
  DEF Step, Claim, WarmSetup, AddReady, WarmRelease, Rekey, WarmRegister, Provision, CountCid,
      Launch, Configure, Register, UndoVm, UndoHost, ForkChecks, Clone, ForkSetup,
      DestroyVm, DestroyNetwork, DestroyStorage, DestroyEntry, StopVm, MarkStopped,
      EnsureNetwork, MarkRunning, Mark, SaveBegin, SaveEnd, cids

\* Only such a CID is recycled.
LEMMA StepKeepsListBelow ==
  ASSUME TypeInv, CountedInv, NEW t \in Tasks, Step(t)
  PROVE  ListBelow(free_vsock_cids', next_vsock_cid')
<1> DEFINE m == next_vsock_cid'
           j == job[t]
           n == Len(free_vsock_cids)
<1>1. m >= next_vsock_cid /\ next_vsock_cid \in Int /\ m \in Int
  BY CounterGrows
<1>2. free_vsock_cids \in Seq(Cids) /\ j \in JobRecords /\ Shaped(j, pc[t])
  BY DEF TypeInv, JobsOK, CidsOK
<1>3. \A k \in 1..n : free_vsock_cids[k] \in Int /\ free_vsock_cids[k] < m
  <2>1. \A k \in 1..n : free_vsock_cids[k] \in Cids
    BY <1>2
  <2>2. \A k \in 1..n : free_vsock_cids[k] < next_vsock_cid
    BY DEF CountedInv, ListBelow
  <2>3. \A c \in Cids : c \in Int
    BY DEF Cids
  <2> QED BY <1>1, <2>1, <2>2, <2>3
<1>4. CASE UNCHANGED free_vsock_cids
  BY <1>3, <1>4 DEF ListBelow
<1>5. CASE free_vsock_cids # <<>> /\ free_vsock_cids' = SubSeq(free_vsock_cids, 1, n - 1)
  <2>1. n \in Nat /\ n - 1 \in Int /\ \A k \in 1..(n - 1) : free_vsock_cids[k] \in Cids
    BY <1>2
  <2>2. /\ Len(free_vsock_cids') <= n
        /\ \A k \in 1..(n - 1) : free_vsock_cids'[k] = free_vsock_cids[k]
        /\ Len(free_vsock_cids') = IF 1 <= n - 1 THEN n - 1 ELSE 0
    BY <1>5, <2>1, SubSeqProperties
  <2> QED BY <1>3, <2>1, <2>2 DEF ListBelow
<1>6. CASE (UndoCid(t) \/ DestroyCid(t)) /\ free_vsock_cids' = Append(free_vsock_cids, j.ws.cid)
  <2>1. pc[t] \in WithCid
    BY <1>6 DEF UndoCid, DestroyCid, At, WithCid, HoldsCid, ColdPath, Ending
  <2>2. j.ws.cid < m /\ j.ws.cid \in Cids
    BY <1>1, <1>2, <2>1 DEF CountedInv, Shaped, Cids
  <2>3. /\ Len(free_vsock_cids') = n + 1
        /\ \A k \in 1..n : free_vsock_cids'[k] = free_vsock_cids[k]
        /\ free_vsock_cids'[n + 1] = j.ws.cid
    BY <1>2, <1>6, <2>2, AppendProperties
  <2> QED BY <1>2, <1>3, <2>2, <2>3 DEF ListBelow
<1> QED BY <1>4, <1>5, <1>6, FreeStep

\* What a step does to the pool.
LEMMA PoolStep ==
  ASSUME TypeInv, NEW t \in Tasks, Step(t)
  PROVE  \/ UNCHANGED ready
         \/ Claim(t) /\ ready # <<>> /\ ready' = Tail(ready)
         \/ /\ WarmSetup(t) \/ AddReady(t)
            /\ \E i \in Ids, ip \in IPs :
                 ready' = Append(ready, [id |-> i, cid |-> job[t].ws.cid, ip |-> ip])
<1>1. job[t] \in JobRecords /\ Shaped(job[t], pc[t])
  BY DEF TypeInv, JobsOK
<1>2. CASE Claim(t)
  BY <1>2 DEF Claim
<1>3. CASE WarmSetup(t)
  BY <1>1, <1>3 DEF WarmSetup, At, Shaped, WithIp, WarmPath
<1>4. CASE AddReady(t)
  BY <1>1, <1>4 DEF AddReady, At, Shaped, WithIp, ColdPath, Working, Labels
<1>5. CASE UNCHANGED ready
  BY <1>5
<1> QED
  BY <1>2, <1>3, <1>4, <1>5
  DEF Step, WarmRelease, Rekey, WarmRegister, Provision, PopCid, CountCid,
      Launch, Configure, Register, UndoCid, UndoVm, UndoHost, ForkChecks, Clone, ForkSetup,
      DestroyVm, DestroyNetwork, DestroyStorage, DestroyCid, DestroyEntry, StopVm, MarkStopped,
      EnsureNetwork, MarkRunning, Mark, SaveBegin, SaveEnd, memory

\* A warm VM has such a CID.
LEMMA StepKeepsPoolBelow ==
  ASSUME TypeInv, CountedInv, NEW t \in Tasks, Step(t)
  PROVE  \A k \in 1..Len(ready') : ready'[k].cid < next_vsock_cid'
<1> DEFINE m == next_vsock_cid'
           j == job[t]
           n == Len(ready)
<1>1. m >= next_vsock_cid /\ next_vsock_cid \in Int /\ m \in Int
  BY CounterGrows
<1>2. ready \in Seq(WarmVm) /\ j \in JobRecords /\ Shaped(j, pc[t])
  BY DEF TypeInv, JobsOK, PoolOK
<1>3. \A k \in 1..n : ready[k].cid \in Int /\ ready[k].cid < m
  <2>1. \A k \in 1..n : ready[k] \in WarmVm
    BY <1>2
  <2>2. \A k \in 1..n : ready[k].cid < next_vsock_cid
    BY DEF CountedInv
  <2>3. \A warm \in WarmVm : warm.cid \in Int
    BY DEF WarmVm, Cids
  <2> QED BY <1>1, <2>1, <2>2, <2>3
<1>4. CASE UNCHANGED ready
  BY <1>3, <1>4
<1>5. CASE ready # <<>> /\ ready' = Tail(ready)
  <2>1. /\ Len(ready') = n - 1
        /\ \A k \in 1..Len(ready') : ready'[k] = ready[k + 1]
    BY <1>2, <1>5, HeadTailProperties
  <2> QED BY <1>2, <1>3, <2>1
<1>6. ASSUME WarmSetup(t) \/ AddReady(t), NEW i \in Ids, NEW ip \in IPs,
             ready' = Append(ready, [id |-> i, cid |-> j.ws.cid, ip |-> ip])
      PROVE  \A k \in 1..Len(ready') : ready'[k].cid < m
  <2>1. pc[t] \in WithCid
    BY <1>6 DEF WarmSetup, AddReady, At, WithCid, HoldsCid, WarmPath, ColdPath
  <2>2. j.ws.cid < m /\ j.ws.cid \in Cids
    BY <1>1, <1>2, <2>1 DEF CountedInv, Shaped, Cids
  <2> DEFINE warm == [id |-> i, cid |-> j.ws.cid, ip |-> ip]
  <2>3. warm \in WarmVm /\ warm.cid < m
    BY <1>6, <2>2 DEF WarmVm
  <2> HIDE DEF warm
  <2>4. /\ Len(ready') = n + 1
        /\ \A k \in 1..n : ready'[k] = ready[k]
        /\ ready'[n + 1] = warm
    BY <1>2, <1>6, <2>3, AppendProperties DEF warm
  <2> QED BY <1>2, <1>3, <2>3, <2>4
<1> QED BY <1>4, <1>5, <1>6, PoolStep

\* So has a task that builds or destroys.
LEMMA StepKeepsLocalsBelow ==
  ASSUME TypeInv, CountedInv, NEW t \in Tasks, Step(t), NEW u \in Tasks, pc'[u] \in WithCid
  PROVE  job'[u].ws.cid < next_vsock_cid'
<1> DEFINE m == next_vsock_cid'
<1>1. m >= next_vsock_cid /\ next_vsock_cid \in Int /\ m \in Int
  BY CounterGrows
<1>2. ASSUME NEW v \in Tasks, pc[v] \in WithCid
      PROVE  job[v].ws.cid \in Int /\ job[v].ws.cid < m
  <2>1. job[v] \in JobRecords /\ Shaped(job[v], pc[v])
    BY DEF TypeInv, JobsOK
  <2>2. job[v].ws.cid \in Int
    BY <1>2, <2>1 DEF Shaped, Cids
  <2> QED BY <1>1, <1>2, <2>2 DEF CountedInv
<1>3. CASE u # t
  BY <1>2, <1>3, OthersStay
<1>4. CASE u = t
  <2>1. CASE pc[t] \in WithCid /\ job'[t].ws.cid = job[t].ws.cid
    BY <1>2, <1>4, <2>1
  <2>2. CASE ready # <<>> /\ job'[t].ws.cid = Head(ready).cid
    <3>1. ready \in Seq(WarmVm)
      BY DEF TypeInv, PoolOK
    <3>2. 1 \in 1..Len(ready) /\ Head(ready) = ready[1] /\ ready[1] \in WarmVm
      BY <2>2, <3>1
    <3>3. ready[1].cid < next_vsock_cid /\ ready[1].cid \in Int
      BY <3>2 DEF CountedInv, WarmVm, Cids
    <3> QED BY <1>1, <1>4, <2>2, <3>2, <3>3
  <2>3. CASE free_vsock_cids # <<>> /\ job'[t].ws.cid = free_vsock_cids[Len(free_vsock_cids)]
    <3>1. free_vsock_cids \in Seq(Cids)
      BY DEF TypeInv, CidsOK
    <3>2. Len(free_vsock_cids) \in 1..Len(free_vsock_cids)
      BY <2>3, <3>1
    <3>3. free_vsock_cids[Len(free_vsock_cids)] < next_vsock_cid
      BY <3>2 DEF CountedInv, ListBelow
    <3>4. free_vsock_cids[Len(free_vsock_cids)] \in Cids
      BY <3>1, <3>2
    <3>5. free_vsock_cids[Len(free_vsock_cids)] \in Int
      BY <3>4 DEF Cids
    <3> QED BY <1>1, <1>4, <2>3, <3>3, <3>5
  <2>4. CASE job'[t].ws.cid = next_vsock_cid /\ next_vsock_cid' = next_vsock_cid + 1
    BY <1>1, <1>4, <2>4
  <2> QED BY <1>4, <2>1, <2>2, <2>3, <2>4, WhereCidsComeFrom
<1> QED BY <1>3, <1>4

\* A snapshot is taken under the locks of all it holds, so its counter is that
\* of its workspaces and of its free list.
LEMMA StepKeepsSavesBelow ==
  ASSUME TypeInv, CountedInv, NEW t \in Tasks, Step(t)
  PROVE  SavedBelow(state_file') /\ \A u \in Tasks : SavedBelow(snapshot'[u])
<1>1. SavedBelow(Persisted) /\ SavedBelow(NothingPersisted)
  BY NothingBelow DEF CountedInv, SavedBelow, Persisted
<1>2. SavedBelow(state_file) /\ \A u \in Tasks : SavedBelow(snapshot[u])
  BY DEF CountedInv
<1>3. snapshot \in [Tasks -> Saved]
  BY DEF TypeInv, SavesOK
<1>4. CASE SaveBegin(t)
  BY <1>1, <1>2, <1>3, <1>4 DEF SaveBegin
<1>5. CASE SaveEnd(t)
  BY <1>1, <1>2, <1>3, <1>5 DEF SaveEnd
<1>6. CASE UNCHANGED file
  BY <1>2, <1>6 DEF file
<1> QED
  BY <1>4, <1>5, <1>6
  DEF Step, Claim, WarmRelease, WarmSetup, Rekey, WarmRegister, Provision, PopCid, CountCid,
      Launch, Configure, Register, UndoCid, UndoVm, UndoHost, ForkChecks, Clone, ForkSetup,
      DestroyVm, DestroyNetwork, DestroyStorage, DestroyCid, DestroyEntry, StopVm, MarkStopped,
      EnsureNetwork, MarkRunning, Mark, AddReady

\* A request that arrives carries the CID of a registered workspace, if any.
LEMMA CallKeepsCounted ==
  ASSUME TypeInv, CountedInv, UNCHANGED <<memory, cids, file>>, NEW t \in Tasks,
         \/ t \in Requests /\ Arrive(t)
         \/ t = Saver /\ SaveTimer
         \/ t = Replenisher /\ \E i \in Ids : ReplenishPool(i)
  PROVE  CountedInv'
<1> USE DEF Labels, WithCid, WarmPath, ColdPath, HoldsCid, Ending
<1>1. pc \in [Tasks -> Labels] /\ job \in [Tasks -> JobRecords]
  BY DEF TypeInv, JobsOK
<1>2. ASSUME NEW label, NEW op, NEW i, NEW src, NEW ws, Call(t, label, op, i, src, ws)
      PROVE  /\ pc'[t] = label /\ job'[t].ws = ws
             /\ \A u \in Tasks \ {t} : pc'[u] = pc[u] /\ job'[u] = job[u]
  BY <1>1, <1>2 DEF Call, Goto
<1> DEFINE Carried ==
             /\ \A u \in Tasks \ {t} : pc'[u] = pc[u] /\ job'[u] = job[u]
             /\ pc'[t] \in WithCid =>
                  \E i \in Ids : workspaces[i] # None /\ job'[t].ws = workspaces[i]
<1>3. Carried
  <2>1. CASE t \in Requests /\ Arrive(t)
    <3>1. ASSUME NEW i \in Ids, NEW n \in Names \cup {i}, NEW default \in BOOLEAN,
                 Create(t, i, n, default)
          PROVE  Carried
      BY <1>2, <3>1 DEF Create
    <3>2. ASSUME NEW i \in Ids, NEW n \in Names \cup {i}, NEW source \in Ids, Fork(t, source, i, n)
          PROVE  Carried
      BY <1>2, <3>2 DEF Fork
    <3>3. ASSUME NEW i \in Ids, Destroy(t, i) \/ Stop(t, i) \/ Start(t, i)
          PROVE  Carried
      BY <1>2, <3>3 DEF Destroy, Stop, Start, Callable, Registered
    <3> QED BY <2>1, <3>1, <3>2, <3>3 DEF Arrive
  <2>2. CASE t = Saver /\ SaveTimer
    BY <1>2, <2>2 DEF SaveTimer
  <2>3. CASE t = Replenisher /\ \E i \in Ids : ReplenishPool(i)
    BY <1>2, <2>3 DEF ReplenishPool
  <2> QED BY <2>1, <2>2, <2>3
<1>4. ASSUME NEW u \in Tasks, pc'[u] \in WithCid PROVE job'[u].ws.cid < next_vsock_cid
  <2>1. CASE u # t
    BY <1>3, <1>4, <2>1 DEF CountedInv
  <2>2. CASE u = t
    BY <1>3, <1>4, <2>2 DEF CountedInv, TableBelow
  <2> QED BY <2>1, <2>2
<1> QED BY <1>4 DEF CountedInv, TableBelow, ListBelow, SavedBelow, memory, cids, file

\* A restart reads counter, workspaces and free list from one file, and recycles
\* the CIDs of the workspaces it drops.
LEMMA RestartKeepsCounted ==
  ASSUME TypeInv, CountedInv, Restart
  PROVE  CountedInv'
<1> DEFINE m == state_file.next_vsock_cid
<1>1. TableBelow(state_file.workspaces, m) /\ ListBelow(state_file.free_vsock_cids, m)
  BY DEF CountedInv, SavedBelow
<1>2. /\ state_file.workspaces \in [Ids -> Workspace \cup {None}]
      /\ state_file.free_vsock_cids \in Seq(Cids)
  BY DEF TypeInv, SavesOK, Saved, PersistedState
<1>3. ASSUME NEW i \in Ids, Loaded[i] # None PROVE Loaded[i].cid < m
  <2> PICK ws \in Workspace \cup {None} : ws = state_file.workspaces[i]
    BY <1>2
  <2>1. ws # None /\ ws.cid < m
    BY <1>1, <1>3 DEF Loaded, TableBelow
  <2>2. Loaded[i] \in {ws, [ws EXCEPT !.state = "Stopped", !.pid = None]}
    BY DEF Loaded
  <2> QED BY <2>1, <2>2 DEF Workspace
<1>4. TableBelow(workspaces', next_vsock_cid')
  BY <1>3 DEF Restart, TableBelow, LoadedCounter
<1>5. ListBelow(free_vsock_cids', next_vsock_cid')
  <2>1. PICK order \in Orders(Zombies) :
          free_vsock_cids' = state_file.free_vsock_cids
                             \o [k \in DOMAIN order |-> Loaded[order[k]].cid]
    BY DEF Restart
  <2> DEFINE given == [k \in DOMAIN order |-> Loaded[order[k]].cid]
             kept == state_file.free_vsock_cids
  <2>2. given \in Seq(Cids)
    BY ZombiesTyped
  <2>3. \A k \in 1..Len(given) : given[k] < m
    <3>1. ASSUME NEW k \in DOMAIN order PROVE given[k] < m
      <4>1. order[k] \in Zombies
        BY DEF Orders
      <4>2. order[k] \in Ids /\ Loaded[order[k]] # None
        BY <4>1 DEF Zombies, LoadedStopped
      <4> QED BY <1>3, <4>2
    <3>2. 1..Len(given) = DOMAIN given
      BY <2>2
    <3> QED BY <3>1, <3>2
  <2>4. \A k \in 1..Len(kept) : kept[k] < m
    BY <1>1 DEF ListBelow
  <2> HIDE DEF given, kept
  <2>5. free_vsock_cids' = kept \o given /\ kept \in Seq(Cids)
    BY <1>2, <2>1 DEF given, kept
  <2>6. /\ Len(free_vsock_cids') = Len(kept) + Len(given)
        /\ \A k \in 1..(Len(kept) + Len(given)) :
             free_vsock_cids'[k] = IF k <= Len(kept) THEN kept[k] ELSE given[k - Len(kept)]
    BY <2>2, <2>5, ConcatProperties
  <2>7. Len(kept) \in Nat /\ Len(given) \in Nat
    BY <2>2, <2>5
  <2>8. ASSUME NEW k \in 1..(Len(kept) + Len(given)) PROVE free_vsock_cids'[k] < m
    <3>1. CASE k <= Len(kept)
      BY <2>4, <2>6, <2>7, <3>1
    <3>2. CASE ~(k <= Len(kept))
      <4>1. k - Len(kept) \in 1..Len(given)
        BY <2>7, <3>2
      <4> QED BY <2>3, <2>6, <3>2, <4>1
    <3> QED BY <3>1, <3>2
  <2> QED BY <2>6, <2>8 DEF Restart, ListBelow, LoadedCounter
<1>6. /\ \A t \in Tasks : pc'[t] \notin WithCid
      /\ \A k \in 1..Len(ready') : ready'[k].cid < next_vsock_cid'
  BY DEF Restart, WithCid, WarmPath, ColdPath, HoldsCid, Ending
<1>7. (SavedBelow(state_file) /\ \A t \in Tasks : SavedBelow(snapshot[t]))'
  BY NothingBelow DEF Restart, CountedInv
<1> QED BY <1>4, <1>5, <1>6, <1>7 DEF CountedInv

\* Nothing is issued yet.
LEMMA InitCounted ==
  ASSUME Init
  PROVE  CountedInv
BY NothingBelow DEF Init, CountedInv, TableBelow, ListBelow, WithCid, WarmPath, ColdPath,
                    HoldsCid, Ending

\* CountedInv is inductive.
LEMMA NextKeepsCounted ==
  ASSUME TypeInv, CountedInv, [Next]_vars
  PROVE  CountedInv'
<1>1. ASSUME NEW t \in Tasks, Step(t) PROVE CountedInv'
  BY <1>1, StepKeepsTableBelow, StepKeepsListBelow, StepKeepsPoolBelow, StepKeepsLocalsBelow,
     StepKeepsSavesBelow DEF CountedInv
<1>2. ASSUME NEW t \in Requests, Arrive(t) PROVE CountedInv'
  <2>1. UNCHANGED <<memory, cids, file>>
    BY <1>2 DEF Arrive, Create, Fork, Destroy, Stop, Start
  <2> QED BY <1>2, <2>1, CallKeepsCounted DEF Tasks
<1>3. CASE SaveTimer
  <2>1. UNCHANGED <<memory, cids, file>>
    BY <1>3 DEF SaveTimer
  <2> QED BY <1>3, <2>1, CallKeepsCounted DEF Tasks
<1>4. CASE \E i \in Ids : ReplenishPool(i)
  <2>1. UNCHANGED <<memory, cids, file>>
    BY <1>4 DEF ReplenishPool
  <2> QED BY <1>4, <2>1, CallKeepsCounted DEF Tasks
<1>5. ASSUME UNCHANGED <<memory, cids, file, pc, job>> PROVE CountedInv'
  BY <1>5 DEF CountedInv, TableBelow, ListBelow, SavedBelow, memory, cids, file
<1>6. ASSUME NEW p \in Ids, VmDies(p) PROVE CountedInv'
  BY <1>5, <1>6 DEF VmDies
<1>7. CASE Restart
  BY <1>7, RestartKeepsCounted
<1>8. CASE UNCHANGED vars
  BY <1>5, <1>8 DEF vars
<1> QED BY <1>1, <1>2, <1>3, <1>4, <1>6, <1>7, <1>8 DEF Next

\* No workspace and no free CID is saved that the saved counter would issue
\* again, whatever overlapped and whenever the daemon died ("read next_vsock_cid
\* last").
THEOREM CounterTheorem == Spec => []SavedCounterFresh
<1>1. Init => TypeInv /\ CountedInv
  BY InitTyped, InitCounted
<1>2. TypeInv /\ CountedInv /\ [Next]_vars => (TypeInv /\ CountedInv)'
  BY NextTyped, NextKeepsCounted
<1>3. TypeInv /\ CountedInv => SavedCounterFresh
  <2> SUFFICES ASSUME TypeInv, CountedInv PROVE SavedCounterFresh
    OBVIOUS
  <2>1. state_file.free_vsock_cids \in Seq(Cids)
    BY DEF TypeInv, SavesOK, Saved, PersistedState
  <2>2. DOMAIN state_file.free_vsock_cids = 1..Len(state_file.free_vsock_cids)
    BY <2>1
  <2> QED BY <2>2 DEF CountedInv, SavedCounterFresh, SavedBelow, TableBelow, ListBelow
<1> QED BY <1>1, <1>2, <1>3, PTL DEF Spec

-----------------------------------------------------------------------------
(* The state file *)

\* The registry and the file agree on a workspace exactly, or on its identity.
Agree(exact, ws, saved) ==
  IF exact THEN saved = ws ELSE ws # None => SameIdentity(ws, saved)

\* A request is about to save what it did to i, or is at it.
Pending(i) == \E t \in Tasks : job[t].id = i /\ pc[t] = "save"
Unsettled(i) == \E t \in Tasks : job[t].id = i /\ pc[t] \in {"save", "write"}

FileInv(exact) ==
  /\ \A t \in Tasks : pc[t] = "write" => save_lock = t
  /\ \A t \in Tasks : pc[t] = "write" => \A i \in Ids :
       Agree(exact, workspaces[i], snapshot[t].workspaces[i]) \/ Pending(i)
  /\ \A i \in Ids : Agree(exact, workspaces[i], state_file.workspaces[i]) \/ Unsettled(i)

\* A snapshot that was just taken.
LEMMA AgreeWithItself ==
  ASSUME NEW exact \in BOOLEAN, NEW ws
  PROVE  Agree(exact, ws, ws)
BY DEF Agree, SameIdentity

\* All steps but those of a save leave the file alone and lead to the place
\* "save" at most.
LEMMA ElsewhereThanSave ==
  ASSUME TypeInv, NEW t \in Tasks, Step(t), ~SaveBegin(t), ~SaveEnd(t)
  PROVE  UNCHANGED file /\ pc[t] \notin {"save", "write"} /\ pc'[t] # "write"
<1>1. pc \in [Tasks -> Labels] /\ job \in [Tasks -> JobRecords]
  BY DEF TypeInv, JobsOK
<1>2. ASSUME NEW label, Goto(t, label) PROVE pc'[t] = label
  BY <1>1, <1>2 DEF Goto
<1>3. ASSUME Return(t) PROVE pc'[t] = "idle"
  BY <1>2, <1>3 DEF Return
<1>4. CASE \/ Claim(t) \/ WarmRelease(t) \/ WarmSetup(t) \/ Rekey(t) \/ WarmRegister(t)
           \/ Provision(t)
  BY <1>2, <1>3, <1>4
  DEF Claim, WarmRelease, WarmSetup, Rekey, WarmRegister, Provision, At
<1>5. CASE \/ PopCid(t) \/ CountCid(t) \/ Configure(t) \/ Register(t)
           \/ UndoCid(t) \/ UndoVm(t) \/ UndoHost(t) \/ AddReady(t)
  BY <1>2, <1>3, <1>5
  DEF PopCid, CountCid, CidKnown, Configure, Register, UndoCid, UndoVm, UndoHost, AddReady, At
<1>6. CASE Launch(t)
  <2>1. AfterLaunch(job[t].op) # "write"
    BY DEF AfterLaunch
  <2> QED BY <1>2, <1>3, <1>6, <2>1 DEF Launch, At
<1>7. CASE \/ ForkChecks(t) \/ Clone(t) \/ ForkSetup(t)
           \/ DestroyVm(t) \/ DestroyNetwork(t) \/ DestroyStorage(t) \/ DestroyCid(t) \/ DestroyEntry(t)
  BY <1>2, <1>3, <1>7
  DEF ForkChecks, Clone, ForkSetup, DestroyVm, DestroyNetwork, DestroyStorage, DestroyCid,
      DestroyEntry, At
<1>8. CASE StopVm(t) \/ MarkStopped(t) \/ EnsureNetwork(t) \/ MarkRunning(t)
  BY <1>2, <1>3, <1>8 DEF StopVm, MarkStopped, EnsureNetwork, MarkRunning, Mark, At
<1> QED BY <1>4, <1>5, <1>6, <1>7, <1>8 DEF Step

\* Whoever writes an entry is at its save next.
LEMMA WrittenIsPending ==
  ASSUME TypeInv, NEW t \in Tasks, Step(t), ~SaveBegin(t), ~SaveEnd(t),
         NEW i \in Ids, workspaces'[i] # workspaces[i]
  PROVE  Pending(i)'
<1>1. /\ pc \in [Tasks -> Labels] /\ job \in [Tasks -> JobRecords]
      /\ workspaces \in [Ids -> Workspace \cup {None}]
  BY DEF TypeInv, JobsOK, RegistryOK
<1>2. /\ i = job[t].id
      /\ WarmRegister(t) \/ Register(t) \/ DestroyEntry(t) \/ MarkStopped(t) \/ MarkRunning(t)
  BY <1>1, RegistryStep
<1>3. UNCHANGED job
  BY <1>2 DEF WarmRegister, Register, DestroyEntry, MarkStopped, MarkRunning, Mark
<1>4. Goto(t, "save")
  <2>1. UNCHANGED workspaces \/ Goto(t, "save")
    BY <1>2 DEF WarmRegister, Register, DestroyEntry, MarkStopped, MarkRunning, Mark
  <2> QED BY <2>1
<1>5. job'[t].id = i /\ pc'[t] = "save"
  BY <1>1, <1>2, <1>3, <1>4 DEF Goto
<1> QED BY <1>5 DEF Pending

\* A task at its save stays there until it takes the lock, and unsettled until it
\* has written.
LEMMA PendingStays ==
  ASSUME TypeInv, NEW t \in Tasks, Step(t), ~SaveBegin(t), ~SaveEnd(t), NEW i \in Ids
  PROVE  (Pending(i) => Pending(i)') /\ (Unsettled(i) => Unsettled(i)')
<1>1. pc[t] \notin {"save", "write"}
  BY ElsewhereThanSave
<1>2. \A u \in Tasks : pc[u] \in {"save", "write"} => pc'[u] = pc[u] /\ job'[u] = job[u]
  BY <1>1, OthersStay
<1> QED BY <1>2 DEF Pending, Unsettled

\* The argument: save_lock makes the saves follow one another, and whoever wrote
\* an entry saves after it did.
LEMMA StepKeepsFile ==
  ASSUME "save" \notin Faults, TypeInv, NEW exact \in BOOLEAN, FileInv(exact),
         NEW t \in Tasks, Step(t)
  PROVE  FileInv(exact)'
<1>1. pc \in [Tasks -> Labels] /\ job \in [Tasks -> JobRecords] /\ snapshot \in [Tasks -> Saved]
  BY DEF TypeInv, JobsOK, SavesOK
<1>2. CASE ~SaveBegin(t) /\ ~SaveEnd(t)
  <2>1. UNCHANGED file /\ pc[t] \notin {"save", "write"} /\ pc'[t] # "write"
    BY <1>2, ElsewhereThanSave
  <2>2. \A u \in Tasks : pc'[u] = "write" => pc[u] = "write"
    BY <2>1, OthersStay
  <2>3. UNCHANGED <<save_lock, snapshot, state_file>>
    BY <2>1 DEF file
  <2>4. ASSUME NEW i \in Ids, NEW saved, Agree(exact, workspaces[i], saved) \/ Pending(i)
        PROVE  Agree(exact, workspaces'[i], saved) \/ Pending(i)'
    BY <1>2, <2>4, WrittenIsPending, PendingStays
  <2>5. ASSUME NEW i \in Ids, NEW saved, Agree(exact, workspaces[i], saved) \/ Unsettled(i)
        PROVE  Agree(exact, workspaces'[i], saved) \/ Unsettled(i)'
    <3>1. Pending(i)' => Unsettled(i)'
      BY DEF Pending, Unsettled
    <3> QED BY <1>2, <2>5, <3>1, WrittenIsPending, PendingStays
  <2>6. \A u \in Tasks : pc'[u] = "write" => \A i \in Ids :
          Agree(exact, workspaces'[i], snapshot'[u].workspaces[i]) \/ Pending(i)'
    BY <2>2, <2>3, <2>4 DEF FileInv
  <2>7. \A i \in Ids : Agree(exact, workspaces'[i], state_file'.workspaces[i]) \/ Unsettled(i)'
    BY <2>3, <2>5 DEF FileInv
  <2>8. \A u \in Tasks : pc'[u] = "write" => save_lock' = u
    BY <2>2, <2>3 DEF FileInv
  <2> QED BY <2>6, <2>7, <2>8 DEF FileInv, Agree
<1>3. CASE SaveBegin(t)
  <2>1. /\ save_lock = None /\ save_lock' = t /\ pc[t] = "save" /\ pc'[t] = "write"
        /\ UNCHANGED <<workspaces, state_file, job>> /\ snapshot'[t] = Persisted
    BY <1>1, <1>3 DEF SaveBegin, At, Goto, memory
  <2>2. \A u \in Tasks : u # t => pc'[u] = pc[u]
    BY OthersStay
  <2>3. \A u \in Tasks : pc'[u] = "write" => u = t
    <3>2. ASSUME NEW u \in Tasks, u # t, pc[u] = "write" PROVE FALSE
      <4>1. save_lock = u
        BY <3>2 DEF FileInv
      <4>2. u # None
        BY <3>2, TasksAssumption DEF Tasks
      <4> QED BY <2>1, <4>1, <4>2
    <3> QED BY <2>2, <3>2
  <2>4. \A i \in Ids : Agree(exact, workspaces'[i], snapshot'[t].workspaces[i])
    BY <2>1, AgreeWithItself DEF Persisted
  <2>5. \A i \in Ids : Unsettled(i) => Unsettled(i)'
    BY <2>1, <2>2 DEF Unsettled
  <2>6. \A i \in Ids : Agree(exact, workspaces'[i], state_file'.workspaces[i]) \/ Unsettled(i)'
    BY <2>1, <2>5 DEF FileInv
  <2> QED BY <2>1, <2>3, <2>4, <2>6 DEF FileInv, Agree
<1>4. CASE SaveEnd(t)
  <2>1. /\ pc[t] = "write" /\ pc'[t] = "idle" /\ state_file' = snapshot[t]
        /\ UNCHANGED workspaces
    BY <1>1, <1>4 DEF SaveEnd, At, Return, Goto, memory, Fails
  <2>2. \A u \in Tasks : u # t => pc'[u] = pc[u] /\ job'[u] = job[u]
    BY OthersStay
  <2>3. \A u \in Tasks : pc'[u] # "write"
    BY <2>1, <2>2 DEF FileInv
  <2>4. \A i \in Ids : Pending(i) => Unsettled(i)'
    BY <2>1, <2>2 DEF Pending, Unsettled
  <2>5. \A i \in Ids : Agree(exact, workspaces'[i], state_file'.workspaces[i]) \/ Unsettled(i)'
    BY <2>1, <2>4 DEF FileInv
  <2> QED BY <2>3, <2>5 DEF FileInv, Agree
<1> QED BY <1>2, <1>3, <1>4

\* What begins touches neither the registry nor the file, and no save.
LEMMA CallKeepsFile ==
  ASSUME TypeInv, NEW exact \in BOOLEAN, FileInv(exact), UNCHANGED <<memory, file>>, NEW t \in Tasks,
         pc[t] = "idle", pc'[t] # "write",
         \A u \in Tasks \ {t} : pc'[u] = pc[u] /\ job'[u] = job[u]
  PROVE  FileInv(exact)'
<1>1. \A u \in Tasks : pc[u] \in {"save", "write"} => pc'[u] = pc[u] /\ job'[u] = job[u]
  OBVIOUS
<1>2. \A i \in Ids : (Pending(i) => Pending(i)') /\ (Unsettled(i) => Unsettled(i)')
  BY <1>1 DEF Pending, Unsettled
<1>3. \A u \in Tasks : pc'[u] = "write" => pc[u] = "write"
  OBVIOUS
<1> QED BY <1>2, <1>3 DEF FileInv, Agree, memory, file

\* The registry of the next daemon is what was saved, but for the state of the
\* workspaces and for those whose disk is gone.
LEMMA RestartKeepsFile ==
  ASSUME TypeInv, Restart
  PROVE  FileInv(FALSE)'
<1>1. state_file.workspaces \in [Ids -> Workspace \cup {None}]
  BY DEF TypeInv, SavesOK, Saved, PersistedState
<1>2. ASSUME NEW i \in Ids, workspaces'[i] # None
      PROVE  SameIdentity(workspaces'[i], state_file'.workspaces[i])
  <2> PICK ws \in Workspace \cup {None} : ws = state_file.workspaces[i]
    BY <1>1
  <2>1. workspaces'[i] = Loaded[i] /\ UNCHANGED state_file
    BY <1>2 DEF Restart
  <2>2. ws # None /\ Loaded[i] \in {ws, [ws EXCEPT !.state = "Stopped", !.pid = None]}
    BY <1>2, <2>1 DEF Loaded
  <2>3. CASE Loaded[i] = ws
    BY <2>1, <2>2, <2>3 DEF SameIdentity
  <2>4. CASE Loaded[i] = [ws EXCEPT !.state = "Stopped", !.pid = None]
    <3>1. /\ Loaded[i].name = ws.name /\ Loaded[i].ds = ws.ds
          /\ Loaded[i].cid = ws.cid /\ Loaded[i].ip = ws.ip
      BY <2>2, <2>4 DEF Workspace
    <3> QED BY <2>1, <2>2, <3>1 DEF SameIdentity
  <2> QED BY <2>2, <2>3, <2>4
<1>3. \A t \in Tasks : pc'[t] # "write"
  BY DEF Restart
<1> QED BY <1>2, <1>3 DEF FileInv, Agree

\* FileInv is inductive where saves do not fail; a restart keeps the weaker form.
LEMMA NextKeepsFile ==
  ASSUME "save" \notin Faults, TypeInv, NEW exact \in BOOLEAN, FileInv(exact),
         [Next]_vars, exact => ~Restart
  PROVE  FileInv(exact)'
<1>1. pc \in [Tasks -> Labels] /\ job \in [Tasks -> JobRecords]
  BY DEF TypeInv, JobsOK
<1>2. ASSUME NEW t \in Tasks, NEW label, NEW op, NEW i, NEW src, NEW ws,
             Call(t, label, op, i, src, ws), label # "write"
      PROVE  /\ pc[t] = "idle" /\ pc'[t] # "write"
             /\ \A u \in Tasks \ {t} : pc'[u] = pc[u] /\ job'[u] = job[u]
  BY <1>1, <1>2 DEF Call, Goto, At
<1>3. ASSUME NEW t \in Tasks, Step(t) PROVE FileInv(exact)'
  BY <1>3, StepKeepsFile
<1>4. ASSUME NEW t \in Requests, Arrive(t) PROVE FileInv(exact)'
  <2>1. t \in Tasks
    BY DEF Tasks
  <2>2. ASSUME NEW i \in Ids, NEW n \in Names \cup {i}, NEW default \in BOOLEAN,
               Create(t, i, n, default)
        PROVE  FileInv(exact)'
    BY <1>2, <2>1, <2>2, CallKeepsFile DEF Create
  <2>3. ASSUME NEW i \in Ids, NEW n \in Names \cup {i}, NEW source \in Ids, Fork(t, source, i, n)
        PROVE  FileInv(exact)'
    BY <1>2, <2>1, <2>3, CallKeepsFile DEF Fork
  <2>4. ASSUME NEW i \in Ids, Destroy(t, i) \/ Stop(t, i) \/ Start(t, i)
        PROVE  FileInv(exact)'
    BY <1>2, <2>1, <2>4, CallKeepsFile DEF Destroy, Stop, Start
  <2> QED BY <1>4, <2>2, <2>3, <2>4 DEF Arrive
<1>5. CASE SaveTimer
  BY <1>2, <1>5, CallKeepsFile DEF SaveTimer, Tasks
<1>6. ASSUME NEW i \in Ids, ReplenishPool(i) PROVE FileInv(exact)'
  BY <1>2, <1>6, CallKeepsFile DEF ReplenishPool, Tasks
<1>7. ASSUME UNCHANGED <<memory, file, pc, job>> PROVE FileInv(exact)'
  BY <1>7 DEF FileInv, Agree, Pending, Unsettled, memory, file
<1>8. ASSUME NEW p \in Ids, VmDies(p) PROVE FileInv(exact)'
  BY <1>7, <1>8 DEF VmDies
<1>9. CASE Restart
  BY <1>9, RestartKeepsFile
<1>10. CASE UNCHANGED vars
  BY <1>7, <1>10 DEF vars
<1> QED BY <1>3, <1>4, <1>5, <1>6, <1>8, <1>9, <1>10 DEF Next

\* Nothing is registered and nothing saved.
LEMMA InitFile ==
  ASSUME Init, NEW exact \in BOOLEAN
  PROVE  FileInv(exact)
BY DEF Init, FileInv, Agree, NothingPersisted, SameIdentity

\* Saves that succeed never lose an update: when no request is at work on a
\* workspace the file has what memory has, however the saves interleaved.
THEOREM FileTheorem ==
  ASSUME {"save", "crash"} \cap Faults = {}
  PROVE  Spec => []FileIsCurrent
<1>1. Init => TypeInv /\ FileInv(TRUE)
  BY InitTyped, InitFile
<1>2. TypeInv /\ FileInv(TRUE) /\ [Next]_vars => (TypeInv /\ FileInv(TRUE))'
  <2>1. ~Restart
    BY DEF Restart, Fails
  <2> QED BY <2>1, NextTyped, NextKeepsFile
<1>3. FileInv(TRUE) => FileIsCurrent
  BY DEF FileInv, Agree, Unsettled, FileIsCurrent, Quiet, Busy
<1> QED BY <1>1, <1>2, <1>3, PTL DEF Spec

\* A crash loses no workspace that was at rest and has its disk, and changes
\* neither its name, disk, CID nor address, whichever step of the others it hits.
THEOREM RestartTheorem ==
  ASSUME "save" \notin Faults
  PROVE  Spec => RestartKeepsWorkspaces
<1>1. Init => TypeInv /\ FileInv(FALSE)
  BY InitTyped, InitFile
<1>2. TypeInv /\ FileInv(FALSE) /\ [Next]_vars => (TypeInv /\ FileInv(FALSE))'
  BY NextTyped, NextKeepsFile
<1>3. TypeInv /\ FileInv(FALSE) /\ [Next]_vars => [Restart => SurvivesRestart]_vars
  <2> SUFFICES ASSUME TypeInv, FileInv(FALSE), Restart PROVE SurvivesRestart
    OBVIOUS
  <2> SUFFICES ASSUME NEW i \in Registered, Quiet(i), workspaces[i].ds \in datasets
               PROVE  SameIdentity(workspaces[i], workspaces'[i])
    BY DEF SurvivesRestart
  <2>1. /\ workspaces \in [Ids -> Workspace \cup {None}]
        /\ state_file.workspaces \in [Ids -> Workspace \cup {None}]
    BY DEF TypeInv, RegistryOK, SavesOK, Saved, PersistedState
  <2>2. i \in Ids /\ workspaces[i] # None
    BY DEF Registered
  <2>3. SameIdentity(workspaces[i], state_file.workspaces[i])
    BY <2>2 DEF FileInv, Agree, Unsettled, Quiet, Busy
  <2> PICK ws \in Workspace \cup {None} : ws = state_file.workspaces[i]
    BY <2>1, <2>2
  <2>4. ws # None /\ ws.ds \in datasets
    BY <2>3 DEF SameIdentity
  <2>5. /\ Loaded[i] \in {ws, [ws EXCEPT !.state = "Stopped", !.pid = None]}
        /\ Loaded[i] # None /\ Loaded[i].ds = ws.ds
    <3>1. Loaded[i] \in {ws, [ws EXCEPT !.state = "Stopped", !.pid = None]}
      BY <2>2 DEF Loaded
    <3>2. [ws EXCEPT !.state = "Stopped", !.pid = None].ds = ws.ds
      BY <2>4 DEF Workspace
    <3>3. /\ \A w \in {ws, [ws EXCEPT !.state = "Stopped", !.pid = None]} : w \in Workspace
          /\ ws \in Workspace
      BY <2>4 DEF Workspace, States
    <3> QED BY <3>1, <3>2, <3>3, WorkspaceAssumption
  <2>6. i \notin Zombies
    BY <2>4, <2>5 DEF Zombies
  <2>7. workspaces'[i] = Loaded[i]
    BY <2>2, <2>6 DEF Restart
  <2>8. SameIdentity(ws, Loaded[i])
    BY <2>4, <2>5 DEF SameIdentity, Workspace
  <2> QED BY <2>3, <2>7, <2>8 DEF SameIdentity
<1> QED BY <1>1, <1>2, <1>3, PTL DEF Spec, RestartKeepsWorkspaces

-----------------------------------------------------------------------------
(* The quota.  The invariant bounds what was saved as well, since a restart registers that, and
   keeps the tasks off the path of a claimed warm VM, which registers without the check. *)

ClaimPath == {"claim", "warmRelease", "warmSetup", "rekey", "warmRegister"}
NoClaim == pc \in [Tasks -> Labels \ ClaimPath]

Entries(table) == {i \in Ids : table[i] # None}
Within(table) == Cardinality(Entries(table)) <= MaxWorkspaces
IsTable(table) == table = [i \in Ids |-> table[i]]

SavedWithin ==
  /\ Within(state_file.workspaces)
  /\ snapshot = [t \in Tasks |-> snapshot[t]]
  /\ \A t \in Tasks : Within(snapshot[t].workspaces)

QuotaInv ==
  /\ NoClaim
  /\ IsTable(workspaces)
  /\ Within(workspaces)
  /\ SavedWithin

-----------------------------------------------------------------------------
(* Tables of workspaces *)

\* The entries of a table are finitely many.
LEMMA EntriesFinite ==
  ASSUME NEW table
  PROVE  IsFiniteSet(Entries(table)) /\ Cardinality(Entries(table)) \in Nat
<1>1. Entries(table) \subseteq Ids
  BY DEF Entries
<1>2. IsFiniteSet(Entries(table))
  BY <1>1, IdsAssumption, FS_Subset
<1> QED BY <1>2, FS_CardinalityType

\* A table with no entry more than one within the quota is within the quota:
\* what destroy, stop, start and a restart do.
LEMMA FewerWithin ==
  ASSUME NEW old, NEW new, Within(old), Entries(new) \subseteq Entries(old)
  PROVE  Within(new)
<1>1. Cardinality(Entries(new)) <= Cardinality(Entries(old))
  BY EntriesFinite, FS_Subset
<1> QED BY <1>1, EntriesFinite, ConstantsAssumption DEF Within

\* One entry more than a table below the quota is within it: Register.
LEMMA OneMoreWithin ==
  ASSUME NEW old, NEW new, NEW i,
         Cardinality(Entries(old)) < MaxWorkspaces,
         Entries(new) \subseteq Entries(old) \cup {i}
  PROVE  Within(new)
<1> DEFINE More == Entries(old) \cup {i}
<1>1. IsFiniteSet(More) /\ Cardinality(More) <= Cardinality(Entries(old)) + 1
  <2>1. IsFiniteSet(Entries(old)) /\ Cardinality(Entries(old)) \in Nat
    BY EntriesFinite
  <2>2. /\ IsFiniteSet(More)
        /\ Cardinality(More) = IF i \in Entries(old) THEN Cardinality(Entries(old))
                               ELSE Cardinality(Entries(old)) + 1
    BY <2>1, FS_AddElement
  <2> QED BY <2>1, <2>2
<1>2. Cardinality(Entries(new)) <= Cardinality(More)
  BY <1>1, FS_Subset
<1> QED
  BY <1>1, <1>2, EntriesFinite, FS_CardinalityType, ConstantsAssumption DEF Within

\* Nothing registered is within the quota: the first start.
LEMMA EmptyWithin == Within([i \in Ids |-> None])
<1>1. Entries([i \in Ids |-> None]) = {}
  BY DEF Entries
<1> QED BY <1>1, FS_EmptySet, ConstantsAssumption DEF Within

-----------------------------------------------------------------------------
(* Steps *)

\* A task that goes on to a label off the claim path leaves all of them off it.
LEMMA GotoKeepsNoClaim ==
  ASSUME NEW t, NEW label \in Labels \ ClaimPath, NoClaim, Goto(t, label)
  PROVE  NoClaim'
BY DEF NoClaim, Goto

\* The steps of create, fork, start, stop and destroy that do not touch the
\* registry: with the pool disabled none of them enters the claim path.
ElsewhereSteps(t) ==
  \/ Provision(t) \/ PopCid(t) \/ CountCid(t) \/ Launch(t) \/ Configure(t)
  \/ UndoCid(t) \/ UndoVm(t) \/ UndoHost(t)
  \/ ForkChecks(t) \/ Clone(t) \/ ForkSetup(t)
  \/ DestroyVm(t) \/ DestroyNetwork(t) \/ DestroyStorage(t) \/ DestroyCid(t)
  \/ StopVm(t) \/ EnsureNetwork(t) \/ AddReady(t)

\* None of them touches the registry or the file, or leads to a claim.
LEMMA ElsewhereStays ==
  ASSUME NEW t \in Tasks, ElsewhereSteps(t)
  PROVE  /\ \E label \in Labels \ ClaimPath : Goto(t, label)
         /\ UNCHANGED <<workspaces, snapshot, state_file>>
<1> USE DEF memory, file, Labels, ClaimPath
<1>1. CASE Provision(t)
  BY <1>1 DEF Provision, Return
<1>2. CASE PopCid(t) \/ CountCid(t)
  BY <1>2 DEF PopCid, CountCid, CidKnown, Return
<1>3. CASE Launch(t)
  <2>1. AfterLaunch(job[t].op) \in {"configure", "register", "addReady", "markRunning"}
    BY DEF AfterLaunch
  <2> QED BY <1>3, <2>1 DEF Launch, Return
<1>4. CASE Configure(t) \/ UndoCid(t) \/ UndoVm(t) \/ UndoHost(t)
  BY <1>4 DEF Configure, UndoCid, UndoVm, UndoHost, Return
<1>5. CASE ForkChecks(t) \/ Clone(t) \/ ForkSetup(t)
  BY <1>5 DEF ForkChecks, Clone, ForkSetup, Return
<1>6. CASE DestroyVm(t) \/ DestroyNetwork(t) \/ DestroyStorage(t) \/ DestroyCid(t)
  BY <1>6 DEF DestroyVm, DestroyNetwork, DestroyStorage, DestroyCid
<1>7. CASE StopVm(t) \/ EnsureNetwork(t) \/ AddReady(t)
  BY <1>7 DEF StopVm, EnsureNetwork, AddReady, Return
<1> QED BY <1>1, <1>2, <1>3, <1>4, <1>5, <1>6, <1>7 DEF ElsewhereSteps

\* A step off the registry and the file keeps what is said of both.
LEMMA ElsewhereKeepsInv ==
  ASSUME NEW t, NEW label \in Labels \ ClaimPath, QuotaInv, Goto(t, label),
         UNCHANGED <<workspaces, snapshot, state_file>>
  PROVE  QuotaInv'
<1>1. NoClaim'
  BY GotoKeepsNoClaim DEF QuotaInv
<1>2. (IsTable(workspaces) /\ Within(workspaces) /\ SavedWithin)'
  BY DEF QuotaInv, IsTable, Within, Entries, SavedWithin
<1> QED BY <1>1, <1>2 DEF QuotaInv

\* A request that arrives has touched nothing yet.
LEMMA ArriveKeepsInv ==
  ASSUME ~PoolEnabled, QuotaInv, NEW t \in Requests, Arrive(t)
  PROVE  QuotaInv'
<1>1. \E label \in {"provision", "forkChecks", "endVm", "stopVm", "ensureNetwork"} :
        Goto(t, label) /\ UNCHANGED <<workspaces, snapshot, state_file>>
  BY DEF Arrive, Create, Fork, Destroy, Stop, Start, Call, memory, file
<1> QED BY <1>1, ElsewhereKeepsInv DEF Labels, ClaimPath

\* A step that writes one entry of the registry and goes on to save it.
LEMMA WriteKeepsInv ==
  ASSUME QuotaInv, NEW t, NEW label \in Labels \ ClaimPath, Goto(t, label),
         IsTable(workspaces'), Within(workspaces'), UNCHANGED <<snapshot, state_file>>
  PROVE  QuotaInv'
<1>1. NoClaim'
  BY GotoKeepsNoClaim DEF QuotaInv
<1>2. SavedWithin'
  BY DEF QuotaInv, SavedWithin, Within, Entries
<1> QED BY <1>1, <1>2 DEF QuotaInv, IsTable, Within, Entries

\* The check under the write lock admits an entry only below the quota.
LEMMA RegisterKeepsInv ==
  ASSUME QuotaInv, NEW t, Register(t)
  PROVE  QuotaInv'
<1>1. CASE Count < MaxWorkspaces
  <2>1. workspaces' = [workspaces EXCEPT ![job[t].id] = job[t].ws] /\ Goto(t, "save")
    BY <1>1 DEF Register
  <2>2. IsTable(workspaces')
    BY <2>1 DEF QuotaInv, IsTable
  <2>3. Entries(workspaces') \subseteq Entries(workspaces) \cup {job[t].id}
    BY <2>1 DEF QuotaInv, IsTable, Entries
  <2>4. Cardinality(Entries(workspaces)) < MaxWorkspaces
    BY <1>1 DEF Count, Registered, Entries
  <2>5. Within(workspaces')
    BY <2>3, <2>4, OneMoreWithin
  <2> QED
    BY <2>1, <2>2, <2>5, WriteKeepsInv DEF Register, file, Labels, ClaimPath
<1>2. CASE ~(Count < MaxWorkspaces)
  BY <1>2, ElsewhereKeepsInv DEF Register, file, Labels, ClaimPath
<1> QED BY <1>1, <1>2

\* destroy removes an entry; stop and start rewrite one that is there.
LEMMA EntryKeepsInv ==
  ASSUME QuotaInv, NEW t, DestroyEntry(t) \/ MarkStopped(t) \/ MarkRunning(t)
  PROVE  QuotaInv'
<1>1. Goto(t, "save") /\ UNCHANGED <<snapshot, state_file>>
  BY DEF DestroyEntry, MarkStopped, MarkRunning, Mark, file
<1>2. IsTable(workspaces') /\ Entries(workspaces') \subseteq Entries(workspaces)
  <2>1. CASE DestroyEntry(t)
    BY <2>1 DEF DestroyEntry, QuotaInv, IsTable, Entries
  <2>2. ASSUME NEW state, NEW pid, Mark(t, state, pid)
        PROVE  IsTable(workspaces') /\ Entries(workspaces') \subseteq Entries(workspaces)
    BY <2>2 DEF Mark, QuotaInv, IsTable, Entries
  <2> QED BY <2>1, <2>2 DEF MarkStopped, MarkRunning
<1>3. Within(workspaces')
  BY <1>2, FewerWithin DEF QuotaInv
<1> QED BY <1>1, <1>2, <1>3, WriteKeepsInv DEF Labels, ClaimPath

\* The snapshot is the registry of its moment; the file becomes a snapshot.
LEMMA SaveKeepsInv ==
  ASSUME QuotaInv, NEW t \in Tasks, SaveBegin(t) \/ SaveEnd(t)
  PROVE  QuotaInv'
<1>1. NoClaim' /\ UNCHANGED workspaces
  <2>1. CASE SaveBegin(t)
    BY <2>1, GotoKeepsNoClaim DEF SaveBegin, QuotaInv, memory, Labels, ClaimPath
  <2>2. CASE SaveEnd(t)
    BY <2>2, GotoKeepsNoClaim DEF SaveEnd, Return, QuotaInv, memory, Labels, ClaimPath
  <2> QED BY <2>1, <2>2
<1>2. SavedWithin'
  <2>1. CASE SaveBegin(t)
    <3>1. /\ snapshot' = [snapshot EXCEPT ![t] = Persisted]
          /\ UNCHANGED state_file
      BY <2>1 DEF SaveBegin
    <3>2. Within(Persisted.workspaces)
      BY DEF Persisted, QuotaInv
    <3> QED BY <3>1, <3>2 DEF QuotaInv, SavedWithin, Within, Entries
  <2>2. CASE SaveEnd(t)
    <3>1. /\ snapshot' = [snapshot EXCEPT ![t] = NothingPersisted]
          /\ state_file' \in {snapshot[t], state_file}
      BY <2>2 DEF SaveEnd
    <3>2. Within(NothingPersisted.workspaces)
      BY EmptyWithin DEF NothingPersisted
    <3> QED BY <3>1, <3>2 DEF QuotaInv, SavedWithin, Within, Entries
  <2> QED BY <2>1, <2>2
<1> QED BY <1>1, <1>2 DEF QuotaInv, IsTable, Within, Entries

\* The next daemon registers a part of what was saved.
LEMMA RestartKeepsInv ==
  ASSUME QuotaInv, Restart
  PROVE  QuotaInv'
<1>1. workspaces' = [i \in Ids |-> IF i \in Zombies THEN None ELSE Loaded[i]]
  BY DEF Restart
<1>2. Entries(workspaces') \subseteq Entries(state_file.workspaces)
  <2>1. \A i \in Ids : state_file.workspaces[i] = None => Loaded[i] = None
    BY DEF Loaded
  <2> QED BY <1>1, <2>1 DEF Entries
<1>3. Within(workspaces')
  BY <1>2, FewerWithin DEF QuotaInv, SavedWithin
<1>4. SavedWithin'
  <2>1. snapshot' = [t \in Tasks |-> NothingPersisted] /\ UNCHANGED state_file
    BY DEF Restart
  <2>2. Within(NothingPersisted.workspaces)
    BY EmptyWithin DEF NothingPersisted
  <2> QED BY <2>1, <2>2 DEF QuotaInv, SavedWithin, Within, Entries
<1>5. NoClaim'
  BY DEF Restart, NoClaim, Labels, ClaimPath
<1>6. IsTable(workspaces')
  BY <1>1 DEF IsTable
<1> QED BY <1>3, <1>4, <1>5, <1>6 DEF QuotaInv, IsTable, Within, Entries

-----------------------------------------------------------------------------
(* The quota *)

\* The first start.
LEMMA InitEstablishesInv ==
  ASSUME Init
  PROVE  QuotaInv
<1>1. Within(workspaces) /\ Within(NothingPersisted.workspaces)
  BY EmptyWithin DEF Init, NothingPersisted
<1>2. SavedWithin
  <2>1. snapshot = [t \in Tasks |-> NothingPersisted] /\ state_file = NothingPersisted
    BY DEF Init
  <2> QED BY <1>1, <2>1 DEF SavedWithin
<1>3. NoClaim /\ IsTable(workspaces)
  BY DEF Init, NoClaim, IsTable, Labels, ClaimPath
<1> QED BY <1>1, <1>2, <1>3 DEF QuotaInv

\* QuotaInv is inductive without the pool.
LEMMA NextKeepsInv ==
  ASSUME ~PoolEnabled, QuotaInv, [Next]_vars
  PROVE  QuotaInv'
<1>1. ASSUME NEW t \in Requests, Arrive(t) PROVE QuotaInv'
  BY <1>1, ArriveKeepsInv
<1>2. ASSUME NEW t \in Tasks, Step(t) PROVE QuotaInv'
  <2>1. ~(Claim(t) \/ WarmRelease(t) \/ WarmSetup(t) \/ Rekey(t) \/ WarmRegister(t))
    BY DEF Claim, WarmRelease, WarmSetup, Rekey, WarmRegister, At,
           QuotaInv, NoClaim, ClaimPath
  <2>2. CASE ElsewhereSteps(t)
    BY <2>2, ElsewhereStays, ElsewhereKeepsInv
  <2>3. CASE Register(t)
    BY <2>3, RegisterKeepsInv
  <2>4. CASE DestroyEntry(t) \/ MarkStopped(t) \/ MarkRunning(t)
    BY <2>4, EntryKeepsInv
  <2>5. CASE SaveBegin(t) \/ SaveEnd(t)
    BY <2>5, SaveKeepsInv
  <2> QED BY <1>2, <2>1, <2>2, <2>3, <2>4, <2>5 DEF Step, ElsewhereSteps
<1>3. ASSUME NEW i \in Ids, ReplenishPool(i) PROVE QuotaInv'
  BY <1>3 DEF ReplenishPool
<1>4. CASE SaveTimer
  BY <1>4, ElsewhereKeepsInv DEF SaveTimer, Call, memory, file, Labels, ClaimPath
<1>5. CASE Restart
  BY <1>5, RestartKeepsInv
<1>6. ASSUME UNCHANGED <<workspaces, snapshot, state_file, pc>> PROVE QuotaInv'
  BY <1>6 DEF QuotaInv, NoClaim, IsTable, SavedWithin, Within, Entries
<1>7. ASSUME NEW p \in Ids, VmDies(p) PROVE QuotaInv'
  BY <1>6, <1>7 DEF VmDies, memory, file
<1>8. CASE UNCHANGED vars
  BY <1>6, <1>8 DEF vars, memory, file
<1> QED BY <1>1, <1>2, <1>3, <1>4, <1>5, <1>7, <1>8 DEF Next

\* Without the warm pool no interleaving of creates, forks, failures and
\* restarts registers more than max_workspaces workspaces.
THEOREM QuotaTheorem ==
  ASSUME ~PoolEnabled
  PROVE  Spec => []QuotaHeld
<1>1. Init => QuotaInv
  BY InitEstablishesInv
<1>2. QuotaInv /\ [Next]_vars => QuotaInv'
  BY NextKeepsInv
<1>3. QuotaInv => QuotaHeld
  BY DEF QuotaInv, QuotaHeld, Within, Entries, Count, Registered
<1> QED BY <1>1, <1>2, <1>3, PTL DEF Spec
=============================================================================
