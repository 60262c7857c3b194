----------------------- MODULE WorkspaceOwners_proofs -----------------------
(***************************************************************************)
(* Who has each vsock CID, guest address, VM, disk and TAP device, for any *)
(* number of requests, workspaces and warm VMs: every issued CID has one   *)
(* owner, an address is leased exactly when it has one, a QEMU process is  *)
(* under one handle, and no disk or device is left with nobody.  A step    *)
(* either leaves the owners alone or hands one resource from one owner to  *)
(* the next.                                                               *)
(***************************************************************************)
EXTENDS WorkspaceSafety_proofs

-----------------------------------------------------------------------------
(* Tasks and the workspaces they work on *)

\* A workspace has at most one task at work on it.
OneJobEach ==
  \A t, u \in Tasks : job[t].id # None /\ job[t].id = job[u].id => t = u

\* What a request builds is not registered yet; what it destroys still is, as
\* it was when the request began.
JobsFit ==
  \A t \in Tasks :
    /\ job[t].op \in Builders /\ pc[t] \in Working => workspaces[job[t].id] = None
    /\ pc[t] \in Ending \cup {"endEntry"} =>
         /\ workspaces[job[t].id] # None
         /\ workspaces[job[t].id].cid = job[t].ws.cid
         /\ workspaces[job[t].id].ip = job[t].ws.ip

\* A step keeps what its task works on and for, or ends the task.
LEMMA OwnLocals ==
  ASSUME TypeInv, NEW t \in Tasks, Step(t)
  PROVE  \/ job'[t] = NoJob /\ pc'[t] = "idle"
         \/ /\ job'[t].op = job[t].op /\ job'[t].id = job[t].id
            /\ pc[t] \in Ending \cup {"endEntry"} => job'[t].ws = job[t].ws
<1>1. pc \in [Tasks -> Labels] /\ job \in [Tasks -> JobRecords] /\ job[t] \in JobRecords
  BY DEF TypeInv, JobsOK
<1>2. ASSUME Return(t) PROVE job'[t] = NoJob /\ pc'[t] = "idle"
  BY <1>1, <1>2 DEF Return, Goto
<1>3. CASE UNCHANGED job
  BY <1>3
<1>4. CASE Claim(t)
  <2>1. CASE ready = <<>>
    BY <1>3, <1>4, <2>1 DEF Claim
  <2>2. CASE ready # <<>>
    BY <1>1, <1>4, <2>2, ClaimTakes DEF TypeInv, Ending
  <2> QED BY <2>1, <2>2
<1>5. CASE WarmSetup(t) \/ Provision(t) \/ ForkSetup(t) \/ Clone(t)
  BY <1>1, <1>2, <1>5 DEF WarmSetup, Provision, ForkSetup, Clone, At, JobRecords, Drafts, Ending
<1>6. CASE PopCid(t) \/ CountCid(t)
  BY <1>1, <1>2, <1>3, <1>6 DEF PopCid, CountCid, CidKnown, At, JobRecords, Drafts, Ending
<1>7. CASE Launch(t)
  BY <1>1, <1>2, <1>3, <1>7 DEF Launch, At, JobRecords, Drafts, Ending
<1> QED
  BY <1>2, <1>3, <1>4, <1>5, <1>6, <1>7
  DEF Step, WarmRelease, Rekey, WarmRegister, Configure, Register, UndoCid, UndoVm, UndoHost,
      ForkChecks, DestroyVm, DestroyNetwork, DestroyStorage, DestroyCid, DestroyEntry, StopVm,
      MarkStopped, EnsureNetwork, MarkRunning, Mark, AddReady, SaveBegin, SaveEnd

\* Where each label leads as far as building and destroying goes.
LEMMA WhereItGoes ==
  ASSUME TypeInv, NEW t \in Tasks, Step(t)
  PROVE  /\ pc'[t] \in Ending \cup {"endEntry"} =>
              pc[t] \in Ending /\ ~DestroyEntry(t)
         /\ pc'[t] = "endEntry" <=> DestroyCid(t)
         /\ pc[t] = "endEntry" <=> DestroyEntry(t)
         /\ pc'[t] \in Working => pc[t] \in Working
         /\ WarmRegister(t) \/ Register(t) => pc[t] \in Working
         /\ pc[t] # "idle"
<1>1. pc \in [Tasks -> Labels] /\ job \in [Tasks -> JobRecords] /\ job[t] \in JobRecords
  BY DEF TypeInv, JobsOK
<1>2. ASSUME NEW label, Goto(t, label) PROVE pc'[t] = label
  BY <1>1, <1>2 DEF Goto
<1>3. ASSUME Return(t) PROVE pc'[t] = "idle"
  BY <1>2, <1>3 DEF Return
<1> USE DEF At, Ending, Working, Labels
<1>4. CASE \/ Claim(t) \/ WarmRelease(t) \/ WarmSetup(t) \/ Rekey(t) \/ WarmRegister(t)
           \/ Provision(t)
  BY <1>2, <1>3, <1>4
  DEF Claim, WarmRelease, WarmSetup, Rekey, WarmRegister, Provision, DestroyCid, DestroyEntry,
      Register
<1>5. CASE \/ PopCid(t) \/ CountCid(t) \/ Configure(t) \/ Register(t)
           \/ UndoCid(t) \/ UndoVm(t) \/ UndoHost(t) \/ AddReady(t)
  BY <1>2, <1>3, <1>5
  DEF PopCid, CountCid, CidKnown, Configure, Register, UndoCid, UndoVm, UndoHost, AddReady,
      DestroyCid, DestroyEntry
<1>6. CASE Launch(t)
  <2>1. AfterLaunch(job[t].op) \in {"configure", "register", "addReady", "markRunning"}
    BY DEF AfterLaunch
  <2> QED BY <1>2, <1>3, <1>6, <2>1 DEF Launch, DestroyCid, DestroyEntry, WarmRegister, Register
<1>7. CASE \/ ForkChecks(t) \/ Clone(t) \/ ForkSetup(t)
  BY <1>2, <1>3, <1>7
  DEF ForkChecks, Clone, ForkSetup, DestroyCid, DestroyEntry, WarmRegister, Register
<1>8. CASE DestroyVm(t) \/ DestroyNetwork(t) \/ DestroyStorage(t) \/ DestroyCid(t) \/ DestroyEntry(t)
  BY <1>2, <1>8
  DEF DestroyVm, DestroyNetwork, DestroyStorage, DestroyCid, DestroyEntry, WarmRegister, Register
<1>9. CASE StopVm(t) \/ MarkStopped(t) \/ EnsureNetwork(t) \/ MarkRunning(t)
           \/ SaveBegin(t) \/ SaveEnd(t)
  BY <1>2, <1>3, <1>9
  DEF StopVm, MarkStopped, EnsureNetwork, MarkRunning, Mark, SaveBegin, SaveEnd,
      DestroyCid, DestroyEntry, WarmRegister, Register
<1> QED BY <1>4, <1>5, <1>6, <1>7, <1>8, <1>9 DEF Step

\* A step leaves the entries of other workspaces alone.
LEMMA OtherEntriesStay ==
  ASSUME TypeInv, NEW t \in Tasks, Step(t), NEW i \in Ids, i # job[t].id
  PROVE  workspaces'[i] = workspaces[i]
BY RegistryStep DEF TypeInv, RegistryOK

\* A step that changes the entry it works on keeps its CID and its address, or
\* registers or removes it.
LEMMA OwnEntry ==
  ASSUME TypeInv, NEW t \in Tasks, Step(t), NEW i \in Ids, i = job[t].id,
         ~WarmRegister(t), ~Register(t), ~DestroyEntry(t)
  PROVE  /\ workspaces'[i] = None <=> workspaces[i] = None
         /\ workspaces[i] # None => /\ workspaces'[i].cid = workspaces[i].cid
                                    /\ workspaces'[i].ip = workspaces[i].ip
                                    /\ workspaces'[i].ds = workspaces[i].ds
<1>1. workspaces \in [Ids -> Workspace \cup {None}]
  BY DEF TypeInv, RegistryOK
<1>2. CASE UNCHANGED workspaces
  BY <1>2
<1>3. ASSUME workspaces[i] # None, NEW state \in States, NEW pid \in Ids \cup {None},
             workspaces' = [workspaces EXCEPT ![i].state = state, ![i].pid = pid]
      PROVE  /\ workspaces'[i] # None
             /\ workspaces'[i].cid = workspaces[i].cid
             /\ workspaces'[i].ip = workspaces[i].ip
             /\ workspaces'[i].ds = workspaces[i].ds
  <2> PICK ws \in Workspace : ws = workspaces[i]
    BY <1>1, <1>3
  <2> DEFINE ws2 == [ws EXCEPT !.state = state, !.pid = pid]
  <2>1. workspaces'[i] = ws2
    BY <1>1, <1>3
  <2>2. ws2 \in Workspace /\ ws2.cid = ws.cid /\ ws2.ip = ws.ip /\ ws2.ds = ws.ds
    BY <1>3 DEF Workspace
  <2> HIDE DEF ws2
  <2> QED BY <2>1, <2>2, WorkspaceAssumption
<1>4. CASE /\ workspaces[i] # None
           /\ \E state \in States, pid \in Ids \cup {None} :
                workspaces' = [workspaces EXCEPT ![i].state = state, ![i].pid = pid]
  <2> PICK state \in States, pid \in Ids \cup {None} :
        workspaces' = [workspaces EXCEPT ![i].state = state, ![i].pid = pid]
    BY <1>4
  <2> QED BY <1>3, <1>4
<1>5. \/ UNCHANGED workspaces
      \/ /\ workspaces[job[t].id] # None
         /\ \E state \in States, pid \in Ids \cup {None} :
              workspaces' = [workspaces EXCEPT ![job[t].id].state = state,
                                               ![job[t].id].pid = pid]
  BY RegistryStep
<1> QED BY <1>2, <1>4, <1>5

\* No step makes two tasks work on one workspace, registers what was there, or
\* changes what a destroy has a copy of.
LEMMA StepKeepsJobs ==
  ASSUME TypeInv, OneJobEach, JobsFit, NEW t \in Tasks, Step(t)
  PROVE  OneJobEach' /\ JobsFit'
<1>1. job \in [Tasks -> JobRecords] /\ job[t] \in JobRecords /\ Shaped(job[t], pc[t])
  BY DEF TypeInv, JobsOK
<1>2. \A u \in Tasks : u # t => pc'[u] = pc[u] /\ job'[u] = job[u]
  BY OthersStay
<1>3. \A u \in Tasks : job'[u].id # None => job'[u].id = job[u].id
  BY <1>2, OwnLocals DEF NoJob
<1>4. OneJobEach'
  BY <1>3 DEF OneJobEach
<1>5. ASSUME NEW u \in Tasks, job'[u].op \in Builders, pc'[u] \in Working
      PROVE  workspaces'[job'[u].id] = None
  <2>1. job'[u].op = job[u].op /\ job'[u].id = job[u].id /\ pc[u] \in Working
    BY <1>2, <1>5, OwnLocals, WhereItGoes DEF NoJob, Builders
  <2> DEFINE i == job[u].id
  <2>2. workspaces[i] = None
    BY <1>5, <2>1 DEF JobsFit
  <2>3. i \in Ids
    BY <2>1 DEF TypeInv, JobsOK, Shaped
  <2>4. CASE u # t
    <3>1. i # job[t].id
      BY <2>3, <2>4, IdsAssumption DEF OneJobEach
    <3> QED BY <2>1, <2>2, <2>3, <3>1, OtherEntriesStay
  <2>5. CASE u = t
    <3>1. CASE ~WarmRegister(t) /\ ~Register(t) /\ ~DestroyEntry(t)
      BY <2>1, <2>2, <2>3, <2>5, <3>1, OwnEntry
    <3>2. CASE DestroyEntry(t)
      BY <1>5, <2>5, <3>2, <1>1 DEF DestroyEntry, Goto, Working, TypeInv, JobsOK
    <3>3. CASE WarmRegister(t)
      BY <1>5, <2>5, <3>3, <1>1 DEF WarmRegister, Goto, Working, TypeInv, JobsOK
    <3>4. CASE Register(t)
      BY <1>5, <2>1, <2>2, <2>5, <3>4, <1>1 DEF Register, Goto, Working, TypeInv, JobsOK
    <3> QED BY <3>1, <3>2, <3>3, <3>4
  <2> QED BY <2>4, <2>5
<1>6. ASSUME NEW u \in Tasks, pc'[u] \in Ending \cup {"endEntry"}
      PROVE  /\ workspaces'[job'[u].id] # None
             /\ workspaces'[job'[u].id].cid = job'[u].ws.cid
             /\ workspaces'[job'[u].id].ip = job'[u].ws.ip
  <2>1. /\ pc[u] \in Ending \cup {"endEntry"}
        /\ job'[u].id = job[u].id /\ job'[u].ws = job[u].ws
    BY <1>2, <1>6, OwnLocals, WhereItGoes DEF Ending
  <2> DEFINE i == job[u].id
  <2>2. /\ workspaces[i] # None
        /\ workspaces[i].cid = job[u].ws.cid /\ workspaces[i].ip = job[u].ws.ip
    BY <2>1 DEF JobsFit
  <2>3. i \in Ids
    BY <2>1 DEF TypeInv, JobsOK, Shaped, Working, Ending, Labels
  <2>4. CASE u # t
    <3>1. i # job[t].id
      BY <2>3, <2>4, IdsAssumption DEF OneJobEach
    <3> QED BY <2>1, <2>2, <2>3, <3>1, OtherEntriesStay
  <2>5. CASE u = t
    <3>1. ~WarmRegister(t) /\ ~Register(t) /\ ~DestroyEntry(t)
      BY <1>6, <2>1, <2>5, WhereItGoes DEF WarmRegister, Register, At, Ending
    <3> QED BY <2>1, <2>2, <2>3, <2>5, <3>1, OwnEntry
  <2> QED BY <2>4, <2>5
<1> QED BY <1>4, <1>5, <1>6 DEF JobsFit

\* Under the condition, a request begins on a workspace nobody works on.
LEMMA CallKeepsJobs ==
  ASSUME OneCallAtATime, TypeInv, OneJobEach, JobsFit,
         \/ \E t \in Requests : Arrive(t)
         \/ SaveTimer
         \/ \E i \in Ids : ReplenishPool(i)
  PROVE  OneJobEach' /\ JobsFit'
<1>1. pc \in [Tasks -> Labels] /\ job \in [Tasks -> JobRecords]
  BY DEF TypeInv, JobsOK
<1>2. ASSUME NEW t \in Tasks, NEW label, NEW op, NEW i \in Ids \cup {None}, NEW src, NEW ws,
             Call(t, label, op, i, src, ws), UNCHANGED memory, i \in Ids => ~Busy(i),
             op \in Builders => i \in Ids /\ workspaces[i] = None,
             label \in Ending \cup {"endEntry"} =>
                i \in Ids /\ workspaces[i] # None /\ workspaces[i] = ws
      PROVE  OneJobEach' /\ JobsFit'
  <2>1. /\ pc'[t] = label /\ job'[t] = [op |-> op, id |-> i, src |-> src, ws |-> ws]
        /\ \A u \in Tasks : u # t => pc'[u] = pc[u] /\ job'[u] = job[u]
    BY <1>1, <1>2 DEF Call, Goto
  <2>2. \A u \in Tasks : i \in Ids => job[u].id # i
    BY <1>2 DEF Busy
  <2>3. OneJobEach'
    BY <1>2, <2>1, <2>2 DEF OneJobEach
  <2>4. UNCHANGED workspaces
    BY <1>2 DEF memory
  <2> QED BY <1>2, <2>1, <2>3, <2>4 DEF JobsFit
<1>3. ASSUME NEW i \in Ids, Fresh(i) PROVE workspaces[i] = None /\ ~Busy(i)
  BY <1>3 DEF Fresh, Registered, Busy
<1>4. ASSUME NEW i \in Ids, Callable(i) PROVE workspaces[i] # None /\ ~Busy(i)
  BY <1>4 DEF Callable, Registered
<1>5. ASSUME NEW t \in Requests, Arrive(t) PROVE OneJobEach' /\ JobsFit'
  <2>1. t \in Tasks
    BY DEF Tasks
  <2>2. ASSUME NEW i \in Ids, NEW n \in Names \cup {i}, NEW default \in BOOLEAN,
               Create(t, i, n, default)
        PROVE  OneJobEach' /\ JobsFit'
    BY <1>2, <1>3, <2>1, <2>2 DEF Create, Ending
  <2>3. ASSUME NEW i \in Ids, NEW n \in Names \cup {i}, NEW source \in Ids, Fork(t, source, i, n)
        PROVE  OneJobEach' /\ JobsFit'
    BY <1>2, <1>3, <2>1, <2>3 DEF Fork, Ending
  <2>4. ASSUME NEW i \in Ids, Destroy(t, i) \/ Stop(t, i) \/ Start(t, i)
        PROVE  OneJobEach' /\ JobsFit'
    <3>1. CASE Destroy(t, i)
      BY <1>2, <1>4, <2>1, <3>1 DEF Destroy, Builders
    <3>2. CASE Stop(t, i) \/ Start(t, i)
      BY <1>2, <1>4, <2>1, <3>2 DEF Stop, Start, Builders, Ending
    <3> QED BY <2>4, <3>1, <3>2
  <2> QED BY <1>5, <2>2, <2>3, <2>4 DEF Arrive
<1>6. CASE SaveTimer
  BY <1>2, <1>6, IdsAssumption DEF SaveTimer, Tasks, Builders, Ending
<1>7. ASSUME NEW i \in Ids, ReplenishPool(i) PROVE OneJobEach' /\ JobsFit'
  BY <1>2, <1>3, <1>7 DEF ReplenishPool, Tasks, Ending
<1> QED BY <1>5, <1>6, <1>7

-----------------------------------------------------------------------------
(* The owners of a CID *)

HoldsNow(t) == Builds(t, HoldsCid)

\* Who has the CID c, by kind.
WsOf(c) == {i \in KeepsCid : workspaces[i].cid = c}
WarmOf(c) == {k \in Warm : ready[k].cid = c}
FreeOf(c) == {k \in DOMAIN free_vsock_cids : free_vsock_cids[k] = c}
TaskOf(c) == {u \in Tasks : HoldsNow(u) /\ job[u].ws.cid = c}
Tagged(W, R, F, T) ==
  {<<"workspace", i>> : i \in W} \cup {<<"warm", k>> : k \in R}
  \cup {<<"free", k>> : k \in F} \cup {<<"task", t>> : t \in T}

\* The owners of a CID, by kind.
LEMMA OwnersTagged ==
  \A c : CidOwners(c) = Tagged(WsOf(c), WarmOf(c), FreeOf(c), TaskOf(c))
BY DEF CidOwners, Tagged, WsOf, WarmOf, FreeOf, TaskOf, HoldsNow

\* A set of owners of which there is at most one keeps that when one hands over
\* to another.
One(S) == \A o, p \in S : o = p

\* Steps that take a CID from the pool, the free list or the counter, and steps
\* that give the task's to the registry, the free list or the pool.
Takes(t) ==
  \/ Claim(t) /\ ready # <<>>
  \/ PopCid(t) /\ free_vsock_cids # <<>>
  \/ CountCid(t) /\ next_vsock_cid < CidLimit
Returns(t) == WarmSetup(t) /\ Return(t)
Gives(t) ==
  \/ WarmRegister(t)
  \/ Register(t) /\ Count < MaxWorkspaces
  \/ UndoCid(t)
  \/ AddReady(t)
  \/ Returns(t)

\* All other steps but the one of destroy leave the CIDs where they are.
LEMMA QuietStep ==
  ASSUME TypeInv, "configure" \notin Faults, NEW t \in Tasks, Step(t),
         ~Takes(t), ~Gives(t), ~DestroyCid(t)
  PROVE  /\ UNCHANGED <<ready, cids>>
         /\ ~WarmRegister(t) /\ (Register(t) => UNCHANGED workspaces)
         /\ HoldsNow(t)' <=> HoldsNow(t)
         /\ HoldsNow(t) => job'[t].ws.cid = job[t].ws.cid
<1>1. /\ pc \in [Tasks -> Labels] /\ job \in [Tasks -> JobRecords] /\ job[t] \in JobRecords
      /\ Shaped(job[t], pc[t])
  BY DEF TypeInv, JobsOK
<1>2. ASSUME NEW label, Goto(t, label) PROVE pc'[t] = label
  BY <1>1, <1>2 DEF Goto
<1>3. ASSUME Return(t) PROVE pc'[t] = "idle"
  BY <1>2, <1>3 DEF Return
<1>4. HoldsNow(t)' <=> job'[t].op \in Builders /\ pc'[t] \in HoldsCid
  BY DEF HoldsNow, Builds
<1>5. HoldsNow(t) <=> job[t].op \in Builders /\ pc[t] \in HoldsCid
  BY DEF HoldsNow, Builds
<1>6. HoldsNow(t)' => job'[t].op = job[t].op
  BY <1>4, OwnLocals DEF NoJob, HoldsCid, WarmPath, ColdPath
<1>7. HoldsNow(t)' => job'[t].ws.cid = job[t].ws.cid
  <2>1. HoldsNow(t)' => pc'[t] \in WithCid
    BY <1>4 DEF WithCid
  <2>2. CountCid(t) /\ next_vsock_cid < CidLimit => Takes(t)
    BY DEF Takes
  <2> QED BY <2>1, <2>2, WhereCidsComeFrom DEF Takes
<1> HIDE DEF HoldsNow
<1> USE DEF At, HoldsCid, WarmPath, ColdPath, Builders
<1> SUFFICES /\ UNCHANGED <<ready, cids>>
             /\ ~WarmRegister(t) /\ (Register(t) => UNCHANGED workspaces)
             /\ HoldsNow(t)' <=> HoldsNow(t)
  BY <1>7
<1>8. CASE Claim(t) \/ WarmRelease(t) \/ Rekey(t) \/ WarmRegister(t)
  <2>1. UNCHANGED <<ready, cids>> /\ UNCHANGED job /\ ~WarmRegister(t) /\ ~Register(t)
    BY <1>8 DEF Claim, WarmRelease, Rekey, WarmRegister, Register, Takes, Gives, memory
  <2> QED BY <1>2, <1>4, <1>5, <1>8, <2>1 DEF Claim, WarmRelease, Rekey, Takes
<1>9. CASE WarmSetup(t)
  <2>1. UNCHANGED <<ready, cids>> /\ Goto(t, "rekey") /\ ~WarmRegister(t) /\ ~Register(t)
    BY <1>9 DEF WarmSetup, WarmRegister, Register, Gives, Returns
  <2>2. job'[t].op = job[t].op
    BY <1>2, <2>1, OwnLocals
  <2> QED BY <1>2, <1>4, <1>5, <1>9, <2>1, <2>2 DEF WarmSetup
<1>10. CASE Provision(t) \/ ForkSetup(t) \/ Clone(t) \/ ForkChecks(t)
  BY <1>2, <1>3, <1>4, <1>5, <1>10
  DEF Provision, ForkSetup, Clone, ForkChecks, WarmRegister, Register, memory
<1>11. CASE PopCid(t) \/ CountCid(t)
  <2>1. UNCHANGED <<ready, cids>> /\ pc'[t] \in {"counter", "undoHost", "idle"}
    BY <1>2, <1>3, <1>11 DEF PopCid, CountCid, Takes, memory, cids
  <2> QED BY <1>4, <1>5, <1>11, <2>1 DEF PopCid, CountCid, WarmRegister, Register
<1>12. CASE Launch(t)
  <2>1. UNCHANGED <<ready, cids>> /\ ~WarmRegister(t) /\ ~Register(t)
    BY <1>12 DEF Launch, WarmRegister, Register
  <2>2. pc'[t] = AfterLaunch(job[t].op) \/ (pc'[t] = "undoCid" /\ job[t].op # "start")
        \/ (Return(t) /\ job[t].op = "start")
    BY <1>2, <1>12 DEF Launch
  <2>3. job[t].op \in Builders => AfterLaunch(job[t].op) \in {"configure", "register", "addReady"}
    BY DEF AfterLaunch
  <2>4. job[t].op \notin Builders => job[t].op = "start"
    BY <1>1, <1>12 DEF Launch, Shaped
  <2>5. CASE job[t].op = "start"
    BY <1>4, <1>5, <1>6, <2>1, <2>5
  <2>6. CASE job[t].op \in Builders
    <3>1. pc'[t] \in {"configure", "register", "addReady", "undoCid"}
      BY <2>2, <2>3, <2>6
    <3>2. job'[t].op = job[t].op
      BY <3>1, OwnLocals
    <3> QED BY <1>4, <1>5, <1>12, <2>1, <2>6, <3>1, <3>2 DEF Launch
  <2> QED BY <2>4, <2>5, <2>6
<1>13. CASE Configure(t) \/ Register(t)
  <2>1. /\ UNCHANGED <<ready, cids>> /\ UNCHANGED job /\ ~WarmRegister(t)
        /\ Register(t) => UNCHANGED workspaces
        /\ pc'[t] \in {"register", "undoCid"}
    BY <1>2, <1>13 DEF Configure, Register, WarmRegister, Gives, memory, Fails
  <2> QED BY <1>4, <1>5, <1>13, <2>1 DEF Configure, Register
<1>14. CASE UndoVm(t) \/ UndoHost(t)
  BY <1>2, <1>3, <1>4, <1>5, <1>14 DEF UndoVm, UndoHost, WarmRegister, Register, memory
<1>15. CASE DestroyVm(t) \/ DestroyNetwork(t) \/ DestroyStorage(t) \/ DestroyEntry(t)
  BY <1>2, <1>4, <1>5, <1>15
  DEF DestroyVm, DestroyNetwork, DestroyStorage, DestroyEntry, WarmRegister, Register, memory
<1>16. CASE StopVm(t) \/ MarkStopped(t) \/ EnsureNetwork(t) \/ MarkRunning(t)
  <2>1. UNCHANGED <<ready, cids>> /\ ~WarmRegister(t) /\ ~Register(t)
    BY <1>16 DEF StopVm, MarkStopped, EnsureNetwork, MarkRunning, Mark, WarmRegister, Register, memory
  <2>2. job[t].op \in {"stop", "start"}
    BY <1>1, <1>16 DEF Shaped, StopVm, MarkStopped, EnsureNetwork, MarkRunning
  <2> QED BY <1>4, <1>5, <1>6, <2>1, <2>2
<1>17. CASE SaveBegin(t) \/ SaveEnd(t)
  BY <1>2, <1>3, <1>4, <1>5, <1>17 DEF SaveBegin, SaveEnd, WarmRegister, Register, memory
<1> QED
  BY <1>8, <1>9, <1>10, <1>11, <1>12, <1>13, <1>14, <1>15, <1>16, <1>17 DEF Step, Gives

\* The tasks that hold a CID after a step of t.
LEMMA TaskOfStep ==
  ASSUME TypeInv, NEW t \in Tasks, Step(t), NEW c
  PROVE  /\ ~HoldsNow(t)' => TaskOf(c)' = TaskOf(c) \ {t}
         /\ HoldsNow(t)' /\ job'[t].ws.cid = c => TaskOf(c)' = TaskOf(c) \cup {t}
         /\ HoldsNow(t)' /\ job'[t].ws.cid # c => TaskOf(c)' = TaskOf(c) \ {t}
         /\ ~HoldsNow(t) /\ job'[t].ws.cid # c => TaskOf(c)' = TaskOf(c)
         /\ ~HoldsNow(t)' /\ job[t].ws.cid # c => TaskOf(c)' = TaskOf(c)
<1>1. \A u \in Tasks : u # t => (HoldsNow(u)' <=> HoldsNow(u)) /\ job'[u] = job[u]
  BY OthersStay DEF HoldsNow, Builds
<1>2. TaskOf(c)' = {u \in Tasks : HoldsNow(u)' /\ job'[u].ws.cid = c}
  BY DEF TaskOf
<1>3. TaskOf(c) = {u \in Tasks : HoldsNow(u) /\ job[u].ws.cid = c}
  BY DEF TaskOf
<1> HIDE DEF HoldsNow
<1> QED BY <1>1, <1>2, <1>3

\* Which workspaces are torn down to what point, after a step of t.
LEMMA TornStep ==
  ASSUME TypeInv, OneJobEach, NEW t \in Tasks, Step(t), NEW i \in Ids,
         NEW labels \in SUBSET (Ending \cup {"endEntry"})
  PROVE  /\ i # job[t].id => (TornDown(i, labels)' <=> TornDown(i, labels))
         /\ i = job[t].id => (TornDown(i, labels) <=> pc[t] \in labels)
         /\ i = job[t].id => (TornDown(i, labels)' <=> pc'[t] \in labels)
<1>1. \A u \in Tasks : u # t => pc'[u] = pc[u] /\ job'[u] = job[u]
  BY OthersStay
<1>2. \A u \in Tasks : pc[u] \in labels => job[u].op = "destroy"
  BY DEF TypeInv, JobsOK, Shaped
<1>3. pc'[t] \in labels => job'[t].op = "destroy" /\ job'[t].id = job[t].id
  <2>1. pc'[t] \in labels => pc[t] \in Ending /\ job'[t].op = job[t].op
    BY OwnLocals, WhereItGoes DEF Ending
  <2>2. pc[t] \in Ending => job[t].op = "destroy"
    BY DEF TypeInv, JobsOK, Shaped
  <2> QED BY <2>1, <2>2, OwnLocals DEF Ending
<1>4. TornDown(i, labels) <=> \E u \in Tasks : job[u].id = i /\ pc[u] \in labels
  BY <1>2 DEF TornDown
<1>5. TornDown(i, labels)' <=> \E u \in Tasks : job'[u].id = i /\ pc'[u] \in labels
  BY <1>1, <1>2, <1>3 DEF TornDown
<1>6. CASE i # job[t].id
  BY <1>1, <1>3, <1>4, <1>5, <1>6
<1>7. CASE i = job[t].id
  <2>1. \A u \in Tasks : job[u].id = i => u = t
    BY <1>7, IdsAssumption DEF OneJobEach
  <2> QED BY <1>1, <1>3, <1>4, <1>5, <1>7, <2>1
<1> QED BY <1>6, <1>7

\* The workspaces that keep their CID after a step of t.
LEMMA KeepsStep ==
  ASSUME TypeInv, OneJobEach, JobsFit, NEW t \in Tasks, Step(t), NEW i \in Ids
  PROVE  /\ i # job[t].id => (i \in KeepsCid' <=> i \in KeepsCid) /\ workspaces'[i] = workspaces[i]
         /\ i = job[t].id => (i \in KeepsCid <=> workspaces[i] # None /\ pc[t] # "endEntry")
         /\ i = job[t].id => (i \in KeepsCid' <=> workspaces'[i] # None /\ pc'[t] # "endEntry")
<1> DEFINE labels == {"endEntry"}
<1>1. labels \in SUBSET (Ending \cup {"endEntry"})
  OBVIOUS
<1>2. /\ i \in KeepsCid <=> workspaces[i] # None /\ ~TornDown(i, labels)
      /\ i \in KeepsCid' <=> workspaces'[i] # None /\ ~TornDown(i, labels)'
  BY DEF KeepsCid, Registered
<1>3. i # job[t].id => workspaces'[i] = workspaces[i]
  BY OtherEntriesStay
<1>4. /\ i # job[t].id => (TornDown(i, labels)' <=> TornDown(i, labels))
      /\ i = job[t].id => (TornDown(i, labels) <=> pc[t] \in labels)
      /\ i = job[t].id => (TornDown(i, labels)' <=> pc'[t] \in labels)
  BY <1>1, TornStep
<1> QED BY <1>2, <1>3, <1>4

\* A step that neither registers a workspace nor gives back its CID leaves the
\* workspaces what they have.
LEMMA WsOfStays ==
  ASSUME TypeInv, OneJobEach, JobsFit, NEW t \in Tasks, Step(t), NEW c,
         ~WarmRegister(t), Register(t) => UNCHANGED workspaces, ~DestroyCid(t)
  PROVE  WsOf(c)' = WsOf(c)
<1>1. ASSUME NEW i \in Ids
      PROVE  /\ i \in KeepsCid' <=> i \in KeepsCid
             /\ i \in KeepsCid => workspaces'[i].cid = workspaces[i].cid
  <2>1. CASE i # job[t].id
    BY <2>1, KeepsStep
  <2>2. CASE i = job[t].id /\ ~DestroyEntry(t)
    <3>1. pc'[t] # "endEntry" /\ pc[t] # "endEntry"
      BY <2>2, WhereItGoes
    <3>2. /\ workspaces'[i] = None <=> workspaces[i] = None
          /\ workspaces[i] # None => workspaces'[i].cid = workspaces[i].cid
      BY <2>2, OwnEntry
    <3> QED BY <2>2, <3>1, <3>2, KeepsStep
  <2>3. CASE i = job[t].id /\ DestroyEntry(t)
    <3>1. pc[t] = "endEntry"
      BY <2>3 DEF DestroyEntry, At
    <3>2. workspaces'[i] = None
      BY <2>3 DEF DestroyEntry, TypeInv, RegistryOK
    <3> QED BY <2>3, <3>1, <3>2, KeepsStep
  <2> QED BY <2>1, <2>2, <2>3
<1>2. KeepsCid \subseteq Ids /\ KeepsCid' \subseteq Ids
  BY DEF KeepsCid, Registered
<1>3. WsOf(c)' = {i \in KeepsCid' : workspaces'[i].cid = c}
  BY DEF WsOf
<1> QED BY <1>1, <1>2, <1>3 DEF WsOf

\* What a step registers was not there before and is well-formed.
LEMMA NewEntry ==
  ASSUME TypeInv, JobsFit, NEW t \in Tasks,
         WarmRegister(t) \/ (Register(t) /\ Count < MaxWorkspaces)
  PROVE  /\ workspaces[job[t].id] = None
         /\ workspaces'[job[t].id] = job[t].ws /\ job[t].ws # None /\ job[t].id \in Ids
         /\ pc[t] \in {"warmRegister", "register"} /\ pc'[t] = "save"
<1> DEFINE i == job[t].id
<1>1. /\ workspaces' = [workspaces EXCEPT ![i] = job[t].ws]
      /\ pc[t] \in Working \cap {"warmRegister", "register"} /\ pc'[t] = "save"
  BY DEF WarmRegister, Register, At, Goto, Working, Labels, TypeInv, JobsOK
<1>2. i \in Ids /\ job[t].op \in Builders
  BY <1>1 DEF TypeInv, JobsOK, Shaped, Builders, WarmPath
<1>3. workspaces[i] = None
  BY <1>1, <1>2 DEF JobsFit
<1>4. job[t].ws \in Drafts /\ job[t].ws.cid \in Cids /\ job[t].ws.ip \in IPs /\ job[t].ws.ds \in Ids
      /\ job[t].ws.name \in Names \cup Ids
  BY <1>1 DEF TypeInv, JobsOK, Shaped, JobRecords, WithCid, WithIp, WithDisk, WarmPath, ColdPath, HoldsCid
<1>5. job[t].ws \in Workspace
  BY <1>4 DEF Drafts, Workspace
<1> QED BY <1>1, <1>2, <1>3, <1>5, WorkspaceAssumption DEF TypeInv, RegistryOK

\* A step that registers the workspace of its task.
LEMMA WsOfGains ==
  ASSUME TypeInv, OneJobEach, JobsFit, NEW t \in Tasks, Step(t), NEW c,
         WarmRegister(t) \/ (Register(t) /\ Count < MaxWorkspaces)
  PROVE  WsOf(c)' = IF c = job[t].ws.cid THEN WsOf(c) \cup {job[t].id} ELSE WsOf(c)
<1> DEFINE i == job[t].id
<1>1. workspaces[i] = None /\ workspaces'[i] = job[t].ws /\ job[t].ws # None /\ i \in Ids
      /\ pc[t] \in {"warmRegister", "register"} /\ pc'[t] = "save"
  BY NewEntry
<1>2. i \notin KeepsCid /\ i \in KeepsCid'
  BY <1>1, KeepsStep
<1>3. \A j \in Ids : j # i => (j \in KeepsCid' <=> j \in KeepsCid) /\ workspaces'[j] = workspaces[j]
  BY KeepsStep
<1>4. KeepsCid \subseteq Ids /\ KeepsCid' \subseteq Ids
  BY DEF KeepsCid, Registered
<1>5. WsOf(c)' = {j \in KeepsCid' : workspaces'[j].cid = c}
  BY DEF WsOf
<1> QED BY <1>1, <1>2, <1>3, <1>4, <1>5 DEF WsOf

\* The step of destroy that takes the CID from the workspace.
LEMMA WsOfLoses ==
  ASSUME TypeInv, OneJobEach, JobsFit, NEW t \in Tasks, DestroyCid(t), NEW c
  PROVE  /\ WsOf(c)' = IF c = job[t].ws.cid THEN WsOf(c) \ {job[t].id} ELSE WsOf(c)
         /\ job[t].id \in WsOf(job[t].ws.cid)
<1> DEFINE i == job[t].id
<1>1. Step(t) /\ pc[t] = "endCid" /\ pc'[t] = "endEntry" /\ UNCHANGED workspaces
  BY DEF Step, DestroyCid, At, Goto, TypeInv, JobsOK, memory
<1>2. i \in Ids
  BY <1>1 DEF TypeInv, JobsOK, Shaped, Working, Labels
<1>3. workspaces[i] # None /\ workspaces[i].cid = job[t].ws.cid
  BY <1>1 DEF JobsFit, Ending
<1>4. i \in KeepsCid /\ i \notin KeepsCid'
  BY <1>1, <1>2, <1>3, KeepsStep
<1>5. \A j \in Ids : j # i => (j \in KeepsCid' <=> j \in KeepsCid)
  BY <1>1, KeepsStep
<1>6. KeepsCid \subseteq Ids /\ KeepsCid' \subseteq Ids
  BY DEF KeepsCid, Registered
<1>7. WsOf(c)' = {j \in KeepsCid' : workspaces'[j].cid = c}
  BY DEF WsOf
<1> QED BY <1>1, <1>2, <1>3, <1>4, <1>5, <1>6, <1>7 DEF WsOf

\* Every CID has at most one owner, and each that was issued has one.
OwnedOnce ==
  /\ \A c \in Cids : One(CidOwners(c))
  /\ \A c \in CidStart..(next_vsock_cid - 1) : CidOwners(c) # {}

\* A step by which o hands the CID c on to p.
HandsOver(c, o, p) ==
  /\ o \in CidOwners(c)
  /\ \A d \in Cids : CidOwners(d)' = IF d = c THEN (CidOwners(d) \ {o}) \cup {p}
                                      ELSE CidOwners(d)

\* Handing a CID over keeps that it has one owner.
LEMMA HandOverKeeps ==
  ASSUME OwnedOnce, NEW c \in Cids, NEW o, NEW p, HandsOver(c, o, p), UNCHANGED next_vsock_cid,
         TypeInv
  PROVE  OwnedOnce'
<1>1. \A d \in Cids : One(CidOwners(d)')
  BY DEF OwnedOnce, HandsOver, One
<1>2. \A d \in CidStart..(next_vsock_cid - 1) : CidOwners(d)' # {}
  <2>1. \A d \in CidStart..(next_vsock_cid - 1) : d \in Cids
    BY ConstantsAssumption DEF Cids, TypeInv, CidsOK
  <2> QED BY <2>1 DEF OwnedOnce, HandsOver
<1> QED BY <1>1, <1>2 DEF OwnedOnce, One

\* So does a step that touches none.
LEMMA SameOwnersKeep ==
  ASSUME OwnedOnce, \A c \in Cids : CidOwners(c)' = CidOwners(c), UNCHANGED next_vsock_cid, TypeInv
  PROVE  OwnedOnce'
<1>1. \A d \in CidStart..(next_vsock_cid - 1) : d \in Cids
  BY ConstantsAssumption DEF Cids, TypeInv, CidsOK
<1> QED BY <1>1 DEF OwnedOnce, One

\* The owners before and after, by kind.
LEMMA OwnersAfter ==
  ASSUME NEW c
  PROVE  /\ CidOwners(c) = Tagged(WsOf(c), WarmOf(c), FreeOf(c), TaskOf(c))
         /\ CidOwners(c)' = Tagged(WsOf(c)', WarmOf(c)', FreeOf(c)', TaskOf(c)')
BY DEF CidOwners, Tagged, WsOf, WarmOf, FreeOf, TaskOf, HoldsNow

\* The lists after a step.
LEMMA SameLists ==
  ASSUME NEW c
  PROVE  /\ UNCHANGED ready => WarmOf(c)' = WarmOf(c)
         /\ UNCHANGED free_vsock_cids => FreeOf(c)' = FreeOf(c)
BY DEF WarmOf, FreeOf, Warm

\* A recycled CID goes on top of the stack.
LEMMA FreePushed ==
  ASSUME TypeInv, NEW c, NEW d \in Cids, free_vsock_cids' = Append(free_vsock_cids, d)
  PROVE  FreeOf(c)' = IF c = d THEN FreeOf(c) \cup {Len(free_vsock_cids) + 1} ELSE FreeOf(c)
<1> DEFINE n == Len(free_vsock_cids)
<1>1. free_vsock_cids \in Seq(Cids) /\ n \in Nat /\ DOMAIN free_vsock_cids = 1..n
  BY DEF TypeInv, CidsOK
<1>2. /\ free_vsock_cids' \in Seq(Cids) /\ Len(free_vsock_cids') = n + 1
      /\ \A k \in 1..n : free_vsock_cids'[k] = free_vsock_cids[k]
      /\ free_vsock_cids'[n + 1] = d
  BY <1>1, AppendProperties
<1>3. DOMAIN free_vsock_cids' = 1..(n + 1)
  BY <1>2
<1>4. FreeOf(c)' = {k \in 1..(n + 1) : free_vsock_cids'[k] = c}
  BY <1>3 DEF FreeOf
<1>5. FreeOf(c) = {k \in 1..n : free_vsock_cids[k] = c}
  BY <1>1 DEF FreeOf
<1> QED BY <1>1, <1>2, <1>4, <1>5

\* The one on top is taken.
LEMMA FreePopped ==
  ASSUME TypeInv, NEW c, free_vsock_cids # <<>>,
         free_vsock_cids' = SubSeq(free_vsock_cids, 1, Len(free_vsock_cids) - 1)
  PROVE  LET n == Len(free_vsock_cids) IN
         /\ FreeOf(c)' = FreeOf(c) \ {n}
         /\ free_vsock_cids[n] \in Cids /\ n \in FreeOf(free_vsock_cids[n])
<1> DEFINE n == Len(free_vsock_cids)
<1>1. free_vsock_cids \in Seq(Cids) /\ n \in Nat \ {0} /\ DOMAIN free_vsock_cids = 1..n
  BY DEF TypeInv, CidsOK
<1>2. \A k \in 1..n : free_vsock_cids[k] \in Cids
  BY <1>1
<1>3. /\ n - 1 \in Int /\ \A k \in 1..(n - 1) : free_vsock_cids[k] \in Cids
  BY <1>1, <1>2
<1>4. /\ free_vsock_cids' \in Seq(Cids)
      /\ Len(free_vsock_cids') = IF 1 <= n - 1 THEN n - 1 ELSE 0
      /\ \A k \in 1..(n - 1) : free_vsock_cids'[k] = free_vsock_cids[k]
  BY <1>3, SubSeqProperties
<1>5. DOMAIN free_vsock_cids' = 1..(n - 1)
  BY <1>1, <1>4
<1>6. FreeOf(c)' = {k \in 1..(n - 1) : free_vsock_cids'[k] = c}
  BY <1>5 DEF FreeOf
<1>7. FreeOf(c) = {k \in 1..n : free_vsock_cids[k] = c}
  BY <1>1 DEF FreeOf
<1>8. FreeOf(c)' = FreeOf(c) \ {n}
  BY <1>1, <1>4, <1>6, <1>7
<1>9. n \in FreeOf(free_vsock_cids[n])
  BY <1>1 DEF FreeOf
<1> QED BY <1>1, <1>2, <1>8, <1>9

\* A VM joins the pool at its end.
LEMMA WarmAdded ==
  ASSUME TypeInv, NEW c, NEW warm \in WarmVm, ready' = Append(ready, warm)
  PROVE  WarmOf(c)' = IF c = warm.cid THEN WarmOf(c) \cup {Len(ready) + 1} ELSE WarmOf(c)
<1> DEFINE n == Len(ready)
<1>1. ready \in Seq(WarmVm) /\ n \in Nat /\ DOMAIN ready = 1..n
  BY DEF TypeInv, PoolOK
<1>2. /\ ready' \in Seq(WarmVm) /\ Len(ready') = n + 1
      /\ \A k \in 1..n : ready'[k] = ready[k]
      /\ ready'[n + 1] = warm
  BY <1>1, AppendProperties
<1>3. DOMAIN ready' = 1..(n + 1)
  BY <1>2
<1>4. WarmOf(c)' = {k \in 1..(n + 1) : ready'[k].cid = c}
  BY <1>3 DEF WarmOf, Warm
<1>5. WarmOf(c) = {k \in 1..n : ready[k].cid = c}
  BY <1>1 DEF WarmOf, Warm
<1> QED BY <1>1, <1>2, <1>4, <1>5

\* The steps that leave the CIDs where they are.
LEMMA QuietKeepsOwners ==
  ASSUME TypeInv, OneJobEach, JobsFit, OwnedOnce, "configure" \notin Faults,
         NEW t \in Tasks, Step(t), ~Takes(t), ~Gives(t), ~DestroyCid(t)
  PROVE  OwnedOnce'
<1>1. /\ UNCHANGED <<ready, cids>>
      /\ ~WarmRegister(t) /\ (Register(t) => UNCHANGED workspaces)
      /\ HoldsNow(t)' <=> HoldsNow(t)
      /\ HoldsNow(t) => job'[t].ws.cid = job[t].ws.cid
  BY QuietStep
<1>2. ASSUME NEW c \in Cids PROVE CidOwners(c)' = CidOwners(c)
  <2>1. WsOf(c)' = WsOf(c)
    BY <1>1, WsOfStays
  <2>2. WarmOf(c)' = WarmOf(c) /\ FreeOf(c)' = FreeOf(c)
    BY <1>1, SameLists DEF cids
  <2>3. TaskOf(c)' = TaskOf(c)
    <3>1. t \in TaskOf(c) <=> HoldsNow(t) /\ job[t].ws.cid = c
      BY DEF TaskOf
    <3> HIDE DEF HoldsNow
    <3> QED BY <1>1, <3>1, TaskOfStep
  <2> QED BY <2>1, <2>2, <2>3, OwnersAfter
<1> QED BY <1>1, <1>2, SameOwnersKeep DEF cids

\* The CID of a task in CountedInv's bound and of type.
LEMMA HeldCid ==
  ASSUME TypeInv, NEW t \in Tasks, HoldsNow(t)
  PROVE  job[t].ws.cid \in Cids /\ t \in TaskOf(job[t].ws.cid)
BY DEF TypeInv, JobsOK, Shaped, HoldsNow, Builds, TaskOf, WithCid

\* One owner is the only one of its kind, and there is none of another.
LEMMA TheOnlyOne ==
  ASSUME NEW W, NEW R, NEW F, NEW T, One(Tagged(W, R, F, T))
  PROVE  \A k \in R : W = {} /\ R = {k} /\ F = {} /\ T = {}
<1> SUFFICES ASSUME NEW k \in R PROVE W = {} /\ R = {k} /\ F = {} /\ T = {}
  OBVIOUS
<1> DEFINE S == Tagged(W, R, F, T)
<1>1. <<"warm", k>> \in S
  BY DEF Tagged
<1>2. \A o \in S : o = <<"warm", k>>
  BY <1>1 DEF One
<1>3. \A i \in W : <<"workspace", i>> \in S
  BY DEF Tagged
<1>4. \A j \in R : <<"warm", j>> \in S
  BY DEF Tagged
<1>5. \A j \in F : <<"free", j>> \in S
  BY DEF Tagged
<1>6. \A t \in T : <<"task", t>> \in S
  BY DEF Tagged
<1> HIDE DEF S
<1>7. W = {} /\ F = {} /\ T = {}
  BY <1>2, <1>3, <1>5, <1>6
<1>8. \A j \in R : j = k
  BY <1>2, <1>4
<1> QED BY <1>7, <1>8

\* A single owner.
LEMMA OneOfAKind ==
  /\ \A t : Tagged({}, {}, {}, {t}) = {<<"task", t>>}
  /\ \A k : Tagged({}, {k}, {}, {}) = {<<"warm", k>>}
BY DEF Tagged

\* alloc_vsock_cid takes the CID from the free list.
LEMMA PopKeepsOwners ==
  ASSUME TypeInv, OneJobEach, JobsFit, OwnedOnce, NEW t \in Tasks, PopCid(t), free_vsock_cids # <<>>
  PROVE  OwnedOnce'
<1> DEFINE n == Len(free_vsock_cids)
           d == free_vsock_cids[n]
<1>1. /\ Step(t) /\ pc[t] = "cid" /\ pc'[t] = "launch" /\ job'[t].ws.cid = d
      /\ free_vsock_cids' = SubSeq(free_vsock_cids, 1, n - 1)
      /\ UNCHANGED <<memory, next_vsock_cid>>
  <2>1. job[t] \in JobRecords /\ job \in [Tasks -> JobRecords] /\ pc \in [Tasks -> Labels]
    BY DEF TypeInv, JobsOK
  <2> QED BY <2>1 DEF Step, PopCid, CidKnown, At, Goto, JobRecords, Drafts
<1>11. Step(t) /\ job'[t].ws.cid = d
  BY <1>1
<1>2. job[t].op \in Builders /\ job'[t].op = job[t].op
  BY <1>1, OwnLocals DEF TypeInv, JobsOK, Shaped
<1>3. HoldsNow(t)' /\ ~HoldsNow(t)
  BY <1>1, <1>2 DEF HoldsNow, Builds, HoldsCid, WarmPath, ColdPath
<1>4. d \in Cids /\ n \in FreeOf(d)
  BY <1>1, FreePopped
<1>5. ASSUME NEW c \in Cids
      PROVE  CidOwners(c)' = IF c = d THEN (CidOwners(c) \ {<<"free", n>>}) \cup {<<"task", t>>}
                             ELSE CidOwners(c)
  <2>1. WsOf(c)' = WsOf(c) /\ WarmOf(c)' = WarmOf(c)
    BY <1>1, WsOfStays, SameLists DEF PopCid, WarmRegister, Register, DestroyCid, At, memory
  <2>2. FreeOf(c)' = FreeOf(c) \ {n}
    BY <1>1, FreePopped
  <2>3. t \notin TaskOf(c)
    BY <1>3 DEF TaskOf
  <2> HIDE DEF HoldsNow, n, d
  <2>4. CASE c = d
    <3>1. TaskOf(c)' = TaskOf(c) \cup {t}
      BY <1>11, <1>3, <2>4, TaskOfStep
    <3>2. CidOwners(c)' = Tagged(WsOf(c), WarmOf(c), FreeOf(c) \ {n}, TaskOf(c) \cup {t})
      BY <2>1, <2>2, <3>1, OwnersAfter
    <3>3. Tagged(WsOf(c), WarmOf(c), FreeOf(c) \ {n}, TaskOf(c) \cup {t})
          = (Tagged(WsOf(c), WarmOf(c), FreeOf(c), TaskOf(c)) \ {<<"free", n>>}) \cup {<<"task", t>>}
      BY DEF Tagged
    <3>4. CidOwners(c) = Tagged(WsOf(c), WarmOf(c), FreeOf(c), TaskOf(c))
      BY OwnersAfter
    <3> QED BY <2>4, <3>2, <3>3, <3>4
  <2>5. CASE c # d
    <3>1. TaskOf(c)' = TaskOf(c)
      BY <1>11, <1>3, <2>3, <2>5, TaskOfStep
    <3>2. n \notin FreeOf(c)
      BY <2>5 DEF FreeOf, d
    <3> QED BY <2>1, <2>2, <2>5, <3>1, <3>2, OwnersAfter
  <2> QED BY <2>4, <2>5
<1>6. <<"free", n>> \in CidOwners(d)
  BY <1>4, OwnersAfter DEF Tagged
<1> QED BY <1>1, <1>4, <1>5, <1>6, HandOverKeeps DEF HandsOver

\* Nobody has a CID the counter has yet to issue.
LEMMA UnissuedUnowned ==
  ASSUME TypeInv, CountedInv, NEW c \in Cids, c >= next_vsock_cid
  PROVE  CidOwners(c) = {}
<1>1. c \in Int /\ next_vsock_cid \in Int
  BY ConstantsAssumption DEF TypeInv, CidsOK, Cids
<1>2. WsOf(c) = {}
  <2>1. \A i \in KeepsCid : workspaces[i].cid < next_vsock_cid /\ workspaces[i].cid \in Int
    BY DEF CountedInv, TableBelow, KeepsCid, Registered, TypeInv, RegistryOK, Workspace, Cids
  <2> QED BY <1>1, <2>1 DEF WsOf
<1>3. WarmOf(c) = {}
  <2>1. DOMAIN ready = 1..Len(ready) /\ \A k \in 1..Len(ready) : ready[k] \in WarmVm
    BY DEF TypeInv, PoolOK
  <2> QED BY <1>1, <2>1 DEF WarmOf, Warm, CountedInv, WarmVm, Cids
<1>4. FreeOf(c) = {}
  <2>1. /\ DOMAIN free_vsock_cids = 1..Len(free_vsock_cids)
        /\ \A k \in 1..Len(free_vsock_cids) : free_vsock_cids[k] \in Cids
    BY DEF TypeInv, CidsOK
  <2> QED BY <1>1, <2>1 DEF FreeOf, CountedInv, ListBelow, Cids
<1>5. TaskOf(c) = {}
  BY <1>1, HeldCid DEF TaskOf, HoldsNow, Builds, CountedInv, WithCid, Cids
<1> QED BY <1>2, <1>3, <1>4, <1>5, OwnersTagged DEF Tagged

\* alloc_vsock_cid issues a new one.
LEMMA CountKeepsOwners ==
  ASSUME TypeInv, OneJobEach, JobsFit, OwnedOnce, CountedInv, NEW t \in Tasks,
         CountCid(t), next_vsock_cid < CidLimit
  PROVE  OwnedOnce'
<1> DEFINE d == next_vsock_cid
<1>1. /\ Step(t) /\ pc[t] = "counter" /\ pc'[t] = "launch" /\ job'[t].ws.cid = d
      /\ UNCHANGED <<memory, free_vsock_cids>> /\ next_vsock_cid' = d + 1
  <2>1. job[t] \in JobRecords /\ job \in [Tasks -> JobRecords] /\ pc \in [Tasks -> Labels]
    BY DEF TypeInv, JobsOK
  <2> QED BY <2>1, ConstantsAssumption DEF Step, CountCid, CidKnown, At, Goto, JobRecords, Drafts
<1>11. Step(t) /\ job'[t].ws.cid = d
  BY <1>1
<1>2. job[t].op \in Builders /\ job'[t].op = job[t].op
  BY <1>1, OwnLocals DEF TypeInv, JobsOK, Shaped
<1>3. HoldsNow(t)' /\ ~HoldsNow(t)
  BY <1>1, <1>2 DEF HoldsNow, Builds, HoldsCid, WarmPath, ColdPath
<1>4. d \in Cids /\ d \in Int
  BY ConstantsAssumption DEF TypeInv, CidsOK, Cids
<1>5. CidOwners(d) = {}
  BY <1>4, UnissuedUnowned
<1>6. ASSUME NEW c \in Cids
      PROVE  CidOwners(c)' = IF c = d THEN {<<"task", t>>} ELSE CidOwners(c)
  <2>1. WsOf(c)' = WsOf(c) /\ WarmOf(c)' = WarmOf(c) /\ FreeOf(c)' = FreeOf(c)
    BY <1>1, WsOfStays, SameLists DEF CountCid, WarmRegister, Register, DestroyCid, At, memory
  <2>2. t \notin TaskOf(c)
    BY <1>3 DEF TaskOf
  <2> HIDE DEF HoldsNow, d
  <2>3. CASE c = d
    <3>1. TaskOf(c)' = TaskOf(c) \cup {t}
      BY <1>11, <1>3, <2>3, TaskOfStep
    <3>2. WsOf(c) = {} /\ WarmOf(c) = {} /\ FreeOf(c) = {} /\ TaskOf(c) = {}
      <4>1. Tagged(WsOf(c), WarmOf(c), FreeOf(c), TaskOf(c)) = {}
        BY <1>5, <2>3, OwnersAfter
      <4> QED BY <4>1 DEF Tagged
    <3>3. CidOwners(c)' = Tagged({}, {}, {}, {t})
      BY <2>1, <3>1, <3>2, OwnersAfter
    <3> QED BY <2>3, <3>3, OneOfAKind
  <2>4. CASE c # d
    <3>1. TaskOf(c)' = TaskOf(c)
      BY <1>11, <1>3, <2>2, <2>4, TaskOfStep
    <3> QED BY <2>1, <2>4, <3>1, OwnersAfter
  <2> QED BY <2>3, <2>4
<1>7. \A c \in Cids : One(CidOwners(c)')
  BY <1>6 DEF OwnedOnce, One
<1>8. \A c \in CidStart..(next_vsock_cid' - 1) : CidOwners(c)' # {}
  <2>1. \A c \in CidStart..(next_vsock_cid' - 1) : c \in Cids /\ (c = d \/ c \in CidStart..(d - 1))
    BY <1>1, <1>4, ConstantsAssumption DEF Cids
  <2> QED BY <1>6, <2>1 DEF OwnedOnce
<1> QED BY <1>7, <1>8 DEF OwnedOnce, One

\* The first VM of the pool goes to the task and the others move up.
LEMMA ClaimKeepsOwners ==
  ASSUME TypeInv, OneJobEach, JobsFit, OwnedOnce, NEW t \in Tasks, Claim(t), ready # <<>>
  PROVE  OwnedOnce'
<1> DEFINE n == Len(ready)
           d == Head(ready).cid
<1>1. /\ Step(t) /\ pc[t] = "claim" /\ pc'[t] = "warmRelease" /\ job'[t].ws.cid = d
      /\ ready' = Tail(ready)
      /\ UNCHANGED <<workspaces, cids>>
  <2>1. UNCHANGED <<workspaces, cids>> /\ Step(t)
    BY DEF Step, Claim
  <2> QED BY <2>1, ClaimTakes DEF Goto, TypeInv, JobsOK
<1>11. Step(t) /\ job'[t].ws.cid = d
  BY <1>1
<1>2. job[t].op \in Builders /\ job'[t].op = job[t].op
  BY <1>1, OwnLocals DEF TypeInv, JobsOK, Shaped, Builders
<1>3. HoldsNow(t)' /\ ~HoldsNow(t)
  BY <1>1, <1>2 DEF HoldsNow, Builds, HoldsCid, WarmPath, ColdPath
<1>4. ready \in Seq(WarmVm) /\ n \in Nat \ {0} /\ DOMAIN ready = 1..n /\ Head(ready) = ready[1]
  BY DEF TypeInv, PoolOK
<1>5. DOMAIN ready' = 1..(n - 1) /\ \A k \in 1..(n - 1) : ready'[k] = ready[k + 1]
  BY <1>1, <1>4, HeadTailProperties
<1>6. d \in Cids
  <2>1. ready[1] \in WarmVm
    BY <1>4
  <2> QED BY <1>4, <2>1 DEF WarmVm
<1>7. ASSUME NEW c \in Cids
      PROVE  One(CidOwners(c)') /\ (CidOwners(c) # {} => CidOwners(c)' # {})
  <2>1. WsOf(c)' = WsOf(c) /\ FreeOf(c)' = FreeOf(c)
    BY <1>1, WsOfStays, SameLists DEF Claim, WarmRegister, Register, DestroyCid, At, cids
  <2>2. WarmOf(c)' = {k \in 1..(n - 1) : ready[k + 1].cid = c}
    BY <1>5 DEF WarmOf, Warm
  <2>3. WarmOf(c) = {k \in 1..n : ready[k].cid = c}
    BY <1>4 DEF WarmOf, Warm
  <2>4. \A k \in WarmOf(c)' : k + 1 \in WarmOf(c) /\ k + 1 # 1 /\ k \in Int
    BY <1>4, <2>2, <2>3
  <2>5. \A k \in WarmOf(c) : k # 1 => k - 1 \in WarmOf(c)'
    BY <1>4, <2>2, <2>3
  <2>6. 1 \in WarmOf(c) <=> c = d
    BY <1>4, <2>3
  <2>7. t \notin TaskOf(c)
    BY <1>3 DEF TaskOf
  <2>8. One(CidOwners(c))
    BY DEF OwnedOnce
  <2> HIDE DEF HoldsNow, n, d
  <2>9. TaskOf(c)' = IF c = d THEN TaskOf(c) \cup {t} ELSE TaskOf(c)
    <3>1. /\ c = d => TaskOf(c)' = TaskOf(c) \cup {t}
          /\ c # d => TaskOf(c)' = TaskOf(c)
      BY <1>11, <1>3, TaskOfStep
    <3> QED BY <3>1
  <2> DEFINE before == CidOwners(c)
             after == CidOwners(c)'
  <2>10. /\ before = Tagged(WsOf(c), WarmOf(c), FreeOf(c), TaskOf(c))
         /\ after = Tagged(WsOf(c), WarmOf(c)', FreeOf(c), TaskOf(c)')
    BY <2>1, OwnersAfter
  <2>11. CASE c = d
    <3>1. WsOf(c) = {} /\ FreeOf(c) = {} /\ TaskOf(c) = {} /\ WarmOf(c) = {1}
      BY <2>6, <2>8, <2>10, <2>11, TheOnlyOne
    <3>2. WarmOf(c)' = {} /\ TaskOf(c)' = {t}
      BY <2>4, <2>9, <2>11, <3>1
    <3>3. after = {<<"task", t>>}
      BY <2>10, <3>1, <3>2, OneOfAKind
    <3> QED BY <3>3 DEF One
  <2>12. CASE c # d
    <3>1. 1 \notin WarmOf(c) /\ TaskOf(c)' = TaskOf(c)
      BY <2>6, <2>9, <2>12
    <3>2. CASE WarmOf(c) = {}
      BY <2>4, <2>8, <2>10, <3>1, <3>2
    <3>3. CASE WarmOf(c) # {}
      <4> PICK k \in WarmOf(c) : TRUE
        BY <3>3
      <4>1. WsOf(c) = {} /\ FreeOf(c) = {} /\ TaskOf(c) = {} /\ WarmOf(c) = {k}
        BY <2>8, <2>10, TheOnlyOne
      <4>2. k \in Int
        BY <2>3, <1>4
      <4>3. WarmOf(c)' = {k - 1}
        BY <2>4, <2>5, <3>1, <4>1, <4>2
      <4>4. after = {<<"warm", k - 1>>}
        BY <2>10, <3>1, <4>1, <4>3, OneOfAKind
      <4> QED BY <4>4 DEF One
    <3> QED BY <3>2, <3>3
  <2> QED BY <2>11, <2>12
<1>8. \A c \in CidStart..(next_vsock_cid - 1) : c \in Cids
  BY ConstantsAssumption DEF Cids, TypeInv, CidsOK
<1> QED BY <1>1, <1>7, <1>8 DEF OwnedOnce, One, cids

\* create and fork give their CID to the workspace they register.
LEMMA RegisterKeepsOwners ==
  ASSUME TypeInv, OneJobEach, JobsFit, OwnedOnce, NEW t \in Tasks,
         WarmRegister(t) \/ (Register(t) /\ Count < MaxWorkspaces)
  PROVE  OwnedOnce'
<1> DEFINE i == job[t].id
           d == job[t].ws.cid
<1>1. /\ Step(t) /\ pc[t] \in {"warmRegister", "register"} /\ pc'[t] = "save"
      /\ UNCHANGED <<ready, cids, job>>
  BY DEF Step, WarmRegister, Register, At, Goto, TypeInv, JobsOK
<1>2. HoldsNow(t) /\ ~HoldsNow(t)'
  <2>1. job[t].op \in Builders
    BY <1>1 DEF TypeInv, JobsOK, Shaped, WarmPath, Builders
  <2> QED BY <1>1, <2>1 DEF HoldsNow, Builds, HoldsCid, WarmPath, ColdPath
<1>3. d \in Cids /\ t \in TaskOf(d)
  BY <1>2, HeldCid
<1>4. ASSUME NEW c \in Cids
      PROVE  CidOwners(c)' = IF c = d THEN (CidOwners(c) \ {<<"task", t>>}) \cup {<<"workspace", i>>}
                             ELSE CidOwners(c)
  <2>1. WarmOf(c)' = WarmOf(c) /\ FreeOf(c)' = FreeOf(c)
    BY <1>1, SameLists DEF cids
  <2>2. /\ c = d => WsOf(c)' = WsOf(c) \cup {i}
        /\ c # d => WsOf(c)' = WsOf(c)
    BY <1>1, WsOfGains
  <2>3. /\ TaskOf(c)' = TaskOf(c) \ {t}
        /\ c # d => TaskOf(c)' = TaskOf(c)
    BY <1>1, <1>2, TaskOfStep
  <2>4. CASE c = d
    <3>1. CidOwners(c)' = Tagged(WsOf(c) \cup {i}, WarmOf(c), FreeOf(c), TaskOf(c) \ {t})
      BY <2>1, <2>2, <2>3, <2>4, OwnersAfter
    <3>2. Tagged(WsOf(c) \cup {i}, WarmOf(c), FreeOf(c), TaskOf(c) \ {t})
          = (Tagged(WsOf(c), WarmOf(c), FreeOf(c), TaskOf(c)) \ {<<"task", t>>}) \cup {<<"workspace", i>>}
      BY DEF Tagged
    <3> QED BY <2>4, <3>1, <3>2, OwnersTagged
  <2>5. CASE c # d
    BY <2>1, <2>2, <2>3, <2>5, OwnersAfter
  <2> QED BY <2>4, <2>5
<1>5. <<"task", t>> \in CidOwners(d)
  BY <1>3, OwnersTagged DEF Tagged
<1>8. HandsOver(d, <<"task", t>>, <<"workspace", i>>)
  BY <1>4, <1>5 DEF HandsOver
<1>9. UNCHANGED next_vsock_cid
  BY <1>1 DEF cids
<1> HIDE DEF d
<1> QED BY <1>3, <1>8, <1>9, HandOverKeeps

\* A rollback recycles the CID of its task.
LEMMA UndoKeepsOwners ==
  ASSUME TypeInv, OneJobEach, JobsFit, OwnedOnce, NEW t \in Tasks, UndoCid(t)
  PROVE  OwnedOnce'
<1> DEFINE n == Len(free_vsock_cids) + 1
           d == job[t].ws.cid
<1>1. /\ Step(t) /\ pc[t] = "undoCid" /\ pc'[t] = "undoVm"
      /\ UNCHANGED <<workspaces, ready, next_vsock_cid, job>>
      /\ free_vsock_cids' = Append(free_vsock_cids, d)
  BY DEF Step, UndoCid, RecycleCid, At, Goto, TypeInv, JobsOK, memory
<1>2. HoldsNow(t) /\ ~HoldsNow(t)'
  <2>1. job[t].op \in Builders
    BY <1>1 DEF TypeInv, JobsOK, Shaped
  <2> QED BY <1>1, <2>1 DEF HoldsNow, Builds, HoldsCid, WarmPath, ColdPath
<1>3. d \in Cids /\ t \in TaskOf(d)
  BY <1>2, HeldCid
<1>4. ASSUME NEW c \in Cids
      PROVE  CidOwners(c)' = IF c = d THEN (CidOwners(c) \ {<<"task", t>>}) \cup {<<"free", n>>}
                             ELSE CidOwners(c)
  <2>1. WarmOf(c)' = WarmOf(c)
    BY <1>1, SameLists
  <2>2. WsOf(c)' = WsOf(c)
    BY <1>1, WsOfStays DEF WarmRegister, DestroyCid, At
  <2>3. /\ TaskOf(c)' = TaskOf(c) \ {t}
        /\ c # d => TaskOf(c)' = TaskOf(c)
    BY <1>1, <1>2, TaskOfStep
  <2>4. /\ c = d => FreeOf(c)' = FreeOf(c) \cup {n}
        /\ c # d => FreeOf(c)' = FreeOf(c)
    BY <1>1, <1>3, FreePushed
  <2> HIDE DEF n, d
  <2>5. CASE c = d
    <3>1. CidOwners(c)' = Tagged(WsOf(c), WarmOf(c), FreeOf(c) \cup {n}, TaskOf(c) \ {t})
      BY <2>1, <2>2, <2>3, <2>4, <2>5, OwnersAfter
    <3>2. Tagged(WsOf(c), WarmOf(c), FreeOf(c) \cup {n}, TaskOf(c) \ {t})
          = (Tagged(WsOf(c), WarmOf(c), FreeOf(c), TaskOf(c)) \ {<<"task", t>>}) \cup {<<"free", n>>}
      BY DEF Tagged
    <3> QED BY <2>5, <3>1, <3>2, OwnersTagged
  <2>6. CASE c # d
    BY <2>1, <2>2, <2>3, <2>4, <2>6, OwnersAfter
  <2> QED BY <2>5, <2>6
<1>5. <<"task", t>> \in CidOwners(d)
  BY <1>3, OwnersTagged DEF Tagged
<1>8. HandsOver(d, <<"task", t>>, <<"free", n>>)
  BY <1>4, <1>5 DEF HandsOver
<1>9. UNCHANGED next_vsock_cid
  BY <1>1
<1> HIDE DEF d
<1> QED BY <1>3, <1>8, <1>9, HandOverKeeps

\* A VM joins the pool, or returns to it when its network could not be made.
LEMMA PoolKeepsOwners ==
  ASSUME TypeInv, OneJobEach, JobsFit, OwnedOnce, NEW t \in Tasks, AddReady(t) \/ Returns(t)
  PROVE  OwnedOnce'
<1> DEFINE n == Len(ready) + 1
           d == job[t].ws.cid
<1>1. job[t] \in JobRecords /\ job \in [Tasks -> JobRecords] /\ pc \in [Tasks -> Labels]
      /\ Shaped(job[t], pc[t])
  BY DEF TypeInv, JobsOK
<1>2. /\ Step(t) /\ pc[t] \in {"addReady", "warmSetup"} /\ pc'[t] = "idle"
      /\ UNCHANGED <<workspaces, cids>>
  BY <1>1 DEF Step, AddReady, Returns, WarmSetup, Return, At, Goto
<1>3. HoldsNow(t) /\ ~HoldsNow(t)'
  <2>1. job[t].op \in Builders
    BY <1>1, <1>2 DEF Shaped, WarmPath, Builders
  <2> QED BY <1>2, <2>1 DEF HoldsNow, Builds, HoldsCid, WarmPath, ColdPath
<1>4. d \in Cids /\ t \in TaskOf(d)
  BY <1>3, HeldCid
<1>5. PICK warm \in WarmVm : ready' = Append(ready, warm) /\ warm.cid = d
  <2>1. CASE AddReady(t)
    <3> DEFINE w == [id |-> job[t].id, cid |-> d, ip |-> job[t].ws.ip]
    <3>1. w \in WarmVm
      BY <1>1, <1>2, <1>4, <2>1
      DEF AddReady, At, Shaped, Working, Labels, WithIp, ColdPath, WarmVm
    <3> QED BY <2>1, <3>1 DEF AddReady
  <2>2. CASE Returns(t)
    <3> DEFINE w == [id |-> job[t].src, cid |-> d, ip |-> job[t].ws.ip]
    <3>1. w \in WarmVm
      BY <1>1, <1>4, <2>2 DEF Returns, WarmSetup, At, Shaped, WithIp, WarmPath, WarmVm
    <3>2. ~Goto(t, "rekey")
      BY <1>1, <1>2 DEF Goto
    <3> QED BY <2>2, <3>1, <3>2 DEF Returns, WarmSetup
  <2> QED BY <2>1, <2>2
<1>6. ASSUME NEW c \in Cids
      PROVE  CidOwners(c)' = IF c = d THEN (CidOwners(c) \ {<<"task", t>>}) \cup {<<"warm", n>>}
                             ELSE CidOwners(c)
  <2>1. FreeOf(c)' = FreeOf(c)
    BY <1>2, SameLists DEF cids
  <2>2. WsOf(c)' = WsOf(c)
    BY <1>2, WsOfStays DEF WarmRegister, DestroyCid, At
  <2>3. /\ TaskOf(c)' = TaskOf(c) \ {t}
        /\ c # d => TaskOf(c)' = TaskOf(c)
    BY <1>2, <1>3, TaskOfStep
  <2>4. /\ c = d => WarmOf(c)' = WarmOf(c) \cup {n}
        /\ c # d => WarmOf(c)' = WarmOf(c)
    BY <1>5, WarmAdded
  <2> HIDE DEF n, d
  <2>5. CASE c = d
    <3>1. CidOwners(c)' = Tagged(WsOf(c), WarmOf(c) \cup {n}, FreeOf(c), TaskOf(c) \ {t})
      BY <2>1, <2>2, <2>3, <2>4, <2>5, OwnersAfter
    <3>2. Tagged(WsOf(c), WarmOf(c) \cup {n}, FreeOf(c), TaskOf(c) \ {t})
          = (Tagged(WsOf(c), WarmOf(c), FreeOf(c), TaskOf(c)) \ {<<"task", t>>}) \cup {<<"warm", n>>}
      BY DEF Tagged
    <3> QED BY <2>5, <3>1, <3>2, OwnersTagged
  <2>6. CASE c # d
    BY <2>1, <2>2, <2>3, <2>4, <2>6, OwnersAfter
  <2> QED BY <2>5, <2>6
<1>7. <<"task", t>> \in CidOwners(d)
  BY <1>4, OwnersTagged DEF Tagged
<1>8. HandsOver(d, <<"task", t>>, <<"warm", n>>)
  BY <1>6, <1>7 DEF HandsOver
<1>9. UNCHANGED next_vsock_cid
  BY <1>2 DEF cids
<1> HIDE DEF d
<1> QED BY <1>4, <1>8, <1>9, HandOverKeeps

\* destroy recycles the CID of the workspace it is about to remove.
LEMMA DestroyKeepsOwners ==
  ASSUME TypeInv, OneJobEach, JobsFit, OwnedOnce, NEW t \in Tasks, DestroyCid(t)
  PROVE  OwnedOnce'
<1> DEFINE n == Len(free_vsock_cids) + 1
           d == job[t].ws.cid
           i == job[t].id
<1>1. /\ Step(t) /\ pc[t] = "endCid" /\ pc'[t] = "endEntry"
      /\ UNCHANGED <<workspaces, ready, next_vsock_cid, job>>
      /\ free_vsock_cids' = Append(free_vsock_cids, d)
  BY DEF Step, DestroyCid, RecycleCid, At, Goto, TypeInv, JobsOK, memory
<1>2. ~HoldsNow(t) /\ ~HoldsNow(t)'
  BY <1>1 DEF HoldsNow, Builds, HoldsCid, WarmPath, ColdPath
<1>3. d \in Cids
  BY <1>1 DEF TypeInv, JobsOK, Shaped, WithCid, Ending
<1>4. ASSUME NEW c \in Cids
      PROVE  CidOwners(c)' = IF c = d THEN (CidOwners(c) \ {<<"workspace", i>>}) \cup {<<"free", n>>}
                             ELSE CidOwners(c)
  <2>1. WarmOf(c)' = WarmOf(c)
    BY <1>1, SameLists
  <2>2. /\ c = d => WsOf(c)' = WsOf(c) \ {i}
        /\ c # d => WsOf(c)' = WsOf(c)
    BY WsOfLoses
  <2>3. TaskOf(c)' = TaskOf(c)
    <3>1. t \notin TaskOf(c)
      BY <1>2 DEF TaskOf
    <3>2. TaskOf(c)' = TaskOf(c) \ {t}
      BY <1>1, <1>2, TaskOfStep
    <3> QED BY <3>1, <3>2
  <2>4. /\ c = d => FreeOf(c)' = FreeOf(c) \cup {n}
        /\ c # d => FreeOf(c)' = FreeOf(c)
    BY <1>1, <1>3, FreePushed
  <2> HIDE DEF n, d
  <2>5. CASE c = d
    <3>1. CidOwners(c)' = Tagged(WsOf(c) \ {i}, WarmOf(c), FreeOf(c) \cup {n}, TaskOf(c))
      BY <2>1, <2>2, <2>3, <2>4, <2>5, OwnersAfter
    <3>2. Tagged(WsOf(c) \ {i}, WarmOf(c), FreeOf(c) \cup {n}, TaskOf(c))
          = (Tagged(WsOf(c), WarmOf(c), FreeOf(c), TaskOf(c)) \ {<<"workspace", i>>}) \cup {<<"free", n>>}
      BY DEF Tagged
    <3> QED BY <2>5, <3>1, <3>2, OwnersTagged
  <2>6. CASE c # d
    BY <2>1, <2>2, <2>3, <2>4, <2>6, OwnersAfter
  <2> QED BY <2>5, <2>6
<1>5. <<"workspace", i>> \in CidOwners(d)
  BY WsOfLoses, OwnersTagged DEF Tagged
<1>8. HandsOver(d, <<"workspace", i>>, <<"free", n>>)
  BY <1>4, <1>5 DEF HandsOver
<1>9. UNCHANGED next_vsock_cid
  BY <1>1
<1> HIDE DEF d
<1> QED BY <1>3, <1>8, <1>9, HandOverKeeps

\* Every step keeps that each issued CID has one owner.
LEMMA StepKeepsOwners ==
  ASSUME TypeInv, CountedInv, OneJobEach, JobsFit, OwnedOnce, "configure" \notin Faults,
         NEW t \in Tasks, Step(t)
  PROVE  OwnedOnce'
<1>1. CASE Takes(t)
  BY <1>1, ClaimKeepsOwners, PopKeepsOwners, CountKeepsOwners DEF Takes
<1>2. CASE Gives(t)
  BY <1>2, RegisterKeepsOwners, UndoKeepsOwners, PoolKeepsOwners DEF Gives
<1>3. CASE DestroyCid(t)
  BY <1>3, DestroyKeepsOwners
<1> QED BY <1>1, <1>2, <1>3, QuietKeepsOwners

\* A request that begins holds no CID yet and takes none from a workspace.
LEMMA CallKeepsOwners ==
  ASSUME TypeInv, OwnedOnce,
         \/ \E t \in Requests : Arrive(t)
         \/ SaveTimer
         \/ \E i \in Ids : ReplenishPool(i)
  PROVE  OwnedOnce'
<1>1. pc \in [Tasks -> Labels] /\ job \in [Tasks -> JobRecords]
  BY DEF TypeInv, JobsOK
<1>2. ASSUME NEW t \in Tasks, NEW label, NEW op, NEW i, NEW src, NEW ws,
             Call(t, label, op, i, src, ws), UNCHANGED <<memory, cids>>,
             label \notin HoldsCid \cup {"endEntry"}
      PROVE  OwnedOnce'
  <2>1. /\ pc'[t] = label /\ pc[t] = "idle"
        /\ \A u \in Tasks : u # t => pc'[u] = pc[u] /\ job'[u] = job[u]
    BY <1>1, <1>2 DEF Call, Goto, At
  <2>2. /\ \A u \in Tasks : HoldsNow(u)' <=> HoldsNow(u)
        /\ \A u \in Tasks : HoldsNow(u) => job'[u] = job[u]
    BY <1>2, <2>1 DEF HoldsNow, Builds, HoldsCid, WarmPath, ColdPath
  <2>3. \A j \in Ids : TornDown(j, {"endEntry"})' <=> TornDown(j, {"endEntry"})
    BY <1>2, <2>1 DEF TornDown
  <2>4. KeepsCid' = KeepsCid /\ UNCHANGED <<workspaces, ready, cids>>
    BY <1>2, <2>3 DEF KeepsCid, Registered, memory
  <2>5. ASSUME NEW c PROVE CidOwners(c)' = CidOwners(c)
    <3>1. WsOf(c)' = WsOf(c) /\ WarmOf(c)' = WarmOf(c) /\ FreeOf(c)' = FreeOf(c)
      BY <2>4, SameLists DEF WsOf, cids
    <3>2. TaskOf(c)' = {u \in Tasks : HoldsNow(u)' /\ job'[u].ws.cid = c}
      BY DEF TaskOf
    <3>3. TaskOf(c) = {u \in Tasks : HoldsNow(u) /\ job[u].ws.cid = c}
      BY DEF TaskOf
    <3> HIDE DEF HoldsNow
    <3>4. TaskOf(c)' = TaskOf(c)
      BY <2>2, <3>2, <3>3
    <3> QED BY <3>1, <3>4, OwnersAfter
  <2> QED BY <2>4, <2>5, SameOwnersKeep DEF cids
<1> USE DEF HoldsCid, WarmPath, ColdPath
<1>3. ASSUME NEW t \in Requests, Arrive(t) PROVE OwnedOnce'
  <2>1. t \in Tasks
    BY DEF Tasks
  <2>2. ASSUME NEW i \in Ids, NEW n \in Names \cup {i}, NEW default \in BOOLEAN,
               Create(t, i, n, default)
        PROVE  OwnedOnce'
    BY <1>2, <2>1, <2>2 DEF Create
  <2>3. ASSUME NEW i \in Ids, NEW n \in Names \cup {i}, NEW source \in Ids, Fork(t, source, i, n)
        PROVE  OwnedOnce'
    BY <1>2, <2>1, <2>3 DEF Fork
  <2>4. ASSUME NEW i \in Ids, Destroy(t, i) \/ Stop(t, i) \/ Start(t, i) PROVE OwnedOnce'
    BY <1>2, <2>1, <2>4 DEF Destroy, Stop, Start
  <2> QED BY <1>3, <2>2, <2>3, <2>4 DEF Arrive
<1>4. CASE SaveTimer
  BY <1>2, <1>4 DEF SaveTimer, Tasks
<1>5. ASSUME NEW i \in Ids, ReplenishPool(i) PROVE OwnedOnce'
  BY <1>2, <1>5 DEF ReplenishPool, Tasks
<1> QED BY <1>3, <1>4, <1>5

\* No CID is issued and none has an owner.
LEMMA InitOwned ==
  ASSUME Init
  PROVE  OneJobEach /\ JobsFit /\ OwnedOnce
<1>1. OneJobEach /\ JobsFit
  BY DEF Init, OneJobEach, JobsFit, NoJob, Working, Ending
<1>2. ASSUME NEW c PROVE CidOwners(c) = {}
  <2>1. WsOf(c) = {} /\ WarmOf(c) = {} /\ FreeOf(c) = {}
    BY DEF Init, WsOf, WarmOf, FreeOf, KeepsCid, Registered, Warm
  <2>2. TaskOf(c) = {}
    BY DEF Init, TaskOf, HoldsNow, Builds, HoldsCid, WarmPath, ColdPath
  <2> QED BY <2>1, <2>2, OwnersTagged DEF Tagged
<1>3. next_vsock_cid = CidStart /\ CidStart \in Nat
  BY ConstantsAssumption DEF Init
<1>4. CidStart..(next_vsock_cid - 1) = {}
  BY <1>3
<1> QED BY <1>1, <1>2, <1>4 DEF OwnedOnce, One

\* The three invariants are inductive.
LEMMA NextKeepsOwners ==
  ASSUME OneCallAtATime, {"crash", "configure"} \cap Faults = {},
         TypeInv, CountedInv, OneJobEach, JobsFit, OwnedOnce, [Next]_vars
  PROVE  OneJobEach' /\ JobsFit' /\ OwnedOnce'
<1>1. ASSUME NEW t \in Tasks, Step(t) PROVE OneJobEach' /\ JobsFit' /\ OwnedOnce'
  BY <1>1, StepKeepsJobs, StepKeepsOwners
<1>2. CASE \/ \E t \in Requests : Arrive(t)
           \/ SaveTimer
           \/ \E i \in Ids : ReplenishPool(i)
  BY <1>2, CallKeepsJobs, CallKeepsOwners
<1>3. ASSUME UNCHANGED <<memory, cids, pc, job>> PROVE OneJobEach' /\ JobsFit' /\ OwnedOnce'
  <2>1. UNCHANGED <<workspaces, ready, next_vsock_cid, free_vsock_cids, pc, job>>
    BY <1>3 DEF memory, cids
  <2>2. \A c : CidOwners(c)' = CidOwners(c)
    BY <2>1 DEF CidOwners, KeepsCid, Registered, TornDown, Warm, Builds
  <2> QED BY <2>1, <2>2, SameOwnersKeep DEF OneJobEach, JobsFit
<1>4. ASSUME NEW p \in Ids, VmDies(p) PROVE OneJobEach' /\ JobsFit' /\ OwnedOnce'
  BY <1>3, <1>4 DEF VmDies
<1>5. CASE UNCHANGED vars
  BY <1>3, <1>5 DEF vars
<1>6. ~Restart
  BY DEF Restart, Fails
<1> QED BY <1>1, <1>2, <1>4, <1>5, <1>6 DEF Next

\* While the calls on one workspace follow one another, and the daemon neither
\* dies nor loses a guest agent: every CID that was issued has exactly one owner,
\* a workspace, a warm VM, the free list or the task that is building, whatever
\* else fails and however creates, forks, destroys and claims interleave.
THEOREM CidTheorem ==
  ASSUME OneCallAtATime, {"crash", "configure"} \cap Faults = {}
  PROVE  Spec => []CidsOwnedOnce
<1> DEFINE Inv == TypeInv /\ CountedInv /\ OneJobEach /\ JobsFit /\ OwnedOnce
<1>1. Init => Inv
  BY InitTyped, InitCounted, InitOwned
<1>2. Inv /\ [Next]_vars => Inv'
  BY NextTyped, NextKeepsCounted, NextKeepsOwners
<1>3. Inv => CidsOwnedOnce
  <2> SUFFICES ASSUME Inv PROVE CidsOwnedOnce
    OBVIOUS
  <2>1. ASSUME NEW c \in Cids, c >= next_vsock_cid PROVE CidOwners(c) = {}
    BY <2>1, UnissuedUnowned
  <2> QED BY <2>1 DEF OwnedOnce, One, CidsOwnedOnce, CidExclusive, CidsAccountedFor
<1> QED BY <1>1, <1>2, <1>3, PTL DEF Spec

-----------------------------------------------------------------------------
(* The owners of an address *)

HasAddress(t) == Builds(t, HoldsIp)
WsAt(a) == {i \in KeepsIp : workspaces[i].ip = a}
WarmAt(a) == {k \in Warm : ready[k].ip = a}
TaskAt(a) == {u \in Tasks : HasAddress(u) /\ job[u].ws.ip = a}

\* An address has at most one owner, and is leased exactly when it has one.
LeasedOnce ==
  \A a \in IPs : One(IpOwners(a)) /\ (IpOwners(a) # {} <=> a \in leased)

\* The owners of an address, by kind.
LEMMA AddressesTagged ==
  ASSUME NEW a
  PROVE  /\ IpOwners(a) = Tagged(WsAt(a), WarmAt(a), {}, TaskAt(a))
         /\ IpOwners(a)' = Tagged(WsAt(a)', WarmAt(a)', {}, TaskAt(a)')
BY DEF IpOwners, Tagged, WsAt, WarmAt, TaskAt, HasAddress

\* Where a task that destroys stands, and what it does there.
LEMMA DestroyOrder ==
  ASSUME TypeInv, NEW t \in Tasks, Step(t)
  PROVE  /\ pc'[t] = "endStorage" <=> DestroyNetwork(t)
         /\ pc'[t] = "endCid" <=> DestroyStorage(t)
         /\ pc[t] = "endNetwork" <=> DestroyNetwork(t)
         /\ pc[t] = "endStorage" <=> DestroyStorage(t)
         /\ pc[t] = "endCid" <=> DestroyCid(t)
<1>1. pc \in [Tasks -> Labels]
  BY DEF TypeInv, JobsOK
<1>2. ASSUME NEW label, Goto(t, label) PROVE pc'[t] = label
  BY <1>1, <1>2 DEF Goto
<1>3. ASSUME Return(t) PROVE pc'[t] = "idle"
  BY <1>2, <1>3 DEF Return
<1> USE DEF At
<1>4. CASE \/ Claim(t) \/ WarmRelease(t) \/ WarmSetup(t) \/ Rekey(t) \/ WarmRegister(t)
           \/ Provision(t)
  BY <1>2, <1>3, <1>4
  DEF Claim, WarmRelease, WarmSetup, Rekey, WarmRegister, Provision, DestroyNetwork,
      DestroyStorage, DestroyCid
<1>5. CASE \/ PopCid(t) \/ CountCid(t) \/ Configure(t) \/ Register(t)
           \/ UndoCid(t) \/ UndoVm(t) \/ UndoHost(t) \/ AddReady(t)
  BY <1>2, <1>3, <1>5
  DEF PopCid, CountCid, CidKnown, Configure, Register, UndoCid, UndoVm, UndoHost, AddReady,
      DestroyNetwork, DestroyStorage, DestroyCid
<1>6. CASE Launch(t)
  <2>1. AfterLaunch(job[t].op) \in {"configure", "register", "addReady", "markRunning"}
    BY DEF AfterLaunch
  <2> QED BY <1>2, <1>3, <1>6, <2>1 DEF Launch, DestroyNetwork, DestroyStorage, DestroyCid
<1>7. CASE \/ ForkChecks(t) \/ Clone(t) \/ ForkSetup(t)
  BY <1>2, <1>3, <1>7
  DEF ForkChecks, Clone, ForkSetup, DestroyNetwork, DestroyStorage, DestroyCid
<1>8. CASE DestroyVm(t) \/ DestroyNetwork(t) \/ DestroyStorage(t) \/ DestroyCid(t) \/ DestroyEntry(t)
  BY <1>2, <1>8
  DEF DestroyVm, DestroyNetwork, DestroyStorage, DestroyCid, DestroyEntry
<1>9. CASE StopVm(t) \/ MarkStopped(t) \/ EnsureNetwork(t) \/ MarkRunning(t)
           \/ SaveBegin(t) \/ SaveEnd(t)
  BY <1>2, <1>3, <1>9
  DEF StopVm, MarkStopped, EnsureNetwork, MarkRunning, Mark, SaveBegin, SaveEnd,
      DestroyNetwork, DestroyStorage, DestroyCid
<1> QED BY <1>4, <1>5, <1>6, <1>7, <1>8, <1>9 DEF Step

\* The tasks at an address after a step of t.
LEMMA TaskAtStep ==
  ASSUME TypeInv, NEW t \in Tasks, Step(t), NEW a
  PROVE  /\ ~HasAddress(t)' => TaskAt(a)' = TaskAt(a) \ {t}
         /\ HasAddress(t)' /\ job'[t].ws.ip = a => TaskAt(a)' = TaskAt(a) \cup {t}
         /\ ~HasAddress(t) /\ (HasAddress(t)' => job'[t].ws.ip # a) => TaskAt(a)' = TaskAt(a)
         /\ ~HasAddress(t)' /\ job[t].ws.ip # a => TaskAt(a)' = TaskAt(a)
         /\ (HasAddress(t)' <=> HasAddress(t)) /\ (HasAddress(t) => job'[t].ws.ip = job[t].ws.ip)
              => TaskAt(a)' = TaskAt(a)
<1>1. \A u \in Tasks : u # t => (HasAddress(u)' <=> HasAddress(u)) /\ job'[u] = job[u]
  BY OthersStay DEF HasAddress, Builds
<1>2. TaskAt(a)' = {u \in Tasks : HasAddress(u)' /\ job'[u].ws.ip = a}
  BY DEF TaskAt
<1>3. TaskAt(a) = {u \in Tasks : HasAddress(u) /\ job[u].ws.ip = a}
  BY DEF TaskAt
<1> HIDE DEF HasAddress
<1> QED BY <1>1, <1>2, <1>3

\* The workspaces that keep their address after a step of t.
LEMMA KeepsIpStep ==
  ASSUME TypeInv, OneJobEach, JobsFit, NEW t \in Tasks, Step(t), NEW i \in Ids
  PROVE  /\ i # job[t].id => (i \in KeepsIp' <=> i \in KeepsIp) /\ workspaces'[i] = workspaces[i]
         /\ i = job[t].id =>
              /\ i \in KeepsIp <=> workspaces[i] # None /\ pc[t] \notin {"endStorage", "endCid", "endEntry"}
              /\ i \in KeepsIp' <=> workspaces'[i] # None /\ pc'[t] \notin {"endStorage", "endCid", "endEntry"}
<1> DEFINE labels == {"endStorage", "endCid", "endEntry"}
<1>1. labels \in SUBSET (Ending \cup {"endEntry"})
  BY DEF Ending
<1>2. /\ i \in KeepsIp <=> workspaces[i] # None /\ ~TornDown(i, labels)
      /\ i \in KeepsIp' <=> workspaces'[i] # None /\ ~TornDown(i, labels)'
  BY DEF KeepsIp, Registered
<1>3. i # job[t].id => workspaces'[i] = workspaces[i]
  BY OtherEntriesStay
<1>4. /\ i # job[t].id => (TornDown(i, labels)' <=> TornDown(i, labels))
      /\ i = job[t].id => (TornDown(i, labels) <=> pc[t] \in labels)
      /\ i = job[t].id => (TornDown(i, labels)' <=> pc'[t] \in labels)
  BY <1>1, TornStep
<1> QED BY <1>2, <1>3, <1>4

\* A step that neither registers a workspace nor releases its network leaves the
\* workspaces their addresses.
LEMMA WsAtStays ==
  ASSUME TypeInv, OneJobEach, JobsFit, NEW t \in Tasks, Step(t), NEW a,
         ~WarmRegister(t), Register(t) => UNCHANGED workspaces, ~DestroyNetwork(t)
  PROVE  WsAt(a)' = WsAt(a)
<1>1. ASSUME NEW i \in Ids
      PROVE  /\ i \in KeepsIp' <=> i \in KeepsIp
             /\ i \in KeepsIp => workspaces'[i].ip = workspaces[i].ip
  <2>1. CASE i # job[t].id
    BY <2>1, KeepsIpStep
  <2>2. CASE i = job[t].id /\ ~DestroyEntry(t)
    <3>1. pc'[t] \in {"endStorage", "endCid", "endEntry"}
          <=> pc[t] \in {"endStorage", "endCid", "endEntry"}
      BY <2>2, WhereItGoes, DestroyOrder
    <3>2. /\ workspaces'[i] = None <=> workspaces[i] = None
          /\ workspaces[i] # None => workspaces'[i].ip = workspaces[i].ip
      BY <2>2, OwnEntry
    <3> QED BY <2>2, <3>1, <3>2, KeepsIpStep
  <2>3. CASE i = job[t].id /\ DestroyEntry(t)
    <3>1. pc[t] = "endEntry"
      BY <2>3 DEF DestroyEntry, At
    <3>2. workspaces'[i] = None
      BY <2>3 DEF DestroyEntry, TypeInv, RegistryOK
    <3> QED BY <2>3, <3>1, <3>2, KeepsIpStep
  <2> QED BY <2>1, <2>2, <2>3
<1>2. KeepsIp \subseteq Ids /\ KeepsIp' \subseteq Ids
  BY DEF KeepsIp, Registered
<1>3. WsAt(a)' = {i \in KeepsIp' : workspaces'[i].ip = a}
  BY DEF WsAt
<1> QED BY <1>1, <1>2, <1>3 DEF WsAt

\* A step that registers the workspace of its task.
LEMMA WsAtGains ==
  ASSUME TypeInv, OneJobEach, JobsFit, NEW t \in Tasks, Step(t), NEW a,
         WarmRegister(t) \/ (Register(t) /\ Count < MaxWorkspaces)
  PROVE  /\ a = job[t].ws.ip => WsAt(a)' = WsAt(a) \cup {job[t].id}
         /\ a # job[t].ws.ip => WsAt(a)' = WsAt(a)
<1> DEFINE i == job[t].id
<1>1. workspaces[i] = None /\ workspaces'[i] = job[t].ws /\ job[t].ws # None /\ i \in Ids
      /\ pc[t] \in {"warmRegister", "register"} /\ pc'[t] = "save"
  BY NewEntry
<1>2. i \notin KeepsIp /\ i \in KeepsIp'
  BY <1>1, KeepsIpStep
<1>3. \A j \in Ids : j # i => (j \in KeepsIp' <=> j \in KeepsIp) /\ workspaces'[j] = workspaces[j]
  BY KeepsIpStep
<1>4. KeepsIp \subseteq Ids /\ KeepsIp' \subseteq Ids
  BY DEF KeepsIp, Registered
<1>5. WsAt(a)' = {j \in KeepsIp' : workspaces'[j].ip = a}
  BY DEF WsAt
<1> QED BY <1>1, <1>2, <1>3, <1>4, <1>5 DEF WsAt

\* The step of destroy that releases the network.
LEMMA WsAtLoses ==
  ASSUME TypeInv, OneJobEach, JobsFit, NEW t \in Tasks, DestroyNetwork(t), NEW a
  PROVE  /\ a = job[t].ws.ip => WsAt(a)' = WsAt(a) \ {job[t].id}
         /\ a # job[t].ws.ip => WsAt(a)' = WsAt(a)
         /\ job[t].id \in WsAt(job[t].ws.ip)
<1> DEFINE i == job[t].id
<1>1. Step(t) /\ pc[t] = "endNetwork" /\ pc'[t] = "endStorage" /\ UNCHANGED workspaces
  BY DEF Step, DestroyNetwork, At, Goto, TypeInv, JobsOK, memory
<1>2. i \in Ids
  BY <1>1 DEF TypeInv, JobsOK, Shaped, Working, Labels
<1>3. workspaces[i] # None /\ workspaces[i].ip = job[t].ws.ip
  BY <1>1 DEF JobsFit, Ending
<1>4. i \in KeepsIp /\ i \notin KeepsIp'
  BY <1>1, <1>2, <1>3, KeepsIpStep
<1>5. \A j \in Ids : j # i => (j \in KeepsIp' <=> j \in KeepsIp)
  BY <1>1, KeepsIpStep
<1>6. KeepsIp \subseteq Ids /\ KeepsIp' \subseteq Ids
  BY DEF KeepsIp, Registered
<1>7. WsAt(a)' = {j \in KeepsIp' : workspaces'[j].ip = a}
  BY DEF WsAt
<1> QED BY <1>1, <1>2, <1>3, <1>4, <1>5, <1>6, <1>7 DEF WsAt

\* Steps that lease an address, that free the task's, and that pass one on.
Leases(t) == (Provision(t) \/ ForkSetup(t) \/ WarmSetup(t)) /\ ~Return(t)
Frees(t) == WarmRelease(t) \/ UndoHost(t)
Passes(t) ==
  \/ WarmRegister(t)
  \/ Register(t) /\ Count < MaxWorkspaces
  \/ AddReady(t)
  \/ Claim(t) /\ ready # <<>>

\* All other steps but the one of destroy leave the addresses where they are.
LEMMA QuietAddresses ==
  ASSUME TypeInv, "configure" \notin Faults, NEW t \in Tasks, Step(t),
         ~Leases(t), ~Frees(t), ~Passes(t), ~DestroyNetwork(t), ~Returns(t),
         CountCid(t) => next_vsock_cid < CidLimit
  PROVE  /\ UNCHANGED <<ready, leased>>
         /\ ~WarmRegister(t) /\ (Register(t) => UNCHANGED workspaces)
         /\ HasAddress(t)' <=> HasAddress(t)
         /\ HasAddress(t) => job'[t].ws.ip = job[t].ws.ip
<1>1. /\ pc \in [Tasks -> Labels] /\ job \in [Tasks -> JobRecords] /\ job[t] \in JobRecords
      /\ Shaped(job[t], pc[t])
  BY DEF TypeInv, JobsOK
<1>2. ASSUME NEW label, Goto(t, label) PROVE pc'[t] = label
  BY <1>1, <1>2 DEF Goto
<1>3. ASSUME Return(t) PROVE pc'[t] = "idle"
  BY <1>2, <1>3 DEF Return
<1>4. HasAddress(t)' <=> job'[t].op \in Builders /\ pc'[t] \in HoldsIp
  BY DEF HasAddress, Builds
<1>5. HasAddress(t) <=> job[t].op \in Builders /\ pc[t] \in HoldsIp
  BY DEF HasAddress, Builds
<1>6. HasAddress(t)' => job'[t].op = job[t].op
  BY <1>4, OwnLocals DEF NoJob, HoldsIp, ColdPath
<1> HIDE DEF HasAddress
<1> USE DEF At, HoldsIp, ColdPath, Builders
<1>8. CASE Claim(t) \/ WarmRelease(t) \/ Rekey(t) \/ WarmRegister(t)
  <2>1. UNCHANGED <<ready, leased>> /\ UNCHANGED job /\ ~WarmRegister(t) /\ ~Register(t)
    BY <1>8 DEF Claim, WarmRelease, Rekey, WarmRegister, Register, Passes, Frees, memory, net
  <2> QED BY <1>2, <1>4, <1>5, <1>8, <2>1 DEF Claim, WarmRelease, Rekey, Passes, Frees
<1>9. CASE WarmSetup(t)
  BY <1>9 DEF Returns, Leases
<1>10. CASE Provision(t) \/ ForkSetup(t)
  <2>1. Return(t)
    BY <1>10 DEF Leases
  <2>2. /\ pc'[t] = "idle" /\ pc[t] \in {"provision", "forkSetup"}
        /\ ~Goto(t, "cid")
    BY <1>2, <1>3, <1>10, <2>1 DEF Provision, ForkSetup
  <2>3. UNCHANGED <<ready, leased>> /\ ~WarmRegister(t) /\ ~Register(t)
    BY <1>10, <2>2 DEF Provision, ForkSetup, SetupFails, WarmRegister, Register, memory, net
  <2> QED BY <1>4, <1>5, <2>2, <2>3
<1>11. CASE Clone(t) \/ ForkChecks(t)
  BY <1>2, <1>3, <1>4, <1>5, <1>11 DEF Clone, ForkChecks, WarmRegister, Register, memory, net
<1>12. CASE PopCid(t) \/ CountCid(t)
  <2>1. UNCHANGED <<ready, leased>> /\ ~WarmRegister(t) /\ ~Register(t)
    BY <1>12 DEF PopCid, CountCid, WarmRegister, Register, memory, net
  <2>2. CASE Goto(t, "counter") /\ UNCHANGED job
    BY <1>2, <1>4, <1>5, <1>12, <2>1, <2>2 DEF PopCid, CountCid
  <2>3. ASSUME NEW c, CidKnown(t, c)
        PROVE  /\ HasAddress(t)' <=> HasAddress(t)
               /\ job'[t].ws.ip = job[t].ws.ip
    <3> PICK j \in JobRecords : j = job[t]
      BY <1>1
    <3>1. job'[t].op = j.op /\ job'[t].ws.ip = j.ws.ip
      BY <1>1, <2>3 DEF CidKnown, JobRecords, Drafts
    <3> QED BY <1>2, <1>4, <1>5, <1>12, <2>3, <3>1 DEF PopCid, CountCid, CidKnown
  <2>4. (Goto(t, "counter") /\ UNCHANGED job) \/ \E c : CidKnown(t, c)
    BY <1>12, ConstantsAssumption DEF PopCid, CountCid, TypeInv, CidsOK
  <2> QED BY <2>1, <2>2, <2>3, <2>4
<1>13. CASE Launch(t)
  <2>1. UNCHANGED <<ready, leased>> /\ ~WarmRegister(t) /\ ~Register(t)
    BY <1>13 DEF Launch, WarmRegister, Register, net
  <2>2. /\ \/ pc'[t] = AfterLaunch(job[t].op)
           \/ pc'[t] = "undoCid" /\ job[t].op # "start"
           \/ Return(t) /\ job[t].op = "start"
        /\ Return(t) \/ job'[t].ws.ip = job[t].ws.ip
    <3> PICK j \in JobRecords : j = job[t]
      BY <1>1
    <3> QED BY <1>1, <1>2, <1>13 DEF Launch, JobRecords, Drafts
  <2>3. job[t].op \in Builders => AfterLaunch(job[t].op) \in {"configure", "register", "addReady"}
    BY DEF AfterLaunch
  <2>4. job[t].op \notin Builders => job[t].op = "start"
    BY <1>1, <1>13 DEF Launch, Shaped
  <2>5. CASE job[t].op = "start"
    BY <1>4, <1>5, <1>6, <2>1, <2>5
  <2>6. CASE job[t].op \in Builders
    <3>1. pc'[t] \in {"configure", "register", "addReady", "undoCid"}
      BY <2>2, <2>3, <2>6
    <3>2. job'[t].op = job[t].op
      BY <3>1, OwnLocals
    <3>3. job'[t].ws.ip = job[t].ws.ip
      BY <1>3, <2>2, <3>1
    <3> QED BY <1>4, <1>5, <1>13, <2>1, <2>6, <3>1, <3>2, <3>3 DEF Launch
  <2> QED BY <2>4, <2>5, <2>6
<1>14. CASE Configure(t) \/ Register(t) \/ UndoCid(t) \/ UndoVm(t)
  <2>1. /\ UNCHANGED <<ready, leased>> /\ UNCHANGED job /\ ~WarmRegister(t)
        /\ Register(t) => UNCHANGED workspaces
        /\ pc'[t] \in {"register", "undoCid", "undoVm", "undoHost"}
    BY <1>2, <1>14 DEF Configure, Register, UndoCid, UndoVm, WarmRegister, Passes, memory, net, Fails
  <2> QED BY <1>4, <1>5, <1>14, <2>1 DEF Configure, Register, UndoCid, UndoVm
<1>15. CASE DestroyVm(t) \/ DestroyStorage(t) \/ DestroyCid(t) \/ DestroyEntry(t)
  BY <1>2, <1>4, <1>5, <1>15
  DEF DestroyVm, DestroyStorage, DestroyCid, DestroyEntry, WarmRegister, Register, memory, net
<1>16. CASE StopVm(t) \/ MarkStopped(t) \/ EnsureNetwork(t) \/ MarkRunning(t)
  <2>1. UNCHANGED <<ready, leased>> /\ ~WarmRegister(t) /\ ~Register(t)
    BY <1>16
    DEF StopVm, MarkStopped, EnsureNetwork, MarkRunning, Mark, WarmRegister, Register, memory, net
  <2>2. job[t].op \in {"stop", "start"}
    BY <1>1, <1>16 DEF Shaped, StopVm, MarkStopped, EnsureNetwork, MarkRunning
  <2> QED BY <1>4, <1>5, <1>6, <2>1, <2>2
<1>17. CASE SaveBegin(t) \/ SaveEnd(t)
  BY <1>2, <1>3, <1>4, <1>5, <1>17 DEF SaveBegin, SaveEnd, WarmRegister, Register, memory, net
<1> QED
  BY <1>8, <1>9, <1>10, <1>11, <1>12, <1>13, <1>14, <1>15, <1>16, <1>17
  DEF Step, Frees, Passes

\* A task that is one of the owners is the only one.
LEMMA OnlyTask ==
  ASSUME NEW W, NEW R, NEW T, One(Tagged(W, R, {}, T)), NEW t \in T
  PROVE  W = {} /\ R = {} /\ T = {t}
<1> DEFINE S == Tagged(W, R, {}, T)
<1>1. <<"task", t>> \in S
  BY DEF Tagged
<1>2. \A o \in S : o = <<"task", t>>
  BY <1>1 DEF One
<1>3. \A i \in W : <<"workspace", i>> \in S
  BY DEF Tagged
<1>4. \A j \in R : <<"warm", j>> \in S
  BY DEF Tagged
<1>5. \A u \in T : <<"task", u>> \in S
  BY DEF Tagged
<1> HIDE DEF S
<1>6. W = {} /\ R = {}
  BY <1>2, <1>3, <1>4
<1>7. \A u \in T : u = t
  BY <1>2, <1>5
<1> QED BY <1>6, <1>7

\* A workspace that is one of the owners is the only one.
LEMMA OnlyWorkspace ==
  ASSUME NEW W, NEW R, NEW T, One(Tagged(W, R, {}, T)), NEW i \in W
  PROVE  W = {i} /\ R = {} /\ T = {}
<1> DEFINE S == Tagged(W, R, {}, T)
<1>1. <<"workspace", i>> \in S
  BY DEF Tagged
<1>2. \A o \in S : o = <<"workspace", i>>
  BY <1>1 DEF One
<1>3. \A j \in W : <<"workspace", j>> \in S
  BY DEF Tagged
<1>4. \A j \in R : <<"warm", j>> \in S
  BY DEF Tagged
<1>5. \A u \in T : <<"task", u>> \in S
  BY DEF Tagged
<1> HIDE DEF S
<1>6. R = {} /\ T = {}
  BY <1>2, <1>4, <1>5
<1>7. \A j \in W : j = i
  BY <1>2, <1>3
<1> QED BY <1>6, <1>7

\* Passing an address on keeps that it has one owner.
LEMMA PassingKeepsLeases ==
  ASSUME LeasedOnce, NEW b, NEW o, NEW p, o \in IpOwners(b), UNCHANGED leased,
         \A a \in IPs : /\ a = b => IpOwners(a)' = (IpOwners(a) \ {o}) \cup {p}
                        /\ a # b => IpOwners(a)' = IpOwners(a)
  PROVE  LeasedOnce'
<1>1. ASSUME NEW a \in IPs PROVE One(IpOwners(a)') /\ (IpOwners(a)' # {} <=> a \in leased)
  <2>1. One(IpOwners(a)) /\ (IpOwners(a) # {} <=> a \in leased)
    BY DEF LeasedOnce
  <2>2. CASE a = b
    <3>1. IpOwners(a)' = (IpOwners(a) \ {o}) \cup {p}
      BY <2>2
    <3> QED BY <2>1, <2>2, <3>1 DEF One
  <2>3. CASE a # b
    BY <2>1, <2>3
  <2> QED BY <2>2, <2>3
<1> QED BY <1>1 DEF LeasedOnce, One

\* So does a step that touches none.
LEMMA SameAddressesKeep ==
  ASSUME LeasedOnce, \A a \in IPs : IpOwners(a)' = IpOwners(a), UNCHANGED leased
  PROVE  LeasedOnce'
<1>1. ASSUME NEW a \in IPs PROVE One(IpOwners(a)') /\ (IpOwners(a)' # {} <=> a \in leased)
  BY DEF LeasedOnce
<1> QED BY <1>1 DEF LeasedOnce, One

\* The addresses of a pool that does not change.
LEMMA SameWarmAt ==
  ASSUME NEW a, UNCHANGED ready
  PROVE  WarmAt(a)' = WarmAt(a)
BY DEF WarmAt, Warm

\* A VM joins the pool with its address.
LEMMA WarmAtAdded ==
  ASSUME TypeInv, NEW a, NEW warm \in WarmVm, ready' = Append(ready, warm)
  PROVE  /\ a = warm.ip => WarmAt(a)' = WarmAt(a) \cup {Len(ready) + 1}
         /\ a # warm.ip => WarmAt(a)' = WarmAt(a)
<1> DEFINE n == Len(ready)
<1>1. ready \in Seq(WarmVm) /\ n \in Nat /\ DOMAIN ready = 1..n
  BY DEF TypeInv, PoolOK
<1>2. /\ ready' \in Seq(WarmVm) /\ Len(ready') = n + 1
      /\ \A k \in 1..n : ready'[k] = ready[k]
      /\ ready'[n + 1] = warm
  BY <1>1, AppendProperties
<1>3. DOMAIN ready' = 1..(n + 1)
  BY <1>2
<1>4. WarmAt(a)' = {k \in 1..(n + 1) : ready'[k].ip = a}
  BY <1>3 DEF WarmAt, Warm
<1>5. WarmAt(a) = {k \in 1..n : ready[k].ip = a}
  BY <1>1 DEF WarmAt, Warm
<1> QED BY <1>1, <1>2, <1>4, <1>5

\* The steps that leave the addresses where they are.
LEMMA QuietKeepsLeases ==
  ASSUME TypeInv, OneJobEach, JobsFit, LeasedOnce, "configure" \notin Faults,
         NEW t \in Tasks, Step(t),
         ~Leases(t), ~Frees(t), ~Passes(t), ~DestroyNetwork(t), ~Returns(t),
         CountCid(t) => next_vsock_cid < CidLimit
  PROVE  LeasedOnce'
<1>1. /\ UNCHANGED <<ready, leased>>
      /\ ~WarmRegister(t) /\ (Register(t) => UNCHANGED workspaces)
      /\ HasAddress(t)' <=> HasAddress(t)
      /\ HasAddress(t) => job'[t].ws.ip = job[t].ws.ip
  BY QuietAddresses
<1>2. ASSUME NEW a \in IPs PROVE IpOwners(a)' = IpOwners(a)
  <2>1. WsAt(a)' = WsAt(a)
    BY <1>1, WsAtStays
  <2>2. WarmAt(a)' = WarmAt(a)
    BY <1>1, SameWarmAt
  <2>3. TaskAt(a)' = TaskAt(a)
    BY <1>1, TaskAtStep
  <2> QED BY <2>1, <2>2, <2>3, AddressesTagged
<1> QED BY <1>1, <1>2, SameAddressesKeep

\* setup_workspace leases an address nobody has to the task that asks.
LEMMA LeaseKeepsLeases ==
  ASSUME TypeInv, OneJobEach, JobsFit, LeasedOnce, NEW t \in Tasks, Leases(t)
  PROVE  LeasedOnce'
<1>1. PICK b \in IPs \ leased :
        /\ leased' = leased \cup {b} /\ job'[t].ws.ip = b
        /\ pc[t] \in {"provision", "forkSetup", "warmSetup"} /\ pc'[t] \in {"cid", "rekey"}
        /\ UNCHANGED <<workspaces, ready>>
  <2>1. job[t] \in JobRecords /\ job \in [Tasks -> JobRecords] /\ pc \in [Tasks -> Labels]
    BY DEF TypeInv, JobsOK
  <2>2. CASE Provision(t)
    <3>1. PICK b \in IPs :
            /\ SetupNetwork(job[t].id, b) /\ Goto(t, "cid")
            /\ job' = [job EXCEPT ![t].ws.ds = job[t].id, ![t].ws.ip = b]
      BY <2>2 DEF Leases, Provision
    <3> QED BY <2>1, <2>2, <3>1 DEF Provision, SetupNetwork, Goto, At, JobRecords, Drafts, memory
  <2>3. CASE ForkSetup(t)
    <3>1. PICK b \in IPs :
            /\ SetupNetwork(job[t].id, b) /\ Goto(t, "cid")
            /\ job' = [job EXCEPT ![t].ws.ip = b]
      BY <2>3 DEF Leases, ForkSetup
    <3> QED BY <2>1, <2>3, <3>1 DEF ForkSetup, SetupNetwork, Goto, At, JobRecords, Drafts, memory
  <2>4. CASE WarmSetup(t)
    <3>1. PICK b \in IPs :
            /\ SetupNetwork(job[t].id, b) /\ Goto(t, "rekey") /\ UNCHANGED ready
            /\ job' = [job EXCEPT ![t].ws.ip = b]
      BY <2>4 DEF Leases, WarmSetup
    <3> QED BY <2>1, <2>4, <3>1 DEF WarmSetup, SetupNetwork, Goto, At, JobRecords, Drafts
  <2> QED BY <2>2, <2>3, <2>4 DEF Leases
<1>2. Step(t)
  BY DEF Leases, Step
<1>3. ~HasAddress(t) /\ HasAddress(t)'
  <2>1. job[t].op \in Builders
    BY <1>1 DEF TypeInv, JobsOK, Shaped, Builders, WarmPath
  <2>2. job'[t].op = job[t].op
    BY <1>1, <1>2, OwnLocals
  <2> QED BY <1>1, <2>1, <2>2 DEF HasAddress, Builds, HoldsIp, ColdPath
<1>4. IpOwners(b) = {}
  BY <1>1 DEF LeasedOnce
<1>5. WsAt(b) = {} /\ WarmAt(b) = {} /\ TaskAt(b) = {}
  <2>1. Tagged(WsAt(b), WarmAt(b), {}, TaskAt(b)) = {}
    BY <1>4, AddressesTagged
  <2> QED BY <2>1 DEF Tagged
<1>6. ~WarmRegister(t) /\ (Register(t) => UNCHANGED workspaces) /\ ~DestroyNetwork(t)
  BY <1>1 DEF WarmRegister, Register, DestroyNetwork, At
<1>7. ASSUME NEW a \in IPs
      PROVE  /\ a = b => IpOwners(a)' = {<<"task", t>>}
             /\ a # b => IpOwners(a)' = IpOwners(a)
  <2>1. WsAt(a)' = WsAt(a) /\ WarmAt(a)' = WarmAt(a)
    BY <1>1, <1>2, <1>6, WsAtStays, SameWarmAt
  <2> HIDE DEF HasAddress
  <2>2. CASE a = b
    <3>1. TaskAt(a)' = TaskAt(a) \cup {t}
      BY <1>1, <1>2, <1>3, <2>2, TaskAtStep
    <3>2. IpOwners(a)' = Tagged({}, {}, {}, {t})
      BY <1>5, <2>1, <2>2, <3>1, AddressesTagged
    <3> QED BY <2>2, <3>2, OneOfAKind
  <2>3. CASE a # b
    <3>1. TaskAt(a)' = TaskAt(a)
      BY <1>1, <1>2, <1>3, <2>3, TaskAtStep
    <3> QED BY <2>1, <2>3, <3>1, AddressesTagged
  <2> QED BY <2>2, <2>3
<1>8. ASSUME NEW a \in IPs PROVE One(IpOwners(a)') /\ (IpOwners(a)' # {} <=> a \in leased')
  <2>1. leased' = leased \cup {b}
    BY <1>1
  <2>2. CASE a = b
    <3>1. IpOwners(a)' = {<<"task", t>>}
      BY <1>7, <2>2
    <3> QED BY <2>1, <2>2, <3>1 DEF One
  <2>3. CASE a # b
    <3>1. IpOwners(a)' = IpOwners(a)
      BY <1>7, <2>3
    <3> QED BY <2>1, <2>3, <3>1 DEF LeasedOnce
  <2> QED BY <2>2, <2>3
<1> QED BY <1>8 DEF LeasedOnce, One

\* A rollback, or the claim of a warm VM, releases the address of its task, which
\* was the only one to have it.
LEMMA FreeKeepsLeases ==
  ASSUME TypeInv, OneJobEach, JobsFit, LeasedOnce, NEW t \in Tasks, Frees(t)
  PROVE  LeasedOnce'
<1> DEFINE b == job[t].ws.ip
<1>1. /\ leased' = leased \ {b}
      /\ pc[t] \in {"warmRelease", "undoHost"} /\ pc'[t] \in {"warmSetup", "idle"}
      /\ UNCHANGED <<workspaces, ready>>
  BY DEF Frees, WarmRelease, UndoHost, ReleaseNetwork, Return, At, Goto, memory, TypeInv, JobsOK
<1>2. Step(t)
  BY DEF Frees, Step
<1>3. HasAddress(t) /\ ~HasAddress(t)'
  <2>1. job[t].op \in Builders
    BY <1>1 DEF TypeInv, JobsOK, Shaped, Builders, WarmPath
  <2> QED BY <1>1, <2>1 DEF HasAddress, Builds, HoldsIp, ColdPath
<1>4. t \in TaskAt(b)
  BY <1>3 DEF TaskAt
<1>5. ~WarmRegister(t) /\ (Register(t) => UNCHANGED workspaces) /\ ~DestroyNetwork(t)
  BY <1>1 DEF WarmRegister, Register, DestroyNetwork, At
<1>6. ASSUME NEW a \in IPs PROVE One(IpOwners(a)') /\ (IpOwners(a)' # {} <=> a \in leased')
  <2>1. WsAt(a)' = WsAt(a) /\ WarmAt(a)' = WarmAt(a)
    BY <1>1, <1>2, <1>5, WsAtStays, SameWarmAt
  <2>2. One(IpOwners(a)) /\ (IpOwners(a) # {} <=> a \in leased)
    BY DEF LeasedOnce
  <2>3. /\ TaskAt(a)' = TaskAt(a) \ {t}
        /\ a # b => TaskAt(a)' = TaskAt(a)
    BY <1>2, <1>3, TaskAtStep
  <2>4. CASE a = b
    <3>1. WsAt(a) = {} /\ WarmAt(a) = {} /\ TaskAt(a) = {t}
      BY <1>4, <2>2, <2>4, AddressesTagged, OnlyTask
    <3>2. IpOwners(a)' = Tagged({}, {}, {}, {})
      BY <2>1, <2>3, <3>1, AddressesTagged
    <3>3. IpOwners(a)' = {}
      BY <3>2 DEF Tagged
    <3> QED BY <1>1, <2>4, <3>3 DEF One
  <2>5. CASE a # b
    <3>1. IpOwners(a)' = IpOwners(a)
      BY <2>1, <2>3, <2>5, AddressesTagged
    <3> QED BY <1>1, <2>2, <2>5, <3>1
  <2> QED BY <2>4, <2>5
<1> QED BY <1>6 DEF LeasedOnce, One

\* destroy releases the address of its workspace.
LEMMA DestroyKeepsLeases ==
  ASSUME TypeInv, OneJobEach, JobsFit, LeasedOnce, NEW t \in Tasks, DestroyNetwork(t)
  PROVE  LeasedOnce'
<1> DEFINE b == job[t].ws.ip
           i == job[t].id
<1>1. /\ leased' = leased \ {b}
      /\ pc[t] = "endNetwork" /\ pc'[t] = "endStorage"
      /\ UNCHANGED <<workspaces, ready>>
  BY DEF DestroyNetwork, ReleaseNetwork, At, Goto, memory, TypeInv, JobsOK
<1>2. Step(t)
  BY DEF Step
<1>3. ~HasAddress(t) /\ ~HasAddress(t)'
  BY <1>1 DEF HasAddress, Builds, HoldsIp, ColdPath
<1>6. ASSUME NEW a \in IPs PROVE One(IpOwners(a)') /\ (IpOwners(a)' # {} <=> a \in leased')
  <2>1. WarmAt(a)' = WarmAt(a)
    BY <1>1, SameWarmAt
  <2>2. One(IpOwners(a)) /\ (IpOwners(a) # {} <=> a \in leased)
    BY DEF LeasedOnce
  <2>3. TaskAt(a)' = TaskAt(a)
    BY <1>2, <1>3, TaskAtStep
  <2>4. /\ a = b => WsAt(a)' = WsAt(a) \ {i} /\ i \in WsAt(a)
        /\ a # b => WsAt(a)' = WsAt(a)
    BY WsAtLoses
  <2>5. CASE a = b
    <3>1. WsAt(a) = {i} /\ WarmAt(a) = {} /\ TaskAt(a) = {}
      BY <2>2, <2>4, <2>5, AddressesTagged, OnlyWorkspace
    <3>2. IpOwners(a)' = Tagged({}, {}, {}, {})
      BY <2>1, <2>3, <2>4, <2>5, <3>1, AddressesTagged
    <3>3. IpOwners(a)' = {}
      BY <3>2 DEF Tagged
    <3> QED BY <1>1, <2>5, <3>3 DEF One
  <2>6. CASE a # b
    <3>1. IpOwners(a)' = IpOwners(a)
      BY <2>1, <2>3, <2>4, <2>6, AddressesTagged
    <3> QED BY <1>1, <2>2, <2>6, <3>1
  <2> QED BY <2>5, <2>6
<1> QED BY <1>6 DEF LeasedOnce, One

\* create and fork give their address to the workspace they register.
LEMMA RegisterKeepsLeases ==
  ASSUME TypeInv, OneJobEach, JobsFit, LeasedOnce, NEW t \in Tasks,
         WarmRegister(t) \/ (Register(t) /\ Count < MaxWorkspaces)
  PROVE  LeasedOnce'
<1> DEFINE i == job[t].id
           b == job[t].ws.ip
<1>1. /\ Step(t) /\ pc[t] \in {"warmRegister", "register"} /\ pc'[t] = "save"
      /\ UNCHANGED <<ready, leased>>
  BY DEF Step, WarmRegister, Register, At, Goto, TypeInv, JobsOK, net
<1>2. HasAddress(t) /\ ~HasAddress(t)'
  <2>1. job[t].op \in Builders
    BY <1>1 DEF TypeInv, JobsOK, Shaped, WarmPath, Builders
  <2> QED BY <1>1, <2>1 DEF HasAddress, Builds, HoldsIp, ColdPath
<1>3. t \in TaskAt(b)
  BY <1>2 DEF TaskAt
<1>4. ASSUME NEW a \in IPs
      PROVE  /\ a = b => IpOwners(a)' = (IpOwners(a) \ {<<"task", t>>}) \cup {<<"workspace", i>>}
             /\ a # b => IpOwners(a)' = IpOwners(a)
  <2>1. WarmAt(a)' = WarmAt(a)
    BY <1>1, SameWarmAt
  <2>2. /\ a = b => WsAt(a)' = WsAt(a) \cup {i}
        /\ a # b => WsAt(a)' = WsAt(a)
    BY <1>1, WsAtGains
  <2>3. /\ TaskAt(a)' = TaskAt(a) \ {t}
        /\ a # b => TaskAt(a)' = TaskAt(a)
    BY <1>1, <1>2, TaskAtStep
  <2> HIDE DEF b, i
  <2>4. CASE a = b
    <3>1. IpOwners(a)' = Tagged(WsAt(a) \cup {i}, WarmAt(a), {}, TaskAt(a) \ {t})
      BY <2>1, <2>2, <2>3, <2>4, AddressesTagged
    <3>2. Tagged(WsAt(a) \cup {i}, WarmAt(a), {}, TaskAt(a) \ {t})
          = (Tagged(WsAt(a), WarmAt(a), {}, TaskAt(a)) \ {<<"task", t>>}) \cup {<<"workspace", i>>}
      BY DEF Tagged
    <3>3. IpOwners(a) = Tagged(WsAt(a), WarmAt(a), {}, TaskAt(a))
      BY AddressesTagged
    <3> QED BY <2>4, <3>1, <3>2, <3>3
  <2>5. CASE a # b
    BY <2>1, <2>2, <2>3, <2>5, AddressesTagged
  <2> QED BY <2>4, <2>5
<1>5. <<"task", t>> \in IpOwners(b)
  BY <1>3, AddressesTagged DEF Tagged
<1> QED BY <1>1, <1>4, <1>5, PassingKeepsLeases

\* replenish_pool gives its address to the warm VM.
LEMMA ReadyKeepsLeases ==
  ASSUME TypeInv, OneJobEach, JobsFit, LeasedOnce, NEW t \in Tasks, AddReady(t)
  PROVE  LeasedOnce'
<1> DEFINE n == Len(ready) + 1
           b == job[t].ws.ip
           w == [id |-> job[t].id, cid |-> job[t].ws.cid, ip |-> b]
<1>1. /\ Step(t) /\ pc[t] = "addReady" /\ pc'[t] = "idle"
      /\ UNCHANGED <<workspaces, leased>> /\ ready' = Append(ready, w)
  BY DEF Step, AddReady, Return, At, Goto, TypeInv, JobsOK, net
<1>2. HasAddress(t) /\ ~HasAddress(t)'
  <2>1. job[t].op \in Builders
    BY <1>1 DEF TypeInv, JobsOK, Shaped, Builders
  <2> QED BY <1>1, <2>1 DEF HasAddress, Builds, HoldsIp, ColdPath
<1>3. t \in TaskAt(b)
  BY <1>2 DEF TaskAt
<1>4. w \in WarmVm /\ w.ip = b
  BY <1>1 DEF TypeInv, JobsOK, Shaped, Working, Labels, WithIp, WithCid, HoldsCid, ColdPath, WarmVm
<1>5. ASSUME NEW a \in IPs
      PROVE  /\ a = b => IpOwners(a)' = (IpOwners(a) \ {<<"task", t>>}) \cup {<<"warm", n>>}
             /\ a # b => IpOwners(a)' = IpOwners(a)
  <2> HIDE DEF w
  <2>1. /\ a = b => WarmAt(a)' = WarmAt(a) \cup {n}
        /\ a # b => WarmAt(a)' = WarmAt(a)
    BY <1>1, <1>4, WarmAtAdded
  <2>2. WsAt(a)' = WsAt(a)
    BY <1>1, WsAtStays DEF WarmRegister, DestroyNetwork, At
  <2>3. /\ TaskAt(a)' = TaskAt(a) \ {t}
        /\ a # b => TaskAt(a)' = TaskAt(a)
    BY <1>1, <1>2, TaskAtStep
  <2> HIDE DEF n, b
  <2>4. CASE a = b
    <3>1. IpOwners(a)' = Tagged(WsAt(a), WarmAt(a) \cup {n}, {}, TaskAt(a) \ {t})
      BY <2>1, <2>2, <2>3, <2>4, AddressesTagged
    <3>2. Tagged(WsAt(a), WarmAt(a) \cup {n}, {}, TaskAt(a) \ {t})
          = (Tagged(WsAt(a), WarmAt(a), {}, TaskAt(a)) \ {<<"task", t>>}) \cup {<<"warm", n>>}
      BY DEF Tagged
    <3>3. IpOwners(a) = Tagged(WsAt(a), WarmAt(a), {}, TaskAt(a))
      BY AddressesTagged
    <3> QED BY <2>4, <3>1, <3>2, <3>3
  <2>5. CASE a # b
    BY <2>1, <2>2, <2>3, <2>5, AddressesTagged
  <2> QED BY <2>4, <2>5
<1>6. <<"task", t>> \in IpOwners(b)
  BY <1>3, AddressesTagged DEF Tagged
<1> QED BY <1>1, <1>5, <1>6, PassingKeepsLeases

\* The first VM of the pool takes its address to the task.
LEMMA ClaimKeepsLeases ==
  ASSUME TypeInv, OneJobEach, JobsFit, LeasedOnce, NEW t \in Tasks, Claim(t), ready # <<>>
  PROVE  LeasedOnce'
<1> DEFINE n == Len(ready)
           b == Head(ready).ip
<1>1. /\ Step(t) /\ pc[t] = "claim" /\ pc'[t] = "warmRelease" /\ job'[t].ws.ip = b
      /\ ready' = Tail(ready)
      /\ UNCHANGED <<workspaces, leased>>
  <2>1. UNCHANGED <<workspaces, leased>> /\ Step(t)
    BY DEF Step, Claim, net
  <2> QED BY <2>1, ClaimTakes DEF Goto, TypeInv, JobsOK
<1>11. Step(t) /\ job'[t].ws.ip = b /\ UNCHANGED leased
  BY <1>1
<1>2. job[t].op \in Builders /\ job'[t].op = job[t].op
  BY <1>1, OwnLocals DEF TypeInv, JobsOK, Shaped, Builders
<1>3. HasAddress(t)' /\ ~HasAddress(t)
  BY <1>1, <1>2 DEF HasAddress, Builds, HoldsIp, ColdPath
<1>4. ready \in Seq(WarmVm) /\ n \in Nat \ {0} /\ DOMAIN ready = 1..n /\ Head(ready) = ready[1]
  BY DEF TypeInv, PoolOK
<1>5. DOMAIN ready' = 1..(n - 1) /\ \A k \in 1..(n - 1) : ready'[k] = ready[k + 1]
  BY <1>1, <1>4, HeadTailProperties
<1>7. ASSUME NEW a \in IPs
      PROVE  One(IpOwners(a)') /\ (IpOwners(a)' # {} <=> IpOwners(a) # {})
  <2>1. WsAt(a)' = WsAt(a)
    BY <1>1, WsAtStays DEF Claim, WarmRegister, Register, DestroyNetwork, At
  <2>2. WarmAt(a)' = {k \in 1..(n - 1) : ready[k + 1].ip = a}
    BY <1>5 DEF WarmAt, Warm
  <2>3. WarmAt(a) = {k \in 1..n : ready[k].ip = a}
    BY <1>4 DEF WarmAt, Warm
  <2>4. \A k \in WarmAt(a)' : k + 1 \in WarmAt(a) /\ k + 1 # 1 /\ k \in Int
    BY <1>4, <2>2, <2>3
  <2>5. \A k \in WarmAt(a) : k # 1 => k - 1 \in WarmAt(a)'
    BY <1>4, <2>2, <2>3
  <2>6. 1 \in WarmAt(a) <=> a = b
    BY <1>4, <2>3
  <2>8. One(IpOwners(a))
    BY DEF LeasedOnce
  <2> HIDE DEF HasAddress, n, b
  <2>9. /\ a = b => TaskAt(a)' = TaskAt(a) \cup {t}
        /\ a # b => TaskAt(a)' = TaskAt(a)
    BY <1>11, <1>3, TaskAtStep
  <2> DEFINE before == IpOwners(a)
             after == IpOwners(a)'
  <2>10. /\ before = Tagged(WsAt(a), WarmAt(a), {}, TaskAt(a))
         /\ after = Tagged(WsAt(a), WarmAt(a)', {}, TaskAt(a)')
    BY <2>1, AddressesTagged
  <2>11. CASE a = b
    <3>1. WsAt(a) = {} /\ TaskAt(a) = {} /\ WarmAt(a) = {1}
      BY <2>6, <2>8, <2>10, <2>11, TheOnlyOne
    <3>2. WarmAt(a)' = {} /\ TaskAt(a)' = {t}
      BY <2>4, <2>9, <2>11, <3>1
    <3>3. after = {<<"task", t>>}
      BY <2>10, <3>1, <3>2, OneOfAKind
    <3>4. before = {<<"warm", 1>>}
      BY <2>10, <3>1, OneOfAKind
    <3> QED BY <3>3, <3>4 DEF One
  <2>12. CASE a # b
    <3>1. 1 \notin WarmAt(a) /\ TaskAt(a)' = TaskAt(a)
      BY <2>6, <2>9, <2>12
    <3>2. CASE WarmAt(a) = {}
      BY <2>4, <2>8, <2>10, <3>1, <3>2
    <3>3. CASE WarmAt(a) # {}
      <4> PICK k \in WarmAt(a) : TRUE
        BY <3>3
      <4>1. WsAt(a) = {} /\ TaskAt(a) = {} /\ WarmAt(a) = {k}
        BY <2>8, <2>10, TheOnlyOne
      <4>2. k \in Int
        BY <2>3, <1>4
      <4>3. WarmAt(a)' = {k - 1}
        BY <2>4, <2>5, <3>1, <4>1, <4>2
      <4>4. after = {<<"warm", k - 1>>} /\ before = {<<"warm", k>>}
        BY <2>10, <3>1, <4>1, <4>3, OneOfAKind
      <4> QED BY <4>4 DEF One
    <3> QED BY <3>2, <3>3
  <2> QED BY <2>11, <2>12
<1>8. ASSUME NEW a \in IPs PROVE One(IpOwners(a)') /\ (IpOwners(a)' # {} <=> a \in leased')
  BY <1>7, <1>11 DEF LeasedOnce
<1> QED BY <1>8 DEF LeasedOnce, One

\* With the pool a claimed VM always finds an address and a device; without it
\* no task claims one.
ClaimsSucceed ==
  IF PoolEnabled THEN {"network", "tap"} \cap Faults = {} /\ leased # IPs ELSE NoClaim

\* So no VM goes back to the pool.
LEMMA NoneReturned ==
  ASSUME TypeInv, ClaimsSucceed, NEW t \in Tasks
  PROVE  ~Returns(t)
<1> SUFFICES ASSUME WarmSetup(t), Return(t) PROVE FALSE
  BY DEF Returns
<1>1. pc[t] = "warmSetup" /\ pc'[t] = "idle" /\ pc \in [Tasks -> Labels]
  BY DEF WarmSetup, Return, Goto, At, TypeInv, JobsOK
<1>2. SetupFails(job[t].id)
  BY <1>1 DEF WarmSetup, Goto
<1>3. CASE PoolEnabled
  BY <1>2, <1>3 DEF SetupFails, ClaimsSucceed, Fails
<1>4. CASE ~PoolEnabled
  BY <1>1, <1>4 DEF ClaimsSucceed, NoClaim, ClaimPath
<1> QED BY <1>3, <1>4

\* Every step keeps the leases and their owners in line.
LEMMA StepKeepsLeases ==
  ASSUME TypeInv, OneJobEach, JobsFit, LeasedOnce, "configure" \notin Faults,
         next_vsock_cid < CidLimit, ClaimsSucceed, NEW t \in Tasks, Step(t)
  PROVE  LeasedOnce'
<1>1. CASE Leases(t) \/ Frees(t) \/ DestroyNetwork(t)
  BY <1>1, LeaseKeepsLeases, FreeKeepsLeases, DestroyKeepsLeases
<1>2. CASE Passes(t)
  BY <1>2, RegisterKeepsLeases, ReadyKeepsLeases, ClaimKeepsLeases DEF Passes
<1> QED BY <1>1, <1>2, NoneReturned, QuietKeepsLeases

\* A request that begins has no address yet and takes none from a workspace.
LEMMA CallKeepsLeases ==
  ASSUME TypeInv, LeasedOnce,
         \/ \E t \in Requests : Arrive(t)
         \/ SaveTimer
         \/ \E i \in Ids : ReplenishPool(i)
  PROVE  LeasedOnce'
<1>1. pc \in [Tasks -> Labels] /\ job \in [Tasks -> JobRecords]
  BY DEF TypeInv, JobsOK
<1> DEFINE labels == {"endStorage", "endCid", "endEntry"}
<1>2. ASSUME NEW t \in Tasks, NEW label, NEW op, NEW i, NEW src, NEW ws,
             Call(t, label, op, i, src, ws), UNCHANGED <<memory, net>>,
             label \notin HoldsIp \cup labels
      PROVE  LeasedOnce'
  <2>1. /\ pc'[t] = label /\ pc[t] = "idle"
        /\ \A u \in Tasks : u # t => pc'[u] = pc[u] /\ job'[u] = job[u]
    BY <1>1, <1>2 DEF Call, Goto, At
  <2>2. /\ \A u \in Tasks : HasAddress(u)' <=> HasAddress(u)
        /\ \A u \in Tasks : HasAddress(u) => job'[u] = job[u]
    BY <1>2, <2>1 DEF HasAddress, Builds, HoldsIp, ColdPath
  <2>3. \A j \in Ids : TornDown(j, labels)' <=> TornDown(j, labels)
    BY <1>2, <2>1 DEF TornDown
  <2>4. KeepsIp' = KeepsIp /\ UNCHANGED <<workspaces, ready, leased>>
    BY <1>2, <2>3 DEF KeepsIp, Registered, memory, net
  <2>5. ASSUME NEW a PROVE IpOwners(a)' = IpOwners(a)
    <3>1. WsAt(a)' = WsAt(a) /\ WarmAt(a)' = WarmAt(a)
      BY <2>4, SameWarmAt DEF WsAt
    <3>2. TaskAt(a)' = {u \in Tasks : HasAddress(u)' /\ job'[u].ws.ip = a}
      BY DEF TaskAt
    <3>3. TaskAt(a) = {u \in Tasks : HasAddress(u) /\ job[u].ws.ip = a}
      BY DEF TaskAt
    <3> HIDE DEF HasAddress
    <3>4. TaskAt(a)' = TaskAt(a)
      BY <2>2, <3>2, <3>3
    <3> QED BY <3>1, <3>4, AddressesTagged
  <2> QED BY <2>4, <2>5, SameAddressesKeep
<1> USE DEF HoldsIp, ColdPath
<1>3. ASSUME NEW t \in Requests, Arrive(t) PROVE LeasedOnce'
  <2>1. t \in Tasks
    BY DEF Tasks
  <2>2. ASSUME NEW i \in Ids, NEW n \in Names \cup {i}, NEW default \in BOOLEAN,
               Create(t, i, n, default)
        PROVE  LeasedOnce'
    BY <1>2, <2>1, <2>2 DEF Create
  <2>3. ASSUME NEW i \in Ids, NEW n \in Names \cup {i}, NEW source \in Ids, Fork(t, source, i, n)
        PROVE  LeasedOnce'
    BY <1>2, <2>1, <2>3 DEF Fork
  <2>4. ASSUME NEW i \in Ids, Destroy(t, i) \/ Stop(t, i) \/ Start(t, i) PROVE LeasedOnce'
    BY <1>2, <2>1, <2>4 DEF Destroy, Stop, Start
  <2> QED BY <1>3, <2>2, <2>3, <2>4 DEF Arrive
<1>4. CASE SaveTimer
  BY <1>2, <1>4 DEF SaveTimer, Tasks
<1>5. ASSUME NEW i \in Ids, ReplenishPool(i) PROVE LeasedOnce'
  BY <1>2, <1>5 DEF ReplenishPool, Tasks
<1> QED BY <1>3, <1>4, <1>5

\* No address is leased.
LEMMA InitLeased ==
  ASSUME Init
  PROVE  LeasedOnce
<1>1. ASSUME NEW a \in IPs PROVE One(IpOwners(a)) /\ (IpOwners(a) # {} <=> a \in leased)
  <2>1. WsAt(a) = {} /\ WarmAt(a) = {}
    BY DEF Init, WsAt, WarmAt, KeepsIp, Registered, Warm
  <2>2. TaskAt(a) = {}
    BY DEF Init, TaskAt, HasAddress, Builds, HoldsIp, ColdPath
  <2>3. IpOwners(a) = {} /\ leased = {}
    BY <2>1, <2>2, AddressesTagged DEF Tagged, Init
  <2> QED BY <2>3 DEF One
<1> QED BY <1>1 DEF LeasedOnce

\* LeasedOnce is inductive.
LEMMA NextKeepsLeases ==
  ASSUME "crash" \notin Faults, "configure" \notin Faults, next_vsock_cid < CidLimit, ClaimsSucceed,
         TypeInv, OneJobEach, JobsFit, LeasedOnce, [Next]_vars
  PROVE  LeasedOnce'
<1>1. ASSUME NEW t \in Tasks, Step(t) PROVE LeasedOnce'
  BY <1>1, StepKeepsLeases
<1>2. CASE \/ \E t \in Requests : Arrive(t)
           \/ SaveTimer
           \/ \E i \in Ids : ReplenishPool(i)
  BY <1>2, CallKeepsLeases
<1>3. ASSUME UNCHANGED <<memory, net, pc, job>> PROVE LeasedOnce'
  <2>1. UNCHANGED <<workspaces, ready, leased, pc, job>>
    BY <1>3 DEF memory, net
  <2>2. \A a : IpOwners(a)' = IpOwners(a)
    BY <2>1 DEF IpOwners, KeepsIp, Registered, TornDown, Warm, Builds
  <2> QED BY <2>1, <2>2, SameAddressesKeep
<1>4. ASSUME NEW p \in Ids, VmDies(p) PROVE LeasedOnce'
  BY <1>3, <1>4 DEF VmDies
<1>5. CASE UNCHANGED vars
  BY <1>3, <1>5 DEF vars
<1>6. ~Restart
  BY DEF Restart, Fails
<1> QED BY <1>1, <1>2, <1>4, <1>5, <1>6 DEF Next

\* While the calls on one workspace follow one another, the daemon neither dies
\* nor loses a guest agent and the CID counter is not used up: an address is
\* leased exactly when a workspace, a warm VM or a task has it, and one of them
\* only.  With the warm pool, provided the claim of a VM finds a free address
\* and a device for it: a VM that goes back to the pool has lost its address.
THEOREM AddressTheorem ==
  ASSUME OneCallAtATime, {"crash", "configure"} \cap Faults = {},
         PoolEnabled => {"network", "tap"} \cap Faults = {}
  PROVE  Spec /\ [](next_vsock_cid < CidLimit) /\ [](PoolEnabled => leased # IPs)
           => []IpsOwnedOnce
<1> DEFINE NoPool == ~PoolEnabled => QuotaInv
           Inv == TypeInv /\ CountedInv /\ OneJobEach /\ JobsFit /\ OwnedOnce /\ LeasedOnce /\ NoPool
           Counting == next_vsock_cid < CidLimit
           Room == PoolEnabled => leased # IPs
<1>1. Init => Inv
  BY InitTyped, InitCounted, InitOwned, InitLeased, InitEstablishesInv
<1>2. Inv /\ Counting /\ Room /\ [Next]_vars => Inv'
  <2> SUFFICES ASSUME Inv, Counting, Room, [Next]_vars PROVE Inv'
    OBVIOUS
  <2>1. TypeInv' /\ CountedInv' /\ OneJobEach' /\ JobsFit' /\ OwnedOnce'
    BY NextTyped, NextKeepsCounted, NextKeepsOwners
  <2>2. ClaimsSucceed
    BY DEF ClaimsSucceed, QuotaInv
  <2>3. LeasedOnce'
    BY <2>2, NextKeepsLeases
  <2>4. NoPool'
    BY NextKeepsInv
  <2> QED BY <2>1, <2>3, <2>4
<1>3. Inv => IpsOwnedOnce
  <2> SUFFICES ASSUME Inv PROVE IpsOwnedOnce
    OBVIOUS
  <2>1. leased \subseteq IPs
    BY DEF TypeInv, HostOK
  <2> QED BY <2>1 DEF LeasedOnce, One, IpsOwnedOnce, IpExclusive, IpsAccountedFor
<1> QED BY <1>1, <1>2, <1>3, PTL DEF Spec


-----------------------------------------------------------------------------
(* Ids *)

\* An id names an entry or its disk, a warm VM, or what a request builds.
WarmIds == {ready[k].id : k \in Warm}
EntryUses(i, d) == i \in Registered /\ d \in {i, workspaces[i].ds}
TaskUses(t, d) == Builds(t, Working) /\ d \in {job[t].id, job[t].ws.ds}

\* It names one of them only.
Apart ==
  /\ \A k, l \in Warm : ready[k].id = ready[l].id => k = l
  /\ \A d \in Ids :
       /\ \A i, j \in Ids : EntryUses(i, d) /\ EntryUses(j, d) => i = j
       /\ \A t, u \in Tasks : TaskUses(t, d) /\ TaskUses(u, d) => t = u
       /\ \A i \in Ids, t \in Tasks : ~(EntryUses(i, d) /\ TaskUses(t, d))
       /\ d \in WarmIds =>
            (\A i \in Ids : ~EntryUses(i, d)) /\ (\A t \in Tasks : ~TaskUses(t, d))

\* The copy of an entry that a request works with is right about its disk, its
\* CID and, until the VM is ended or started, its state.
Serves(t) == job[t].op \in {"start", "stop", "destroy"} /\ pc[t] \in Working
CopyFits(t) ==
  LET w == workspaces[job[t].id] IN
  /\ w # None /\ w.ds = job[t].ws.ds /\ w.cid = job[t].ws.cid
  /\ pc[t] = "endVm" => w.state = job[t].ws.state
  /\ pc[t] \in {"ensureNetwork", "launch"} => w.state = "Stopped"
  /\ pc[t] = "markRunning" => job[t].ws.pid = job[t].id
CopiesFit == \A t \in Tasks : Serves(t) => CopyFits(t)

-----------------------------------------------------------------------------
(* VMs *)

\* The handle of j is that of the process launched under p, on the disk ds and
\* with the CID c.
Runs(j, p, ds, c) == vms[j] = p /\ qemu[p] # None /\ qemu[p].ds = ds /\ qemu[p].cid = c

\* Where a request has ended the VM of a workspace whose entry says Running.
Halting == {"markStopped", "endNetwork", "endStorage", "endCid", "endEntry"}
AtWork(i, labels) == \E t \in Tasks : job[t].id = i /\ pc[t] \in labels

\* The VM of a registered workspace.
EntryFits(i) ==
  LET w == workspaces[i] IN
  IF AtWork(i, Halting) THEN vms[i] = None
  ELSE IF AtWork(i, {"markRunning"}) THEN Runs(i, i, w.ds, w.cid)
  ELSE IF w.state = "Running" THEN w.pid \in {i, w.ds} /\ Runs(i, w.pid, w.ds, w.cid)
  ELSE vms[i] = None

\* The VM of a request that builds a workspace, or makes one of a warm VM.
BootFits(label, i, ws) ==
  CASE label \in {"configure", "register", "addReady"} -> ws.pid = i /\ Runs(i, i, i, ws.cid)
    [] label \in {"undoCid", "undoVm"} -> vms[i] = None \/ Runs(i, i, i, ws.cid)
    [] OTHER -> vms[i] = None
ClaimFits(label, i, src, ws) ==
  /\ ws.ds = src /\ ws.pid = src /\ src # i
  /\ IF label = "warmRegister"
       THEN Runs(i, src, src, ws.cid) /\ vms[src] = None
       ELSE Runs(src, src, src, ws.cid) /\ vms[i] = None
TaskFits(t) ==
  LET i == job[t].id  src == job[t].src  ws == job[t].ws IN
  /\ ws.state = "Running"
  /\ IF pc[t] \in WarmPath
       THEN ClaimFits(pc[t], i, src, ws)
       ELSE ws.ds \in {i, None} /\ BootFits(pc[t], i, ws)

EntriesFit == \A i \in Registered : EntryFits(i)
WarmFit == \A k \in Warm : Runs(ready[k].id, ready[k].id, ready[k].id, ready[k].cid)
TasksFit == \A t \in Tasks : Builds(t, Working) => TaskFits(t)

\* A handle is that of a live process and the only one, and belongs to an entry,
\* a warm VM or a request; every process has one.
HandlesLive ==
  /\ \A j \in Ids : vms[j] # None =>
       qemu[vms[j]] # None /\ \A k \in Ids : vms[k] = vms[j] => k = j
  /\ \A p \in Ids : qemu[p] # None => \E j \in Ids : vms[j] = p
HandlesOwned ==
  \A j \in Ids : vms[j] # None =>
    j \in Registered \/ j \in WarmIds \/ \E t \in Tasks : TaskUses(t, j)

VmsFit == EntriesFit /\ WarmFit /\ TasksFit /\ HandlesLive /\ HandlesOwned

-----------------------------------------------------------------------------
(* What a step does to the locals of its task, to ids and to labels *)

\* But for a claim, a step fills in the disk, the CID, the address or the process.
LEMMA LocalsStep ==
  ASSUME TypeInv, NEW t \in Tasks, Step(t), ~(Claim(t) /\ ready # <<>>)
  PROVE  \/ Return(t) /\ job'[t] = NoJob /\ pc'[t] = "idle"
         \/ /\ job'[t].op = job[t].op /\ job'[t].id = job[t].id /\ job'[t].src = job[t].src
            /\ job'[t].ws.state = job[t].ws.state
            /\ \/ job'[t].ws.ds = job[t].ws.ds
               \/ (Provision(t) \/ Clone(t)) /\ job'[t].ws.ds = job[t].id
            /\ \/ job'[t].ws.pid = job[t].ws.pid
               \/ Launch(t) /\ job'[t].ws.pid = job[t].id
            /\ PopCid(t) \/ CountCid(t) \/ job'[t].ws.cid = job[t].ws.cid
<1>1. pc \in [Tasks -> Labels] /\ job \in [Tasks -> JobRecords] /\ job[t] \in JobRecords
  BY DEF TypeInv, JobsOK
<1>2. ASSUME Return(t) PROVE job'[t] = NoJob /\ pc'[t] = "idle"
  BY <1>1, <1>2 DEF Return, Goto
<1>3. CASE UNCHANGED job
  BY <1>3
<1>4. CASE Claim(t)
  BY <1>3, <1>4 DEF Claim
<1>5. CASE WarmSetup(t) \/ ForkSetup(t)
  <2>1. Return(t) \/ \E ip \in IPs : job' = [job EXCEPT ![t].ws.ip = ip]
    BY <1>5 DEF WarmSetup, ForkSetup
  <2> QED BY <1>1, <1>2, <2>1 DEF JobRecords, Drafts
<1>9. CASE Provision(t)
  <2>1. \/ Return(t)
        \/ \E ip \in IPs : job' = [job EXCEPT ![t].ws.ds = job[t].id, ![t].ws.ip = ip]
    BY <1>9 DEF Provision
  <2> QED BY <1>1, <1>2, <1>9, <2>1 DEF JobRecords, Drafts
<1>10. CASE Clone(t)
  <2>1. Return(t) \/ job' = [job EXCEPT ![t].ws.ds = job[t].id]
    BY <1>10 DEF Clone
  <2> QED BY <1>1, <1>2, <1>10, <2>1 DEF JobRecords, Drafts
<1>6. CASE PopCid(t) \/ CountCid(t)
  BY <1>1, <1>2, <1>3, <1>6 DEF PopCid, CountCid, CidKnown, JobRecords, Drafts
<1>7. CASE Launch(t)
  BY <1>1, <1>2, <1>3, <1>7 DEF Launch, JobRecords, Drafts
<1>8. CASE Return(t)
  BY <1>2, <1>8
<1> QED
  BY <1>3, <1>4, <1>5, <1>6, <1>7, <1>8, <1>9, <1>10
  DEF Step, WarmRelease, Rekey, WarmRegister, Configure, Register, UndoCid, UndoVm, UndoHost,
      ForkChecks, DestroyVm, DestroyNetwork, DestroyStorage, DestroyCid, DestroyEntry, StopVm,
      MarkStopped, EnsureNetwork, MarkRunning, Mark, AddReady, SaveBegin, SaveEnd

\* Which task is at work on a workspace, and where, after a step of t.
LEMMA AtWorkStep ==
  ASSUME TypeInv, OneJobEach, NEW t \in Tasks, Step(t), NEW i \in Ids,
         NEW labels \in SUBSET Working
  PROVE  /\ i # job[t].id => (AtWork(i, labels)' <=> AtWork(i, labels))
         /\ i = job[t].id => (AtWork(i, labels) <=> pc[t] \in labels)
         /\ i = job[t].id => (AtWork(i, labels)' <=> pc'[t] \in labels)
<1>1. \A u \in Tasks : u # t => pc'[u] = pc[u] /\ job'[u] = job[u]
  BY OthersStay
<1>2. pc'[t] \in labels => job'[t].id = job[t].id
  BY OwnLocals DEF Working
<1>3. job'[t].id \in {job[t].id, None}
  BY OwnLocals DEF NoJob
<1>4. i # None
  BY IdsAssumption
<1>5. pc[t] \in labels \/ pc[t] \notin labels
  OBVIOUS
<1>6. i = job[t].id => \A u \in Tasks : job[u].id = i => u = t
  BY <1>4 DEF OneJobEach
<1> QED BY <1>1, <1>2, <1>3, <1>4, <1>6 DEF AtWork

\* The steps by which what names an id changes.
Moves(t) ==
  \/ Claim(t) /\ ready # <<>>
  \/ WarmSetup(t) /\ Return(t)
  \/ WarmRegister(t)
  \/ Register(t) /\ Count < MaxWorkspaces
  \/ AddReady(t)

\* By the others it names no more than before.
LEMMA UsesStep ==
  ASSUME TypeInv, OneJobEach, JobsFit, NEW t \in Tasks, Step(t), ~Moves(t)
  PROVE  /\ UNCHANGED ready
         /\ \A i \in Ids : i \in Registered' => i \in Registered /\ workspaces'[i].ds = workspaces[i].ds
         /\ \A u \in Tasks : Builds(u, Working)' =>
              Builds(u, Working) /\ job'[u].id = job[u].id /\ job'[u].ws.ds \in {job[u].id, job[u].ws.ds}
<1>1. UNCHANGED ready
  <2>1. ASSUME WarmSetup(t), UNCHANGED ready \/ Return(t) PROVE UNCHANGED ready
    BY <2>1 DEF Moves
  <2>2. WarmSetup(t) => UNCHANGED ready \/ Return(t)
    BY DEF WarmSetup
  <2> QED BY <2>1, <2>2, PoolStep DEF Moves
<1>2. ASSUME NEW i \in Ids, i \in Registered'
      PROVE  i \in Registered /\ workspaces'[i].ds = workspaces[i].ds
  <2>1. workspaces'[i] # None
    BY <1>2 DEF Registered
  <2>2. CASE i # job[t].id
    BY <2>1, <2>2, OtherEntriesStay DEF Registered
  <2>3. CASE i = job[t].id
    <3>1. CASE ~WarmRegister(t) /\ ~Register(t) /\ ~DestroyEntry(t)
      BY <2>1, <2>3, <3>1, OwnEntry DEF Registered
    <3>2. CASE DestroyEntry(t)
      BY <2>1, <2>3, <3>2 DEF DestroyEntry, TypeInv, RegistryOK
    <3>3. CASE WarmRegister(t) \/ Register(t)
      <4>1. UNCHANGED workspaces
        BY <3>3 DEF Moves, Register
      <4> QED BY <2>1, <4>1 DEF Registered
    <3> QED BY <3>1, <3>2, <3>3
  <2> QED BY <2>2, <2>3
<1>3. ASSUME NEW u \in Tasks, Builds(u, Working)'
      PROVE  /\ Builds(u, Working) /\ job'[u].id = job[u].id
             /\ job'[u].ws.ds \in {job[u].id, job[u].ws.ds}
  <2>1. job'[u].op \in Builders /\ pc'[u] \in Working
    BY <1>3 DEF Builds
  <2>2. CASE u # t
    BY <2>1, <2>2, OthersStay DEF Builds
  <2>3. CASE u = t
    <3>1. pc[t] \in Working /\ pc'[t] # "idle"
      BY <2>1, <2>3, WhereItGoes DEF Working
    <3>2. ~(Claim(t) /\ ready # <<>>)
      BY DEF Moves
    <3> QED BY <2>1, <2>3, <3>1, <3>2, LocalsStep DEF Builds
  <2> QED BY <2>2, <2>3
<1> QED BY <1>1, <1>2, <1>3

\* Fewer uses leave ids apart.
LEMMA FewerUses ==
  ASSUME Apart, UNCHANGED ready,
         \A i, d \in Ids : EntryUses(i, d)' => EntryUses(i, d),
         \A u \in Tasks, d \in Ids : TaskUses(u, d)' => TaskUses(u, d)
  PROVE  Apart'
<1>1. WarmIds' = WarmIds /\ Warm' = Warm
  BY DEF WarmIds, Warm
<1> HIDE DEF EntryUses, TaskUses
<1> QED BY <1>1 DEF Apart

\* What is done with an id changes hands at the moves only.
LEMMA QuietKeepsApart ==
  ASSUME TypeInv, OneJobEach, JobsFit, Apart, NEW t \in Tasks, Step(t), ~Moves(t)
  PROVE  Apart'
<1>1. ASSUME NEW i \in Ids, NEW d \in Ids, EntryUses(i, d)' PROVE EntryUses(i, d)
  BY <1>1, UsesStep DEF EntryUses
<1>2. ASSUME NEW u \in Tasks, NEW d \in Ids, TaskUses(u, d)' PROVE TaskUses(u, d)
  BY <1>2, UsesStep DEF TaskUses
<1> QED BY <1>1, <1>2, UsesStep, FewerUses

\* The pool without its first VM, and with one more.
LEMMA WarmWithout ==
  ASSUME ready \in Seq(WarmVm), ready # <<>>, ready' = Tail(ready),
         \A k, l \in Warm : ready[k].id = ready[l].id => k = l
  PROVE  /\ \A k, l \in Warm' : ready'[k].id = ready'[l].id => k = l
         /\ WarmIds' = WarmIds \ {Head(ready).id} /\ Head(ready).id \in WarmIds
         /\ \A k \in Warm' : k + 1 \in Warm /\ ready'[k] = ready[k + 1]
<1> DEFINE n == Len(ready)
<1>1. n \in Nat \ {0} /\ Warm = 1..n /\ Head(ready) = ready[1]
  BY DEF Warm
<1>2. Warm' = 1..(n - 1) /\ \A k \in 1..(n - 1) : ready'[k] = ready[k + 1]
  BY <1>1, HeadTailProperties DEF Warm
<1>3. \A k \in 1..n : k # 1 => k - 1 \in 1..(n - 1) /\ (k - 1) + 1 = k
  BY <1>1
<1>4. \A k \in 1..(n - 1) : k + 1 \in 1..n /\ k + 1 # 1
  BY <1>1
<1>5. ASSUME NEW k \in Warm', NEW l \in Warm', ready'[k].id = ready'[l].id PROVE k = l
  <2>1. ready[k + 1].id = ready[l + 1].id /\ k + 1 \in Warm /\ l + 1 \in Warm
    BY <1>1, <1>2, <1>4, <1>5
  <2>2. k + 1 = l + 1 /\ k \in Int /\ l \in Int
    BY <1>1, <1>2, <2>1
  <2> QED BY <2>2
<1>6. WarmIds' = {ready'[k].id : k \in Warm'}
  BY DEF WarmIds
<1>7. ASSUME NEW x \in WarmIds' PROVE x \in WarmIds \ {Head(ready).id}
  <2>1. PICK k \in Warm' : x = ready'[k].id
    BY <1>6
  <2>2. x = ready[k + 1].id /\ k + 1 \in Warm /\ k + 1 # 1 /\ 1 \in Warm
    BY <1>1, <1>2, <1>4, <2>1
  <2> QED BY <1>1, <2>2 DEF WarmIds
<1>8. ASSUME NEW x \in WarmIds, x # Head(ready).id PROVE x \in WarmIds'
  <2>1. PICK k \in Warm : x = ready[k].id
    BY DEF WarmIds
  <2>2. k # 1 /\ k - 1 \in Warm' /\ ready'[k - 1] = ready[k]
    BY <1>1, <1>2, <1>3, <1>8, <2>1
  <2> QED BY <1>6, <2>1, <2>2
<1>9. Head(ready).id \in WarmIds
  BY <1>1 DEF WarmIds
<1>10. WarmIds' = WarmIds \ {Head(ready).id}
  BY <1>7, <1>8
<1> QED BY <1>1, <1>2, <1>4, <1>5, <1>9, <1>10

LEMMA WarmWith ==
  ASSUME ready \in Seq(WarmVm), NEW w \in WarmVm, ready' = Append(ready, w),
         \A k, l \in Warm : ready[k].id = ready[l].id => k = l, w.id \notin WarmIds
  PROVE  /\ \A k, l \in Warm' : ready'[k].id = ready'[l].id => k = l
         /\ WarmIds' = WarmIds \cup {w.id}
         /\ \A k \in Warm' : (k \in Warm /\ ready'[k] = ready[k]) \/ ready'[k] = w
<1> DEFINE n == Len(ready)
<1>1. n \in Nat /\ Warm = 1..n
  BY DEF Warm
<1>2. Warm' = 1..(n + 1) /\ \A k \in 1..n : ready'[k] = ready[k]
  BY <1>1, AppendProperties DEF Warm
<1>3. ready'[n + 1] = w
  BY <1>1, AppendProperties
<1>4. \A k \in 1..(n + 1) : k \in 1..n \/ k = n + 1
  BY <1>1
<1>5. 1..n \subseteq 1..(n + 1) /\ n + 1 \in 1..(n + 1)
  BY <1>1
<1>6. WarmIds' = {ready'[k].id : k \in Warm'} /\ WarmIds = {ready[k].id : k \in Warm}
  BY DEF WarmIds
<1>7. \A k \in Warm : ready[k].id # w.id
  BY DEF WarmIds
<1>8. \A k, l \in Warm' : ready'[k].id = ready'[l].id => k = l
  BY <1>1, <1>2, <1>3, <1>4, <1>7
<1>9. WarmIds' = WarmIds \cup {w.id}
  BY <1>1, <1>2, <1>3, <1>4, <1>5, <1>6
<1> QED BY <1>1, <1>2, <1>3, <1>4, <1>8, <1>9

\* The disk and the device of a claimed VM stay the task's.
LEMMA ClaimKeepsApart ==
  ASSUME TypeInv, Apart, NEW t \in Tasks, Claim(t), ready # <<>>
  PROVE  Apart'
<1> DEFINE src == Head(ready).id
<1>1. ready \in Seq(WarmVm) /\ ready' = Tail(ready) /\ UNCHANGED workspaces
  BY DEF TypeInv, PoolOK, Claim
<1>2. /\ \A k, l \in Warm' : ready'[k].id = ready'[l].id => k = l
      /\ WarmIds' = WarmIds \ {src} /\ src \in WarmIds
  BY <1>1, WarmWithout DEF Apart
<1>3. Step(t) /\ pc[t] = "claim" /\ pc'[t] = "warmRelease"
  BY DEF Step, Claim, At, Goto, TypeInv, JobsOK
<1>4. job[t].op \in Builders
  BY <1>3 DEF TypeInv, JobsOK, Shaped, Builders
<1>5. job'[t].op = job[t].op /\ job'[t].id = job[t].id /\ job'[t].ws.ds = src
  <2>1. job'[t].op = job[t].op /\ job'[t].id = job[t].id
    BY <1>3, OwnLocals
  <2>2. job'[t].ws.ds = src
    BY ClaimTakes DEF TypeInv
  <2> QED BY <2>1, <2>2
<1>6. \A i, d \in Ids : EntryUses(i, d)' <=> EntryUses(i, d)
  BY <1>1 DEF EntryUses, Registered
<1>7. \A u \in Tasks, d \in Ids : u # t => (TaskUses(u, d)' <=> TaskUses(u, d))
  BY <1>3, OthersStay DEF TaskUses, Builds
<1>8. \A d \in Ids : TaskUses(t, d)' => d = src \/ TaskUses(t, d)
  BY <1>3, <1>4, <1>5 DEF TaskUses, Builds, Working, Labels
<1>9. ASSUME NEW d \in Ids
      PROVE  /\ \A i, j \in Ids : EntryUses(i, d)' /\ EntryUses(j, d)' => i = j
             /\ \A v, u \in Tasks : TaskUses(v, d)' /\ TaskUses(u, d)' => v = u
             /\ \A i \in Ids, v \in Tasks : ~(EntryUses(i, d)' /\ TaskUses(v, d)')
             /\ d \in WarmIds' =>
                  (\A i \in Ids : ~EntryUses(i, d)') /\ (\A v \in Tasks : ~TaskUses(v, d)')
  <2> HIDE DEF EntryUses, TaskUses, src
  <2>1. CASE d = src
    <3>1. (\A i \in Ids : ~EntryUses(i, d)) /\ (\A v \in Tasks : ~TaskUses(v, d))
      BY <1>2, <2>1 DEF Apart
    <3> QED BY <1>2, <1>6, <1>7, <2>1, <3>1
  <2>2. CASE d # src
    <3>1. \A u \in Tasks : TaskUses(u, d)' => TaskUses(u, d)
      BY <1>7, <1>8, <2>2
    <3> QED BY <1>2, <1>6, <2>2, <3>1 DEF Apart
  <2> QED BY <2>1, <2>2
<1> QED BY <1>2, <1>9 DEF Apart

\* A task hands over to the pool.
LEMMA PooledKeepsApart ==
  ASSUME TypeInv, Apart, NEW t \in Tasks, Step(t), NEW w \in WarmVm,
         ready' = Append(ready, w), UNCHANGED workspaces, TaskUses(t, w.id), pc'[t] = "idle"
  PROVE  Apart'
<1>1. w.id \in Ids
  BY DEF WarmVm
<1>2. w.id \notin WarmIds
  BY <1>1 DEF Apart
<1>3. ready \in Seq(WarmVm)
  BY DEF TypeInv, PoolOK
<1>4. /\ \A k, l \in Warm' : ready'[k].id = ready'[l].id => k = l
      /\ WarmIds' = WarmIds \cup {w.id}
  BY <1>2, <1>3, WarmWith DEF Apart
<1>5. \A i, d \in Ids : EntryUses(i, d)' <=> EntryUses(i, d)
  BY DEF EntryUses, Registered
<1>6. \A u \in Tasks, d \in Ids : TaskUses(u, d)' => u # t /\ TaskUses(u, d)
  BY OthersStay DEF TaskUses, Builds, Working
<1>7. ASSUME NEW d \in Ids
      PROVE  /\ \A i, j \in Ids : EntryUses(i, d)' /\ EntryUses(j, d)' => i = j
             /\ \A v, u \in Tasks : TaskUses(v, d)' /\ TaskUses(u, d)' => v = u
             /\ \A i \in Ids, v \in Tasks : ~(EntryUses(i, d)' /\ TaskUses(v, d)')
             /\ d \in WarmIds' =>
                  (\A i \in Ids : ~EntryUses(i, d)') /\ (\A v \in Tasks : ~TaskUses(v, d)')
  <2> HIDE DEF EntryUses, TaskUses
  <2> QED BY <1>4, <1>5, <1>6 DEF Apart
<1> QED BY <1>4, <1>7 DEF Apart

\* A task hands over to an entry.
LEMMA EntryKeepsApart ==
  ASSUME TypeInv, Apart, NEW t \in Tasks, Step(t), Builds(t, Working), pc'[t] = "save",
         workspaces' = [workspaces EXCEPT ![job[t].id] = job[t].ws], UNCHANGED ready
  PROVE  Apart'
<1>8. job[t].id \in Ids /\ workspaces \in [Ids -> Workspace \cup {None}]
  BY DEF TypeInv, JobsOK, Shaped, RegistryOK, Builds
<1> PICK i \in Ids : i = job[t].id
  BY <1>8
<1>1. i \in Ids /\ workspaces \in [Ids -> Workspace \cup {None}]
  BY <1>8
<1>2. /\ \A j \in Ids : j # i => workspaces'[j] = workspaces[j]
      /\ workspaces'[i] = job[t].ws
  BY <1>1
<1>3. WarmIds' = WarmIds /\ Warm' = Warm
  BY DEF WarmIds, Warm
<1>4. \A u \in Tasks, d \in Ids : TaskUses(u, d)' => u # t /\ TaskUses(u, d)
  BY OthersStay DEF TaskUses, Builds, Working
<1>5. \A j, d \in Ids : j # i => (EntryUses(j, d)' <=> EntryUses(j, d))
  BY <1>2 DEF EntryUses, Registered
<1>6. \A d \in Ids : EntryUses(i, d)' => TaskUses(t, d)
  BY <1>2 DEF EntryUses, TaskUses
<1>7. ASSUME NEW d \in Ids
      PROVE  /\ \A k, j \in Ids : EntryUses(k, d)' /\ EntryUses(j, d)' => k = j
             /\ \A v, u \in Tasks : TaskUses(v, d)' /\ TaskUses(u, d)' => v = u
             /\ \A j \in Ids, v \in Tasks : ~(EntryUses(j, d)' /\ TaskUses(v, d)')
             /\ d \in WarmIds =>
                  (\A j \in Ids : ~EntryUses(j, d)') /\ (\A v \in Tasks : ~TaskUses(v, d)')
  <2> HIDE DEF EntryUses, TaskUses
  <2>1. /\ \A k, j \in Ids : EntryUses(k, d) /\ EntryUses(j, d) => k = j
        /\ \A v, u \in Tasks : TaskUses(v, d) /\ TaskUses(u, d) => v = u
        /\ \A j \in Ids, v \in Tasks : ~(EntryUses(j, d) /\ TaskUses(v, d))
        /\ d \in WarmIds =>
             (\A j \in Ids : ~EntryUses(j, d)) /\ (\A v \in Tasks : ~TaskUses(v, d))
    BY DEF Apart
  <2> QED BY <1>1, <1>4, <1>5, <1>6, <2>1
<1> QED BY <1>3, <1>7 DEF Apart

\* No step lets an id name two things.
LEMMA StepKeepsApart ==
  ASSUME TypeInv, OneJobEach, JobsFit, Apart, TasksFit, NEW t \in Tasks, Step(t)
  PROVE  Apart'
<1>1. /\ pc \in [Tasks -> Labels] /\ job \in [Tasks -> JobRecords] /\ job[t] \in JobRecords
      /\ Shaped(job[t], pc[t])
  BY DEF TypeInv, JobsOK
<1>2. ASSUME Return(t) PROVE pc'[t] = "idle"
  BY <1>1, <1>2 DEF Return, Goto
<1>3. CASE Claim(t) /\ ready # <<>>
  BY <1>3, ClaimKeepsApart
<1>4. CASE WarmSetup(t) /\ Return(t)
  <2>1. pc[t] = "warmSetup" /\ pc'[t] = "idle" /\ UNCHANGED workspaces
    BY <1>2, <1>4 DEF WarmSetup, At
  <2>2. ready' = Append(ready, [id |-> job[t].src, cid |-> job[t].ws.cid, ip |-> job[t].ws.ip])
    BY <1>1, <1>4, <2>1 DEF WarmSetup, Goto
  <2>3. Builds(t, Working)
    BY <1>1, <2>1 DEF Builds, Builders, Shaped, WarmPath, Working, Labels
  <2>4. job[t].src = job[t].ws.ds
    BY <2>1, <2>3 DEF TasksFit, TaskFits, ClaimFits, WarmPath
  <2> DEFINE w == [id |-> job[t].src, cid |-> job[t].ws.cid, ip |-> job[t].ws.ip]
  <2>5. w \in WarmVm /\ w.id = job[t].src
    BY <1>1, <2>1 DEF Shaped, WarmPath, WithCid, WithIp, HoldsCid, WarmVm
  <2>6. TaskUses(t, w.id)
    BY <2>3, <2>4, <2>5 DEF TaskUses
  <2> HIDE DEF w
  <2> QED BY <2>1, <2>2, <2>5, <2>6, PooledKeepsApart DEF w
<1>5. CASE AddReady(t)
  <2>1. pc[t] = "addReady" /\ pc'[t] = "idle" /\ UNCHANGED workspaces
    BY <1>2, <1>5 DEF AddReady, At
  <2>2. Builds(t, Working)
    BY <1>1, <2>1 DEF Builds, Builders, Shaped, Working, Labels
  <2> DEFINE w == [id |-> job[t].id, cid |-> job[t].ws.cid, ip |-> job[t].ws.ip]
  <2>3. w \in WarmVm /\ w.id = job[t].id
    BY <1>1, <2>1 DEF Shaped, Working, Labels, WithIp, WithCid, HoldsCid, ColdPath, WarmVm
  <2>4. TaskUses(t, w.id) /\ ready' = Append(ready, w)
    BY <1>5, <2>2, <2>3 DEF TaskUses, AddReady
  <2> HIDE DEF w
  <2> QED BY <2>1, <2>3, <2>4, PooledKeepsApart
<1>6. CASE WarmRegister(t) \/ (Register(t) /\ Count < MaxWorkspaces)
  <2>1. /\ pc[t] \in {"warmRegister", "register"} /\ pc'[t] = "save" /\ UNCHANGED ready
        /\ workspaces' = [workspaces EXCEPT ![job[t].id] = job[t].ws]
    BY <1>1, <1>6 DEF WarmRegister, Register, At, Goto
  <2>2. Builds(t, Working)
    BY <1>1, <2>1 DEF Builds, Builders, Shaped, WarmPath, Working, Labels
  <2> QED BY <2>1, <2>2, EntryKeepsApart
<1> QED BY <1>3, <1>4, <1>5, <1>6, QuietKeepsApart DEF Moves

-----------------------------------------------------------------------------
(* The copies *)

\* The steps of stop, start and destroy.
LEMMA ServingSteps ==
  ASSUME TypeInv, NEW t \in Tasks, Step(t), Serves(t)
  PROVE  \/ DestroyVm(t) \/ DestroyNetwork(t) \/ DestroyStorage(t) \/ DestroyCid(t)
         \/ DestroyEntry(t) \/ StopVm(t) \/ MarkStopped(t)
         \/ EnsureNetwork(t) \/ (Launch(t) /\ job[t].op = "start") \/ MarkRunning(t)
<1>1. Shaped(job[t], pc[t]) /\ job[t].op \in {"start", "stop", "destroy"} /\ pc[t] \in Working
  BY DEF TypeInv, JobsOK, Serves
<1>2. pc[t] \notin {"claim", "configure", "warmRelease", "warmSetup", "rekey", "warmRegister",
                    "register", "forkChecks", "clone", "forkSetup", "provision", "cid", "counter",
                    "undoCid", "undoVm", "undoHost", "addReady", "save", "write"}
  BY <1>1 DEF Shaped, WarmPath, Builders, Working
<1>3. Launch(t) => job[t].op = "start"
  BY <1>1 DEF Launch, At, Shaped, Builders
<1> QED
  BY <1>2, <1>3
  DEF Step, Claim, WarmRelease, WarmSetup, Rekey, WarmRegister, Provision, PopCid, CountCid,
      Configure, Register, UndoCid, UndoVm, UndoHost, ForkChecks, Clone, ForkSetup,
      AddReady, SaveBegin, SaveEnd, At

\* Where they lead, and from where.
LEMMA ServingLabels ==
  ASSUME TypeInv, NEW t \in Tasks, Step(t), Serves(t)
  PROVE  /\ DestroyVm(t) => pc[t] = "endVm" /\ pc'[t] = "endNetwork"
         /\ DestroyNetwork(t) => pc[t] = "endNetwork" /\ pc'[t] = "endStorage"
         /\ DestroyStorage(t) => pc[t] = "endStorage" /\ pc'[t] = "endCid"
         /\ DestroyCid(t) => pc[t] = "endCid" /\ pc'[t] = "endEntry"
         /\ DestroyEntry(t) => pc[t] = "endEntry" /\ pc'[t] = "save"
         /\ StopVm(t) => pc[t] = "stopVm" /\ pc'[t] = "markStopped"
         /\ MarkStopped(t) => pc[t] = "markStopped" /\ pc'[t] = "save"
         /\ EnsureNetwork(t) => pc[t] = "ensureNetwork" /\ pc'[t] \in {"launch", "idle"}
         /\ Launch(t) => pc[t] = "launch" /\ pc'[t] \in {"markRunning", "idle"}
         /\ MarkRunning(t) => pc[t] = "markRunning" /\ pc'[t] = "save"
<1>1. pc \in [Tasks -> Labels]
  BY DEF TypeInv, JobsOK
<1>2. ASSUME NEW label, Goto(t, label) PROVE pc'[t] = label
  BY <1>1, <1>2 DEF Goto
<1>3. ASSUME Return(t) PROVE pc'[t] = "idle"
  BY <1>2, <1>3 DEF Return
<1>4. Launch(t) => pc[t] = "launch" /\ pc'[t] \in {"markRunning", "idle"}
  <2> SUFFICES ASSUME Launch(t) PROVE pc[t] = "launch" /\ pc'[t] \in {"markRunning", "idle"}
    OBVIOUS
  <2>1. pc[t] = "launch"
    BY DEF Launch, At
  <2>2. job[t].op = "start"
    BY <2>1 DEF TypeInv, JobsOK, Shaped, Serves, Builders
  <2>3. AfterLaunch(job[t].op) = "markRunning"
    BY <2>2 DEF AfterLaunch
  <2>4. Goto(t, "markRunning") \/ Return(t)
    BY <2>2, <2>3 DEF Launch
  <2> QED BY <1>2, <1>3, <2>1, <2>4
<1> QED
  BY <1>2, <1>3, <1>4
  DEF DestroyVm, DestroyNetwork, DestroyStorage, DestroyCid, DestroyEntry, StopVm, MarkStopped,
      EnsureNetwork, MarkRunning, Mark, At

\* Nobody but the request changes what its copy says.
LEMMA StepKeepsCopies ==
  ASSUME TypeInv, OneJobEach, CopiesFit, NEW t \in Tasks, Step(t)
  PROVE  CopiesFit'
<1> SUFFICES ASSUME NEW u \in Tasks, Serves(u)' PROVE CopyFits(u)'
  BY DEF CopiesFit
<1>1. job[u] \in JobRecords /\ Shaped(job[u], pc[u])
  BY DEF TypeInv, JobsOK
<1>2. CASE u # t
  <2>1. pc'[u] = pc[u] /\ job'[u] = job[u]
    BY <1>2, OthersStay
  <2>2. Serves(u)
    BY <2>1 DEF Serves
  <2>3. job[u].id \in Ids
    BY <1>1, <2>2 DEF Shaped, Serves
  <2>4. job[u].id # job[t].id
    BY <1>2, <2>3, IdsAssumption DEF OneJobEach
  <2>5. workspaces'[job[u].id] = workspaces[job[u].id]
    BY <2>3, <2>4, OtherEntriesStay
  <2> QED BY <2>1, <2>2, <2>5 DEF CopiesFit, CopyFits
<1>3. CASE u = t
  <2>1. pc'[t] \in Working /\ job'[t].op \in {"start", "stop", "destroy"}
    BY <1>3 DEF Serves
  <2>2. job'[t].op = job[t].op /\ job'[t].id = job[t].id
    BY <2>1, OwnLocals DEF Working
  <2>3. Serves(t)
    BY <2>1, <2>2, WhereItGoes DEF Serves
  <2>4. ~Claim(t) /\ ~WarmRegister(t) /\ ~Register(t) /\ ~Provision(t) /\ ~Clone(t)
        /\ ~PopCid(t) /\ ~CountCid(t)
    BY <1>1, <1>3, <2>3
    DEF Serves, Claim, WarmRegister, Register, Provision, Clone, PopCid, CountCid, At, Shaped,
        WarmPath, Builders
  <2>5. job'[t].ws.ds = job[t].ws.ds /\ job'[t].ws.cid = job[t].ws.cid
    BY <2>1, <2>4, LocalsStep DEF Working
  <2>6. ~DestroyEntry(t) /\ ~MarkStopped(t) /\ ~MarkRunning(t)
    BY <2>1, <2>3, ServingLabels DEF Working
  <2> PICK i \in Ids : i = job[t].id
    BY <2>3 DEF Serves, TypeInv, JobsOK, Shaped
  <2>7. workspaces'[i] = workspaces[i]
    BY <2>4, <2>6, RegistryStep
  <2>8. CopyFits(t)
    BY <2>3 DEF CopiesFit
  <2>9. /\ workspaces'[i] # None
        /\ workspaces'[i].ds = job'[t].ws.ds /\ workspaces'[i].cid = job'[t].ws.cid
    BY <2>5, <2>7, <2>8 DEF CopyFits
  <2>10. pc'[t] # "endVm"
    BY <2>3, ServingSteps, ServingLabels
  <2>11. pc'[t] \in {"ensureNetwork", "launch"} => workspaces'[i].state = "Stopped"
    <3>1. pc'[t] \in {"ensureNetwork", "launch"} => pc[t] = "ensureNetwork"
      BY <2>3, ServingSteps, ServingLabels
    <3> QED BY <2>7, <2>8, <3>1 DEF CopyFits
  <2>12. pc'[t] = "markRunning" => job'[t].ws.pid = i
    <3> SUFFICES ASSUME pc'[t] = "markRunning" PROVE job'[t].ws.pid = i
      OBVIOUS
    <3>1. Launch(t) /\ job[t].op = "start"
      BY <2>3, ServingSteps, ServingLabels
    <3>2. ~Return(t)
      BY DEF Return, Goto, TypeInv, JobsOK
    <3>3. job' = [job EXCEPT ![t].ws.pid = job[t].id]
      BY <3>1, <3>2 DEF Launch
    <3> QED BY <1>1, <1>3, <3>3 DEF JobRecords, Drafts, TypeInv, JobsOK
  <2> QED BY <1>3, <2>2, <2>9, <2>10, <2>11, <2>12 DEF CopyFits
<1> QED BY <1>2, <1>3

-----------------------------------------------------------------------------
(* The VMs of the others *)

\* The handle of j is what it was, and so is its process.
Untouched(j) == vms'[j] = vms[j] /\ (vms[j] # None => qemu'[vms[j]] = qemu[vms[j]])

LEMMA RunsOn ==
  ASSUME NEW j \in Ids, NEW p \in Ids, NEW ds, NEW c, Untouched(j), Runs(j, p, ds, c)
  PROVE  Runs(j, p, ds, c)'
<1>1. vms[j] = p
  BY DEF Runs
<1>2. p # None
  BY IdsAssumption
<1>3. vms'[j] = p /\ qemu'[p] = qemu[p]
  BY <1>1, <1>2 DEF Untouched
<1> QED BY <1>3 DEF Runs

\* What a step may touch: the VM its task builds or serves.
Owns(t, j) == TaskUses(t, j) \/ (Serves(t) /\ j = job[t].id)

LEMMA OwnedByNoOther ==
  ASSUME TypeInv, Apart, CopiesFit, NEW t \in Tasks, NEW j \in Ids, Owns(t, j)
  PROVE  /\ \A i \in Ids : EntryUses(i, j) => i = job[t].id /\ Serves(t)
         /\ j \notin WarmIds
         /\ \A u \in Tasks : TaskUses(u, j) => u = t
<1>1. CASE TaskUses(t, j)
  <2> HIDE DEF TaskUses, EntryUses
  <2> QED BY <1>1 DEF Apart
<1>2. CASE Serves(t) /\ j = job[t].id
  <2>1. workspaces[j] # None
    BY <1>2 DEF CopiesFit, CopyFits
  <2>2. EntryUses(j, j)
    BY <2>1 DEF EntryUses, Registered
  <2> HIDE DEF TaskUses, EntryUses
  <2>3. /\ \A i \in Ids : EntryUses(i, j) => i = j
        /\ \A u \in Tasks : ~TaskUses(u, j)
        /\ j \notin WarmIds
    BY <2>2 DEF Apart
  <2> QED BY <1>2, <2>3
<1> QED BY <1>1, <1>2 DEF Owns

\* Entries of workspaces the step is not about.
LEMMA OtherEntriesFit ==
  ASSUME TypeInv, OneJobEach, Apart, CopiesFit, EntriesFit, NEW t \in Tasks, Step(t),
         \A j \in Ids : Untouched(j) \/ Owns(t, j),
         NEW i \in Ids, i # job[t].id, i \in Registered'
  PROVE  EntryFits(i)'
<1>1. workspaces'[i] = workspaces[i] /\ i \in Registered
  BY OtherEntriesStay DEF Registered
<1>2. EntryUses(i, i)
  BY <1>1 DEF EntryUses
<1>3. Untouched(i)
  BY <1>2, OwnedByNoOther
<1>4. /\ AtWork(i, Halting)' <=> AtWork(i, Halting)
      /\ AtWork(i, {"markRunning"})' <=> AtWork(i, {"markRunning"})
  <2>1. Halting \in SUBSET Working /\ {"markRunning"} \in SUBSET Working
    BY DEF Halting, Working, Labels
  <2> QED BY <2>1, AtWorkStep
<1> PICK w \in Workspace : w = workspaces[i]
  BY <1>1 DEF Registered, TypeInv, RegistryOK
<1>5. w.pid \in Ids \cup {None} /\ w.ds \in Ids
  BY DEF Workspace
<1>6. EntryFits(i)
  BY <1>1 DEF EntriesFit
<1>7. vms[i] = None => vms'[i] = None
  BY <1>3 DEF Untouched
<1>8. Runs(i, i, w.ds, w.cid) => Runs(i, i, w.ds, w.cid)'
  BY <1>3, RunsOn
<1>9. w.pid \in {i, w.ds} /\ Runs(i, w.pid, w.ds, w.cid) => Runs(i, w.pid, w.ds, w.cid)'
  <2>1. w.pid \in {i, w.ds} => w.pid \in Ids
    BY <1>5
  <2> QED BY <1>3, <2>1, RunsOn
<1> QED BY <1>1, <1>4, <1>6, <1>7, <1>8, <1>9 DEF EntryFits

\* Other tasks.
LEMMA OtherTasksFit ==
  ASSUME TypeInv, Apart, CopiesFit, TasksFit, NEW t \in Tasks, Step(t),
         \A j \in Ids : Untouched(j) \/ Owns(t, j),
         NEW u \in Tasks, u # t, Builds(u, Working)'
  PROVE  TaskFits(u)'
<1>1. pc'[u] = pc[u] /\ job'[u] = job[u]
  BY OthersStay
<1>2. Builds(u, Working)
  BY <1>1 DEF Builds
<1>3. TaskFits(u) /\ job[u].id \in Ids
  BY <1>2 DEF TasksFit, TypeInv, JobsOK, Shaped, Builds
<1> PICK i \in Ids : i = job[u].id
  BY <1>3
<1>4. Untouched(i)
  <2>1. TaskUses(u, i)
    BY <1>2 DEF TaskUses
  <2> QED BY <2>1, OwnedByNoOther
<1>5. CASE pc[u] \in WarmPath
  <2> PICK s \in Ids : s = job[u].src
    BY <1>5 DEF TypeInv, JobsOK, Shaped
  <2>1. ClaimFits(pc[u], i, s, job[u].ws)
    BY <1>3, <1>5 DEF TaskFits
  <2>2. TaskUses(u, s)
    BY <1>2, <2>1 DEF TaskUses, ClaimFits
  <2>3. Untouched(s)
    BY <2>2, OwnedByNoOther
  <2> PICK c : c = job[u].ws.cid
    OBVIOUS
  <2>4. (vms[i] = None => vms'[i] = None) /\ (vms[s] = None => vms'[s] = None)
    BY <1>4, <2>3 DEF Untouched
  <2>6. (Runs(i, s, s, c) => Runs(i, s, s, c)') /\ (Runs(s, s, s, c) => Runs(s, s, s, c)')
    BY <1>4, <2>3, RunsOn
  <2>5. ClaimFits(pc[u], i, s, job[u].ws)'
    BY <1>1, <2>1, <2>4, <2>6 DEF ClaimFits
  <2> QED BY <1>1, <1>3, <1>5, <2>5 DEF TaskFits
<1>6. CASE pc[u] \notin WarmPath
  <2>1. BootFits(pc[u], i, job[u].ws)
    BY <1>3, <1>6 DEF TaskFits
  <2> PICK c : c = job[u].ws.cid
    OBVIOUS
  <2>2. /\ vms[i] = None => vms'[i] = None
        /\ Runs(i, i, i, c) => Runs(i, i, i, c)'
    BY <1>4, RunsOn DEF Untouched
  <2>3. BootFits(pc[u], i, job[u].ws)'
    BY <1>1, <2>1, <2>2 DEF BootFits
  <2> QED BY <1>1, <1>3, <1>6, <2>3 DEF TaskFits
<1> QED BY <1>5, <1>6

\* Warm VMs.
LEMMA WarmVmsFit ==
  ASSUME TypeInv, Apart, CopiesFit, NEW t \in Tasks,
         \A j \in Ids : Untouched(j) \/ Owns(t, j),
         NEW x \in WarmIds, NEW c, Runs(x, x, x, c), x \in Ids
  PROVE  Runs(x, x, x, c)'
<1>1. Untouched(x)
  BY OwnedByNoOther
<1> QED BY <1>1, RunsOn

-----------------------------------------------------------------------------
(* Handles *)

\* Whoever has a handle has the process and its disk.
Whole(j, p, ds) ==
  \/ EntryUses(j, j) /\ EntryUses(j, p) /\ EntryUses(j, ds)
  \/ j \in WarmIds /\ p = j /\ ds = j
  \/ \E u \in Tasks : TaskUses(u, j) /\ TaskUses(u, p) /\ TaskUses(u, ds)

LEMMA HandlesWhole ==
  ASSUME TypeInv, VmsFit, NEW j \in Ids, vms[j] # None
  PROVE  /\ vms[j] \in Ids /\ qemu[vms[j]] # None
         /\ Whole(j, vms[j], qemu[vms[j]].ds)
<1>1. vms[j] \in Ids /\ qemu[vms[j]] # None
  BY DEF TypeInv, HostOK, VmsFit, HandlesLive
<1> PICK p \in Ids : p = vms[j]
  BY <1>1
<1>2. CASE j \in Registered
  <2>1. EntryFits(j) /\ EntryUses(j, j) /\ EntryUses(j, workspaces[j].ds)
    BY <1>2 DEF VmsFit, EntriesFit, EntryUses
  <2>2. /\ Runs(j, j, workspaces[j].ds, workspaces[j].cid)
        \/ /\ workspaces[j].pid \in {j, workspaces[j].ds}
           /\ Runs(j, workspaces[j].pid, workspaces[j].ds, workspaces[j].cid)
    BY <2>1 DEF EntryFits
  <2>3. p \in {j, workspaces[j].ds} /\ qemu[p].ds = workspaces[j].ds
    BY <2>2 DEF Runs
  <2> HIDE DEF EntryUses
  <2>4. EntryUses(j, p) /\ EntryUses(j, qemu[p].ds)
    BY <2>1, <2>3
  <2> QED BY <1>1, <2>1, <2>4 DEF Whole
<1>3. CASE j \in WarmIds
  <2>1. PICK k \in Warm : ready[k].id = j
    BY <1>3 DEF WarmIds
  <2>2. Runs(j, j, j, ready[k].cid)
    BY <2>1 DEF VmsFit, WarmFit
  <2> QED BY <1>1, <1>3, <2>2 DEF Runs, Whole
<1>4. ASSUME NEW u \in Tasks, TaskUses(u, j) PROVE Whole(j, p, qemu[p].ds)
  <2>1. Builds(u, Working) /\ j \in {job[u].id, job[u].ws.ds} /\ TaskFits(u)
    BY <1>4 DEF TaskUses, VmsFit, TasksFit
  <2>2. CASE pc[u] \in WarmPath
    <3>1. ClaimFits(pc[u], job[u].id, job[u].src, job[u].ws)
      BY <2>1, <2>2 DEF TaskFits
    <3>2. p = job[u].ws.ds /\ qemu[p].ds = job[u].ws.ds
      BY <2>1, <3>1 DEF ClaimFits, Runs
    <3>3. TaskUses(u, p) /\ TaskUses(u, qemu[p].ds)
      BY <2>1, <3>2 DEF TaskUses
    <3> QED BY <1>4, <3>3 DEF Whole
  <2>3. CASE pc[u] \notin WarmPath
    <3>1. BootFits(pc[u], job[u].id, job[u].ws) /\ job[u].ws.ds \in {job[u].id, None}
      BY <2>1, <2>3 DEF TaskFits
    <3>2. j = job[u].id
      BY <2>1, <3>1, IdsAssumption
    <3>3. Runs(j, j, j, job[u].ws.cid)
      BY <3>1, <3>2 DEF BootFits
    <3>4. p = j /\ qemu[p].ds = j
      BY <3>3 DEF Runs
    <3> QED BY <1>4, <3>4 DEF Whole
  <2> QED BY <2>2, <2>3
<1> QED BY <1>1, <1>2, <1>3, <1>4 DEF VmsFit, HandlesOwned

\* A task's process and disk are in no other hands.
LEMMA OnlyHandle ==
  ASSUME TypeInv, Apart, CopiesFit, VmsFit, NEW t \in Tasks, NEW d \in Ids, Owns(t, d),
         NEW p \in Ids, qemu[p] # None, p = d \/ qemu[p].ds = d
  PROVE  \E j \in Ids : vms[j] = p /\ (j = job[t].id \/ TaskUses(t, j))
<1>1. PICK j \in Ids : vms[j] = p
  BY DEF VmsFit, HandlesLive
<1>2. vms[j] # None
  BY <1>1, IdsAssumption
<1>3. Whole(j, p, qemu[p].ds)
  BY <1>1, <1>2, HandlesWhole
<1>4. /\ \A i \in Ids : EntryUses(i, d) => i = job[t].id /\ Serves(t)
      /\ d \notin WarmIds
      /\ \A u \in Tasks : TaskUses(u, d) => u = t
  BY OwnedByNoOther
<1> HIDE DEF EntryUses, TaskUses
<1>5. CASE EntryUses(j, p) /\ EntryUses(j, qemu[p].ds)
  BY <1>1, <1>4, <1>5
<1>6. CASE j \in WarmIds /\ p = j /\ qemu[p].ds = j
  BY <1>4, <1>6
<1>7. ASSUME NEW u \in Tasks, TaskUses(u, j), TaskUses(u, p), TaskUses(u, qemu[p].ds)
      PROVE  \E k \in Ids : vms[k] = p /\ (k = job[t].id \/ TaskUses(t, k))
  BY <1>1, <1>4, <1>7
<1> QED BY <1>3, <1>5, <1>6, <1>7 DEF Whole

\* What is launched under an id without a handle is the first process under it.
LEMMA LaunchIsFree ==
  ASSUME TypeInv, Apart, CopiesFit, VmsFit, NEW t \in Tasks, Step(t), Launch(t),
         vms[job[t].id] = None
  PROVE  qemu[job[t].id] = None /\ Owns(t, job[t].id)
<1>1. pc[t] = "launch"
  BY DEF Launch, At
<1>2. Shaped(job[t], pc[t]) /\ job[t].op \in Builders \cup {"start"}
  BY <1>1 DEF TypeInv, JobsOK, Shaped
<1> PICK i \in Ids : i = job[t].id
  BY <1>1, <1>2 DEF Shaped, Working, Labels
<1>3. CASE job[t].op \in Builders
  <2>1. Builds(t, Working)
    BY <1>1, <1>3 DEF Builds, Working, Labels
  <2>2. TaskUses(t, i)
    BY <2>1 DEF TaskUses
  <2>3. job[t].ws.ds \in {i, None}
    BY <1>1, <2>1 DEF VmsFit, TasksFit, TaskFits, WarmPath
  <2>4. \A j \in Ids : TaskUses(t, j) => j = i
    BY <2>3, IdsAssumption DEF TaskUses
  <2>5. Owns(t, i)
    BY <2>2 DEF Owns
  <2> HIDE DEF TaskUses, Owns
  <2>6. qemu[i] # None => \E j \in Ids : vms[j] = i /\ j = i
    BY <2>4, <2>5, OnlyHandle
  <2> QED BY <2>5, <2>6, IdsAssumption
<1>4. CASE job[t].op = "start"
  <2>1. Serves(t) /\ ~(job[t].op \in Builders)
    BY <1>1, <1>4 DEF Serves, Working, Labels, Builders
  <2>2. Owns(t, i) /\ \A j \in Ids : ~TaskUses(t, j)
    BY <2>1 DEF Owns, TaskUses, Builds
  <2> HIDE DEF TaskUses, Owns
  <2>3. qemu[i] # None => \E j \in Ids : vms[j] = i /\ j = i
    BY <2>2, OnlyHandle
  <2> QED BY <2>2, <2>3, IdsAssumption
<1> QED BY <1>2, <1>3, <1>4

\* Ending a VM, launching one under a free id and re-keying one keep handles and
\* processes in pairs.
LEMMA EndVmKeeps ==
  ASSUME TypeInv, HandlesLive, NEW i \in Ids, vms[i] # None, EndVm(i)
  PROVE  /\ HandlesLive' /\ vms'[i] = None
         /\ \A j \in Ids : j # i => Untouched(j)
<1> PICK p \in Ids : p = vms[i]
  BY DEF TypeInv, HostOK
<1>1. /\ vms \in [Ids -> Ids \cup {None}] /\ qemu \in [Ids -> Process \cup {None}]
      /\ vms' = [vms EXCEPT ![i] = None] /\ qemu' = [qemu EXCEPT ![p] = None]
  BY DEF TypeInv, HostOK, EndVm
<1>2. \A j \in Ids : j # i => vms[j] # p
  BY DEF HandlesLive
<1>3. \A j \in Ids : j # i => vms'[j] = vms[j]
  BY <1>1
<1>4. \A q \in Ids : q # p => qemu'[q] = qemu[q]
  BY <1>1
<1>5. vms'[i] = None /\ qemu'[p] = None
  BY <1>1
<1>6. \A j \in Ids : j # i => Untouched(j)
  BY <1>1, <1>2, <1>3, <1>4 DEF Untouched
<1>7. ASSUME NEW j \in Ids, vms'[j] # None
      PROVE  qemu'[vms'[j]] # None /\ \A k \in Ids : vms'[k] = vms'[j] => k = j
  <2>1. j # i /\ vms'[j] = vms[j] /\ vms[j] # p /\ vms[j] \in Ids
    BY <1>1, <1>2, <1>3, <1>5, <1>7
  <2>2. qemu'[vms[j]] # None
    BY <1>4, <1>7, <2>1 DEF HandlesLive
  <2> QED BY <1>3, <1>5, <1>7, <2>1, <2>2 DEF HandlesLive
<1>8. ASSUME NEW q \in Ids, qemu'[q] # None PROVE \E j \in Ids : vms'[j] = q
  <2>1. q # p /\ qemu[q] # None
    BY <1>4, <1>5, <1>8
  <2>2. PICK j \in Ids : vms[j] = q
    BY <2>1 DEF HandlesLive
  <2> QED BY <1>3, <2>1, <2>2
<1> QED BY <1>5, <1>6, <1>7, <1>8 DEF HandlesLive

LEMMA LaunchKeeps ==
  ASSUME TypeInv, HandlesLive, NEW i \in Ids, vms[i] = None, qemu[i] = None,
         NEW x \in Process, qemu' = [qemu EXCEPT ![i] = x], vms' = [vms EXCEPT ![i] = i]
  PROVE  /\ HandlesLive' /\ vms'[i] = i /\ qemu'[i] = x
         /\ \A j \in Ids : j # i => Untouched(j)
<1>1. vms \in [Ids -> Ids \cup {None}] /\ qemu \in [Ids -> Process \cup {None}]
  BY DEF TypeInv, HostOK
<1>2. \A j \in Ids : j # i => vms'[j] = vms[j] /\ qemu'[j] = qemu[j]
  BY <1>1
<1>3. vms'[i] = i /\ qemu'[i] = x
  BY <1>1
<1>4. \A j \in Ids : vms[j] # i
  BY IdsAssumption DEF HandlesLive
<1>5. \A j \in Ids : j # i => Untouched(j)
  BY <1>1, <1>2, <1>4 DEF Untouched
<1>6. ASSUME NEW j \in Ids, vms'[j] # None
      PROVE  qemu'[vms'[j]] # None /\ \A k \in Ids : vms'[k] = vms'[j] => k = j
  <2>1. CASE j = i
    BY <1>2, <1>3, <1>4, <2>1, ProcessAssumption
  <2>2. CASE j # i
    <3>1. vms'[j] = vms[j] /\ vms[j] \in Ids /\ vms[j] # i
      BY <1>1, <1>2, <1>4, <1>6, <2>2
    <3>2. qemu'[vms[j]] # None
      BY <1>2, <1>6, <3>1 DEF HandlesLive
    <3> QED BY <1>2, <1>3, <1>6, <3>1, <3>2 DEF HandlesLive
  <2> QED BY <2>1, <2>2
<1>7. ASSUME NEW q \in Ids, qemu'[q] # None PROVE \E j \in Ids : vms'[j] = q
  <2>1. CASE q = i
    BY <1>3, <2>1
  <2>2. CASE q # i
    <3>1. PICK j \in Ids : vms[j] = q
      BY <1>2, <1>7, <2>2 DEF HandlesLive
    <3>2. j # i
      BY <3>1, IdsAssumption
    <3> QED BY <1>2, <3>1, <3>2
  <2> QED BY <2>1, <2>2
<1> QED BY <1>3, <1>5, <1>6, <1>7 DEF HandlesLive

LEMMA RekeyKeeps ==
  ASSUME TypeInv, HandlesLive, NEW i \in Ids, NEW s \in Ids, i # s, vms[i] = None, vms[s] = s,
         vms' = [vms EXCEPT ![i] = vms[s], ![s] = None], UNCHANGED qemu
  PROVE  /\ HandlesLive' /\ vms'[i] = s /\ vms'[s] = None
         /\ \A j \in Ids : j # i /\ j # s => Untouched(j)
<1>1. vms \in [Ids -> Ids \cup {None}]
  BY DEF TypeInv, HostOK
<1>2. \A j \in Ids : j # i /\ j # s => vms'[j] = vms[j]
  BY <1>1
<1>3. vms'[i] = s /\ vms'[s] = None
  BY <1>1
<1>4. \A j \in Ids : j # i /\ j # s => Untouched(j)
  BY <1>2 DEF Untouched
<1>5. s # None /\ qemu[s] # None /\ \A j \in Ids : vms[j] = s => j = s
  BY IdsAssumption DEF HandlesLive
<1>6. ASSUME NEW j \in Ids, vms'[j] # None
      PROVE  qemu'[vms'[j]] # None /\ \A k \in Ids : vms'[k] = vms'[j] => k = j
  <2>1. CASE j = i
    BY <1>2, <1>3, <1>5, <2>1
  <2>2. CASE j # i
    <3>1. j # s /\ vms'[j] = vms[j] /\ vms[j] # s /\ vms[j] # None
      BY <1>2, <1>3, <1>5, <1>6, <2>2
    <3>2. qemu[vms[j]] # None /\ \A k \in Ids : vms[k] = vms[j] => k = j
      BY <3>1 DEF HandlesLive
    <3>3. ASSUME NEW k \in Ids, vms'[k] = vms'[j] PROVE k = j
      BY <1>2, <1>3, <3>1, <3>2, <3>3
    <3> QED BY <3>1, <3>2, <3>3
  <2> QED BY <2>1, <2>2
<1>7. ASSUME NEW q \in Ids, qemu'[q] # None PROVE \E j \in Ids : vms'[j] = q
  <2>1. PICK j \in Ids : vms[j] = q
    BY <1>7 DEF HandlesLive
  <2>2. CASE j = s
    BY <1>3, <2>1, <2>2
  <2>3. CASE j # s
    <3>1. j # i
      BY <2>1, IdsAssumption
    <3> QED BY <1>2, <2>1, <2>3, <3>1
  <2> QED BY <2>2, <2>3
<1> QED BY <1>3, <1>4, <1>6, <1>7 DEF HandlesLive
-----------------------------------------------------------------------------
(* What a step does to VMs *)

\* A step ends the VM of its workspace, launches one for it, re-keys the one it
\* claimed or leaves VMs alone.
EndsVm(t) == (UndoVm(t) \/ DestroyVm(t) \/ StopVm(t)) /\ vms[job[t].id] # None
Launches(t) == Launch(t) /\ vms[job[t].id] = None /\ ~UNCHANGED vms

LEMMA VmsStep ==
  ASSUME TypeInv, NEW t \in Tasks, Step(t)
  PROVE  \/ UNCHANGED <<vms, qemu>>
         \/ EndsVm(t) /\ EndVm(job[t].id)
         \/ Launches(t)
         \/ Rekey(t)
<1>1. CASE UndoVm(t) \/ DestroyVm(t) \/ StopVm(t)
  BY <1>1 DEF UndoVm, DestroyVm, StopVm, EndsVm
<1>2. CASE Launch(t)
  <2>1. CASE vms[job[t].id] = None
    <3> PICK i \in Ids : i = job[t].id
      BY <1>2 DEF Launch, At, TypeInv, JobsOK, Shaped, Working, Labels
    <3>1. UNCHANGED <<vms, qemu>> \/ vms' = [vms EXCEPT ![i] = i]
      BY <1>2 DEF Launch
    <3>2. vms' = [vms EXCEPT ![i] = i] => vms' # vms
      BY <2>1, IdsAssumption DEF TypeInv, HostOK
    <3> QED BY <1>2, <2>1, <3>1, <3>2 DEF Launches
  <2>2. CASE vms[job[t].id] # None
    BY <1>2, <2>2 DEF Launch, CanLaunch
  <2> QED BY <2>1, <2>2
<1>3. CASE Rekey(t) \/ UNCHANGED <<vms, qemu>>
  BY <1>3
<1> QED
  BY <1>1, <1>2, <1>3
  DEF Step, Claim, WarmRelease, WarmSetup, WarmRegister, Provision, PopCid, CountCid,
      Configure, Register, UndoCid, UndoHost, ForkChecks, Clone, ForkSetup, DestroyNetwork,
      DestroyStorage, DestroyCid, DestroyEntry, MarkStopped, EnsureNetwork, MarkRunning, Mark,
      AddReady, SaveBegin, SaveEnd, memory

\* A launch, in full.
LEMMA LaunchStep ==
  ASSUME TypeInv, NEW t \in Tasks, Launches(t), NEW i \in Ids, i = job[t].id
  PROVE  \E x \in Process :
           /\ x.cid = job[t].ws.cid /\ x.ds = job[t].ws.ds
           /\ qemu' = [qemu EXCEPT ![i] = x] /\ vms' = [vms EXCEPT ![i] = i]
           /\ job'[t].ws.pid = i /\ pc'[t] = AfterLaunch(job[t].op)
           /\ pc[t] = "launch" /\ job[t].ws.ds \in datasets
<1>1. /\ pc[t] = "launch" /\ CanLaunch(i, job[t].ws) /\ Goto(t, AfterLaunch(job[t].op))
      /\ qemu' = [qemu EXCEPT ![i] = [cid |-> job[t].ws.cid, ds |-> job[t].ws.ds, tap |-> i]]
      /\ vms' = [vms EXCEPT ![i] = i] /\ job' = [job EXCEPT ![t].ws.pid = i]
  BY DEF Launches, Launch, At
<1>2. /\ pc \in [Tasks -> Labels] /\ job \in [Tasks -> JobRecords]
      /\ job[t].ws.cid \in Cids /\ job[t].ws.ds \in Ids
  BY <1>1 DEF TypeInv, JobsOK, Shaped, WithCid, WithDisk, HoldsCid, ColdPath
<1> DEFINE x == [cid |-> job[t].ws.cid, ds |-> job[t].ws.ds, tap |-> i]
<1>3. x \in Process /\ x.cid = job[t].ws.cid /\ x.ds = job[t].ws.ds
  BY <1>2 DEF Process
<1>4. job'[t].ws.pid = i
  BY <1>1, <1>2 DEF JobRecords, Drafts
<1>5. pc'[t] = AfterLaunch(job[t].op)
  BY <1>1, <1>2 DEF Goto
<1> HIDE DEF x
<1> QED BY <1>1, <1>3, <1>4, <1>5 DEF x, CanLaunch

\* A claim, in full.
LEMMA RekeyStep ==
  ASSUME TypeInv, TasksFit, NEW t \in Tasks, Rekey(t),
         NEW i \in Ids, i = job[t].id, NEW s \in Ids, s = job[t].src
  PROVE  /\ Builds(t, Working) /\ pc[t] = "rekey" /\ pc'[t] = "warmRegister"
         /\ ClaimFits("rekey", i, s, job[t].ws) /\ i # s /\ vms[i] = None /\ vms[s] = s
         /\ vms' = [vms EXCEPT ![i] = vms[s], ![s] = None] /\ UNCHANGED <<qemu, job, workspaces, ready>>
<1>1. /\ pc[t] = "rekey" /\ Goto(t, "warmRegister") /\ UNCHANGED <<qemu, job, workspaces, ready>>
      /\ vms' = IF vms[s] = None THEN vms ELSE [vms EXCEPT ![i] = vms[s], ![s] = None]
  BY DEF Rekey, At
<1>2. pc'[t] = "warmRegister"
  BY <1>1 DEF Goto, TypeInv, JobsOK
<1>3. Builds(t, Working)
  BY <1>1 DEF Builds, TypeInv, JobsOK, Shaped, WarmPath, Builders, Working, Labels
<1>4. ClaimFits("rekey", i, s, job[t].ws)
  BY <1>1, <1>3 DEF TasksFit, TaskFits, WarmPath
<1>5. s # i /\ vms[i] = None /\ vms[s] = s /\ s # None
  BY <1>4, IdsAssumption DEF ClaimFits, Runs
<1> QED BY <1>1, <1>2, <1>3, <1>4, <1>5

\* Handles stay those of live processes, and a step touches its own only.
LEMMA StepKeepsHandles ==
  ASSUME TypeInv, Apart, CopiesFit, VmsFit, NEW t \in Tasks, Step(t)
  PROVE  HandlesLive' /\ \A j \in Ids : Untouched(j) \/ Owns(t, j)
<1>1. Shaped(job[t], pc[t]) /\ HandlesLive /\ TasksFit
  BY DEF TypeInv, JobsOK, VmsFit
<1>2. CASE UNCHANGED <<vms, qemu>>
  BY <1>1, <1>2 DEF HandlesLive, Untouched
<1>3. CASE EndsVm(t) /\ EndVm(job[t].id)
  <2>1. pc[t] \in {"undoVm", "endVm", "stopVm"}
    BY <1>3 DEF EndsVm, UndoVm, DestroyVm, StopVm, At
  <2>2. job[t].id \in Ids
    BY <1>1, <2>1 DEF Shaped, Working, Labels
  <2> PICK i \in Ids : i = job[t].id
    BY <2>2
  <2>3. Owns(t, i)
    BY <1>1, <2>1
    DEF Owns, TaskUses, Serves, Builds, Shaped, Working, Labels, Ending
  <2>4. vms[i] # None /\ EndVm(i)
    BY <1>3 DEF EndsVm
  <2> QED BY <1>1, <2>3, <2>4, EndVmKeeps
<1>4. CASE Launches(t)
  <2>1. pc[t] = "launch" /\ vms[job[t].id] = None /\ Launch(t)
    BY <1>4 DEF Launches, Launch, At
  <2> PICK i \in Ids : i = job[t].id
    BY <1>1, <2>1 DEF Shaped, Working, Labels
  <2>2. qemu[i] = None /\ Owns(t, i)
    BY <2>1, LaunchIsFree
  <2>3. PICK x \in Process : qemu' = [qemu EXCEPT ![i] = x] /\ vms' = [vms EXCEPT ![i] = i]
    BY <1>4, LaunchStep
  <2> QED BY <1>1, <2>1, <2>2, <2>3, LaunchKeeps
<1>5. CASE Rekey(t)
  <2>1. pc[t] = "rekey"
    BY <1>5 DEF Rekey, At
  <2> PICK i \in Ids, s \in Ids : i = job[t].id /\ s = job[t].src
    BY <1>1, <2>1 DEF Shaped, WarmPath, Working, Labels
  <2>2. /\ Builds(t, Working) /\ ClaimFits("rekey", i, s, job[t].ws)
        /\ i # s /\ vms[i] = None /\ vms[s] = s
        /\ vms' = [vms EXCEPT ![i] = vms[s], ![s] = None] /\ UNCHANGED qemu
    BY <1>1, <1>5, RekeyStep
  <2>3. Owns(t, i) /\ Owns(t, s)
    BY <2>2 DEF Owns, TaskUses, ClaimFits
  <2>4. HandlesLive' /\ \A j \in Ids : j # i /\ j # s => Untouched(j)
    BY <1>1, <2>2, RekeyKeeps
  <2> QED BY <2>3, <2>4
<1> QED BY <1>2, <1>3, <1>4, <1>5, VmsStep

\* The VMs of the pool.
LEMMA StepKeepsWarm ==
  ASSUME TypeInv, Apart, CopiesFit, VmsFit, NEW t \in Tasks, Step(t)
  PROVE  WarmFit'
<1>1. \A j \in Ids : Untouched(j) \/ Owns(t, j)
  BY StepKeepsHandles
<1>2. /\ ready \in Seq(WarmVm) /\ \A k \in Warm : ready[k] \in WarmVm
      /\ Shaped(job[t], pc[t]) /\ pc \in [Tasks -> Labels]
      /\ \A k, l \in Warm : ready[k].id = ready[l].id => k = l
  BY DEF TypeInv, JobsOK, PoolOK, Warm, Apart
<1>3. ASSUME NEW w \in WarmVm, NEW l \in Warm, w = ready[l] PROVE Runs(w.id, w.id, w.id, w.cid)'
  <2>1. Runs(w.id, w.id, w.id, w.cid) /\ w.id \in WarmIds /\ w.id \in Ids
    BY <1>3 DEF VmsFit, WarmFit, WarmIds, WarmVm
  <2> QED BY <1>1, <2>1, WarmVmsFit
<1>4. ASSUME \A k \in Warm' : \E w \in WarmVm : w = ready'[k] /\ Runs(w.id, w.id, w.id, w.cid)'
      PROVE  WarmFit'
  BY <1>4 DEF WarmFit, Runs
<1>5. CASE UNCHANGED ready
  BY <1>2, <1>3, <1>4, <1>5 DEF Warm
<1>6. CASE ready # <<>> /\ ready' = Tail(ready)
  <2>1. \A k \in Warm' : k + 1 \in Warm /\ ready'[k] = ready[k + 1]
    BY <1>2, <1>6, WarmWithout
  <2> QED BY <1>2, <1>3, <1>4, <2>1
<1>7. ASSUME NEW w \in WarmVm, ready' = Append(ready, w), w.id \notin WarmIds,
             Runs(w.id, w.id, w.id, w.cid), UNCHANGED <<vms, qemu>>
      PROVE  WarmFit'
  <2>1. \A k \in Warm' : (k \in Warm /\ ready'[k] = ready[k]) \/ ready'[k] = w
    BY <1>2, <1>7, WarmWith
  <2>2. Runs(w.id, w.id, w.id, w.cid)'
    BY <1>7 DEF Runs
  <2> QED BY <1>2, <1>3, <1>4, <2>1, <2>2
<1>8. CASE WarmSetup(t) /\ ~UNCHANGED ready
  <2>1. /\ pc[t] = "warmSetup" /\ UNCHANGED <<vms, qemu>>
        /\ ready' = Append(ready, [id |-> job[t].src, cid |-> job[t].ws.cid, ip |-> job[t].ws.ip])
    BY <1>8 DEF WarmSetup, At
  <2>2. Builds(t, Working)
    BY <1>2, <2>1 DEF Builds, Builders, Shaped, WarmPath, Working, Labels
  <2>3. ClaimFits("warmSetup", job[t].id, job[t].src, job[t].ws)
    BY <2>1, <2>2 DEF VmsFit, TasksFit, TaskFits, WarmPath
  <2> DEFINE w == [id |-> job[t].src, cid |-> job[t].ws.cid, ip |-> job[t].ws.ip]
  <2>4. w \in WarmVm /\ w.id = job[t].src /\ w.cid = job[t].ws.cid
    BY <1>2, <2>1 DEF Shaped, WarmPath, WithCid, WithIp, HoldsCid, WarmVm
  <2>5. Runs(w.id, w.id, w.id, w.cid)
    BY <2>3, <2>4 DEF ClaimFits
  <2>6. TaskUses(t, w.id)
    BY <2>2, <2>3, <2>4 DEF ClaimFits, TaskUses
  <2>7. w.id \notin WarmIds
    BY <2>4, <2>6, OwnedByNoOther DEF Owns, WarmVm
  <2>8. ready' = Append(ready, w)
    BY <2>1
  <2> HIDE DEF w
  <2> QED BY <1>7, <2>1, <2>4, <2>5, <2>7, <2>8
<1>9. CASE AddReady(t)
  <2>1. /\ pc[t] = "addReady" /\ UNCHANGED <<vms, qemu>>
        /\ ready' = Append(ready, [id |-> job[t].id, cid |-> job[t].ws.cid, ip |-> job[t].ws.ip])
    BY <1>9 DEF AddReady, At
  <2>2. Builds(t, Working)
    BY <1>2, <2>1 DEF Builds, Builders, Shaped, Working, Labels
  <2>3. BootFits("addReady", job[t].id, job[t].ws)
    BY <2>1, <2>2 DEF VmsFit, TasksFit, TaskFits, WarmPath
  <2> DEFINE w == [id |-> job[t].id, cid |-> job[t].ws.cid, ip |-> job[t].ws.ip]
  <2>4. w \in WarmVm /\ w.id = job[t].id /\ w.cid = job[t].ws.cid
    BY <1>2, <2>1 DEF Shaped, Working, Labels, WithIp, WithCid, HoldsCid, ColdPath, WarmVm
  <2>5. Runs(w.id, w.id, w.id, w.cid)
    BY <2>3, <2>4 DEF BootFits
  <2>6. TaskUses(t, w.id)
    BY <2>2, <2>4 DEF TaskUses
  <2>7. w.id \notin WarmIds
    BY <2>4, <2>6, OwnedByNoOther DEF Owns, WarmVm
  <2>8. ready' = Append(ready, w)
    BY <2>1
  <2> HIDE DEF w
  <2> QED BY <1>7, <2>1, <2>4, <2>5, <2>7, <2>8
<1> QED BY <1>5, <1>6, <1>8, <1>9, PoolStep

-----------------------------------------------------------------------------
(* What a request builds *)

\* A request that builds a workspace did so before, or claims a warm VM; its
\* place is one of these.
LEMMA BuiltBefore ==
  ASSUME TypeInv, NEW t \in Tasks, Step(t), Builds(t, Working)'
  PROVE  Builds(t, Working)
<1>1. job'[t].op \in Builders /\ pc'[t] \in Working
  BY DEF Builds
<1>2. job'[t].op = job[t].op
  BY <1>1, OwnLocals DEF Working
<1>3. pc[t] \in Working
  BY <1>1, WhereItGoes
<1> QED BY <1>1, <1>2, <1>3 DEF Builds

\* Its claim of a warm VM.
LEMMA ClaimedTaskFits ==
  ASSUME TypeInv, Apart, VmsFit, NEW t \in Tasks, Step(t), Claim(t), ready # <<>>
  PROVE  TaskFits(t)'
<1>1. pc[t] = "claim" /\ pc'[t] = "warmRelease" /\ UNCHANGED <<vms, qemu>>
  BY DEF Claim, At, Goto, TypeInv, JobsOK
<1>2. Shaped(job[t], pc[t]) /\ 1 \in Warm /\ Head(ready) = ready[1]
  BY DEF TypeInv, JobsOK, PoolOK, Warm
<1> PICK warm \in WarmVm : warm = Head(ready)
  BY DEF TypeInv, PoolOK
<1> PICK i \in Ids : i = job[t].id
  BY <1>1, <1>2 DEF Shaped, Working, Labels
<1>3. /\ job'[t].id = i /\ job'[t].src = warm.id /\ job'[t].ws.ds = warm.id
      /\ job'[t].ws.cid = warm.cid /\ job'[t].ws.pid = warm.id
      /\ job'[t].ws.state = job[t].ws.state
  BY ClaimTakes DEF TypeInv
<1>4. Builds(t, Working)
  BY <1>1, <1>2 DEF Builds, Builders, Shaped, Working, Labels
<1>5. job[t].ws.state = "Running" /\ vms[i] = None
  BY <1>1, <1>4 DEF VmsFit, TasksFit, TaskFits, BootFits, WarmPath
<1>6. Runs(warm.id, warm.id, warm.id, warm.cid) /\ warm.id \in WarmIds /\ warm.id \in Ids
  BY <1>2 DEF VmsFit, WarmFit, WarmIds, WarmVm
<1>7. warm.id # i
  <2>1. TaskUses(t, i)
    BY <1>4 DEF TaskUses
  <2> HIDE DEF TaskUses
  <2> QED BY <1>6, <2>1 DEF Apart
<1>8. Runs(warm.id, warm.id, warm.id, warm.cid)' /\ vms'[i] = None
  BY <1>1, <1>5, <1>6 DEF Runs
<1>9. ClaimFits("warmRelease", i, warm.id, job[t].ws)'
  BY <1>3, <1>7, <1>8 DEF ClaimFits
<1> QED BY <1>1, <1>3, <1>5, <1>9 DEF TaskFits, WarmPath
\* Its other steps: where they lead and whether they touch a VM.
Early ==
  {<<"claim", "provision">>, <<"provision", "cid">>, <<"forkChecks", "clone">>,
   <<"clone", "forkSetup">>, <<"forkSetup", "cid">>, <<"cid", "counter">>, <<"cid", "launch">>,
   <<"counter", "launch">>, <<"counter", "undoHost">>}
Onward ==
  {<<"launch", "undoCid">>, <<"configure", "register">>, <<"register", "undoCid">>,
   <<"undoCid", "undoVm">>}
LEMMA BuildingSteps ==
  ASSUME TypeInv, NEW t \in Tasks, Step(t), Builds(t, Working), Builds(t, Working)'
  PROVE  \/ Claim(t) /\ ready # <<>>
         \/ Rekey(t)
         \/ Launches(t)
         \/ UndoVm(t) /\ pc[t] = "undoVm" /\ pc'[t] = "undoHost"
         \/ /\ UNCHANGED <<vms, qemu>>
            /\ \/ /\ WarmRelease(t) \/ WarmSetup(t)
                  /\ pc[t] \in {"warmRelease", "warmSetup"} /\ pc'[t] \in {"warmSetup", "rekey"}
               \/ <<pc[t], pc'[t]>> \in Early
               \/ <<pc[t], pc'[t]>> \in Onward /\ UNCHANGED job
<1>1. pc \in [Tasks -> Labels] /\ Shaped(job[t], pc[t])
  BY DEF TypeInv, JobsOK
<1>2. pc'[t] \in Working /\ job[t].op \in Builders /\ pc[t] \in Working
  BY DEF Builds
<1>3. ASSUME NEW label, Goto(t, label) PROVE pc'[t] = label
  BY <1>1, <1>3 DEF Goto
<1>4. ~Return(t)
  BY <1>2, <1>3 DEF Return, Working
<1>5. pc'[t] # "save" /\ pc'[t] # "write"
  BY <1>2 DEF Working
<1>6. CASE Claim(t)
  BY <1>3, <1>6 DEF Claim, At, memory, Early
<1>7. CASE WarmRelease(t) \/ WarmSetup(t)
  BY <1>3, <1>4, <1>7 DEF WarmRelease, WarmSetup, At, memory
<1>8. CASE Provision(t) \/ PopCid(t) \/ CountCid(t)
  BY <1>3, <1>4, <1>8 DEF Provision, PopCid, CountCid, CidKnown, At, memory, Early
<1>9. CASE ForkChecks(t) \/ Clone(t) \/ ForkSetup(t)
  BY <1>3, <1>4, <1>9 DEF ForkChecks, Clone, ForkSetup, At, memory, Early
<1>10. CASE Launch(t)
  <2>1. CASE UNCHANGED vms
    <3>1. vms[job[t].id] = None => UNCHANGED <<vms, qemu>> /\ pc'[t] = "undoCid" /\ UNCHANGED job
      <4> SUFFICES ASSUME vms[job[t].id] = None
                   PROVE  UNCHANGED <<vms, qemu>> /\ pc'[t] = "undoCid" /\ UNCHANGED job
        OBVIOUS
      <4>1. job[t].id \in Ids /\ vms \in [Ids -> Ids \cup {None}]
        BY <1>1, <1>2 DEF Shaped, TypeInv, HostOK
      <4> PICK i \in Ids : i = job[t].id
        BY <4>1
      <4>2. vms' # [vms EXCEPT ![i] = i]
        BY <2>1, <4>1, IdsAssumption
      <4>3. job[t].op # "start"
        BY <1>2 DEF Builders
      <4> QED BY <1>3, <1>10, <4>2, <4>3 DEF Launch
    <3>2. vms[job[t].id] # None => UNCHANGED <<vms, qemu>> /\ pc'[t] = "undoCid" /\ UNCHANGED job
      <4>1. job[t].op # "start"
        BY <1>2 DEF Builders
      <4> QED BY <1>3, <1>10, <4>1 DEF Launch, CanLaunch
    <3>3. pc[t] = "launch"
      BY <1>10 DEF Launch, At
    <3> QED BY <3>1, <3>2, <3>3 DEF Onward
  <2>2. CASE ~UNCHANGED vms
    BY <1>10, <2>2 DEF Launch, CanLaunch, Launches
  <2> QED BY <2>1, <2>2
<1>11. CASE Configure(t) \/ Register(t) \/ UndoCid(t)
  BY <1>3, <1>4, <1>5, <1>11 DEF Configure, Register, UndoCid, At, memory, Onward
<1>12. CASE UndoVm(t)
  BY <1>3, <1>12 DEF UndoVm, At
<1>13. CASE Rekey(t)
  BY <1>13
<1>14. ~(WarmRegister(t) \/ UndoHost(t) \/ AddReady(t) \/ SaveBegin(t) \/ SaveEnd(t))
  BY <1>2, <1>3, <1>4, <1>5 DEF WarmRegister, UndoHost, AddReady, SaveBegin, SaveEnd
<1>15. ~(DestroyVm(t) \/ DestroyNetwork(t) \/ DestroyStorage(t) \/ DestroyCid(t) \/ DestroyEntry(t)
         \/ StopVm(t) \/ MarkStopped(t) \/ EnsureNetwork(t) \/ MarkRunning(t))
  BY <1>1, <1>2
  DEF DestroyVm, DestroyNetwork, DestroyStorage, DestroyCid, DestroyEntry, StopVm, MarkStopped,
      EnsureNetwork, MarkRunning, At, Shaped, Ending, Builders
<1> QED
  BY <1>6, <1>7, <1>8, <1>9, <1>10, <1>11, <1>12, <1>13, <1>14, <1>15 DEF Step

\* At each place it has of VMs what belongs there.
LEMMA OwnTaskFits ==
  ASSUME TypeInv, Apart, CopiesFit, VmsFit, NEW t \in Tasks, Step(t), Builds(t, Working)'
  PROVE  TaskFits(t)'
<1>1. Builds(t, Working) /\ TaskFits(t) /\ Shaped(job[t], pc[t]) /\ TasksFit
  BY BuiltBefore DEF VmsFit, TasksFit, TypeInv, JobsOK
<1> PICK i \in Ids : i = job[t].id
  BY <1>1 DEF Shaped, Builds
<1>2. pc'[t] \in Working
  BY DEF Builds
<1>3. CASE Claim(t) /\ ready # <<>>
  BY <1>3, ClaimedTaskFits
<1>4. CASE ~(Claim(t) /\ ready # <<>>)
  <2>1. /\ job'[t].id = i /\ job'[t].src = job[t].src /\ job'[t].ws.state = "Running"
        /\ job'[t].ws.ds \in {i, job[t].ws.ds}
        /\ job'[t].ws.ds = job[t].ws.ds \/ Provision(t) \/ Clone(t)
        /\ job'[t].ws.pid = job[t].ws.pid \/ Launch(t)
        /\ job'[t].ws.cid = job[t].ws.cid \/ PopCid(t) \/ CountCid(t)
    BY <1>1, <1>2, <1>4, LocalsStep DEF TaskFits, Working
  <2>2. CASE /\ WarmRelease(t) \/ WarmSetup(t)
             /\ pc[t] \in {"warmRelease", "warmSetup"} /\ pc'[t] \in {"warmSetup", "rekey"}
             /\ UNCHANGED <<vms, qemu>>
    <3>1. /\ job'[t].ws.ds = job[t].ws.ds /\ job'[t].ws.pid = job[t].ws.pid
          /\ job'[t].ws.cid = job[t].ws.cid
      BY <2>1, <2>2 DEF Provision, Clone, Launch, PopCid, CountCid, At
    <3>2. ClaimFits(pc[t], i, job[t].src, job[t].ws)
      BY <1>1, <2>2 DEF TaskFits, WarmPath
    <3>3. ClaimFits(pc[t], i, job[t].src, job[t].ws)'
      BY <2>1, <2>2, <3>1, <3>2 DEF ClaimFits, Runs
    <3> QED BY <2>1, <2>2, <3>3 DEF TaskFits, WarmPath
  <2>3. CASE Rekey(t)
    <3> PICK s \in Ids : s = job[t].src
      BY <1>1, <2>3 DEF Rekey, At, Shaped, WarmPath
    <3>1. /\ pc'[t] = "warmRegister" /\ ClaimFits("rekey", i, s, job[t].ws) /\ UNCHANGED <<qemu, job>>
          /\ i # s /\ vms[i] = None /\ vms[s] = s
          /\ vms' = [vms EXCEPT ![i] = vms[s], ![s] = None]
      BY <1>1, <2>3, RekeyStep
    <3>2. HandlesLive /\ UNCHANGED qemu
      BY <3>1 DEF VmsFit
    <3>3. vms'[i] = s /\ vms'[s] = None
      BY <3>1, <3>2, RekeyKeeps
    <3>4. ClaimFits("warmRegister", i, s, job[t].ws)'
      BY <3>1, <3>3 DEF ClaimFits, Runs
    <3> QED BY <2>1, <3>1, <3>4 DEF TaskFits, WarmPath
  <2>4. CASE Launches(t)
    <3>1. PICK x \in Process :
            /\ x.cid = job[t].ws.cid /\ x.ds = job[t].ws.ds
            /\ qemu' = [qemu EXCEPT ![i] = x] /\ vms' = [vms EXCEPT ![i] = i]
            /\ job'[t].ws.pid = i /\ pc'[t] = AfterLaunch(job[t].op) /\ pc[t] = "launch"
      BY <2>4, LaunchStep
    <3>2. vms'[i] = i /\ qemu'[i] = x /\ x # None
      BY <3>1, ProcessAssumption DEF TypeInv, HostOK
    <3>3. job[t].ws.ds = i
      <4>1. job[t].ws.ds \in {i, None}
        BY <1>1, <3>1 DEF TaskFits, WarmPath
      <4>2. job[t].ws.ds \in Ids
        BY <1>1, <3>1 DEF Shaped, WithDisk, ColdPath
      <4> QED BY <4>1, <4>2, IdsAssumption
    <3>4. pc'[t] \in {"configure", "register", "addReady"}
      BY <1>1, <3>1 DEF AfterLaunch, Builds, Builders
    <3>5. job'[t].ws.ds = i /\ job'[t].ws.cid = job[t].ws.cid
      BY <2>1, <3>1, <3>3 DEF PopCid, CountCid, At
    <3>6. Runs(i, i, i, job[t].ws.cid)'
      BY <3>1, <3>2, <3>3, <3>5 DEF Runs
    <3>7. BootFits(pc[t], i, job[t].ws)'
      BY <3>1, <3>4, <3>6 DEF BootFits
    <3> QED BY <2>1, <3>4, <3>5, <3>7 DEF TaskFits, WarmPath
  <2>5. CASE UndoVm(t) /\ pc[t] = "undoVm" /\ pc'[t] = "undoHost"
    <3>1. vms'[i] = None
      <4>1. CASE vms[i] = None
        BY <2>5, <4>1 DEF UndoVm
      <4>2. CASE vms[i] # None
        BY <2>5, <4>2 DEF UndoVm, EndVm, TypeInv, HostOK
      <4> QED BY <4>1, <4>2
    <3>2. BootFits(pc[t], i, job[t].ws)'
      BY <2>5, <3>1 DEF BootFits
    <3>3. job[t].ws.ds \in {i, None}
      BY <1>1, <2>5 DEF TaskFits, WarmPath
    <3> QED BY <2>1, <2>5, <3>2, <3>3 DEF TaskFits, WarmPath
  <2>6. CASE <<pc[t], pc'[t]>> \in Early /\ UNCHANGED <<vms, qemu>>
    <3>1. /\ pc[t] \in {"claim", "forkChecks", "clone", "forkSetup", "provision", "cid", "counter"}
          /\ pc'[t] \in {"provision", "clone", "forkSetup", "cid", "counter", "launch", "undoHost"}
      BY <2>6 DEF Early
    <3>2. BootFits(pc[t], i, job[t].ws) /\ job[t].ws.ds \in {i, None}
      BY <1>1, <3>1 DEF TaskFits, WarmPath
    <3>3. vms[i] = None
      BY <3>1, <3>2 DEF BootFits
    <3>4. BootFits(pc[t], i, job[t].ws)'
      BY <2>6, <3>1, <3>3 DEF BootFits
    <3> QED BY <2>1, <3>1, <3>2, <3>4 DEF TaskFits, WarmPath
  <2>7. CASE <<pc[t], pc'[t]>> \in Onward /\ UNCHANGED <<vms, qemu, job>>
    <3>1. /\ pc[t] \in {"launch", "configure", "register", "undoCid"}
          /\ pc'[t] \in {"undoCid", "register", "undoVm"}
          /\ pc'[t] = "register" => pc[t] = "configure"
      BY <2>7 DEF Onward
    <3>2. BootFits(pc[t], i, job[t].ws) /\ job[t].ws.ds \in {i, None}
      BY <1>1, <3>1 DEF TaskFits, WarmPath
    <3>3. BootFits(pc[t], i, job[t].ws)'
      BY <2>7, <3>1, <3>2 DEF BootFits, Runs
    <3> QED BY <2>1, <2>7, <3>1, <3>2, <3>3 DEF TaskFits, WarmPath
  <2> QED BY <1>1, <1>4, <2>2, <2>3, <2>4, <2>5, <2>6, <2>7, BuildingSteps
<1> QED BY <1>3, <1>4
-----------------------------------------------------------------------------
(* The entry of the workspace a request is about *)

\* What is to be shown of it, by the place the request has come to.
LEMMA EntryFitsWhen ==
  ASSUME TypeInv, OneJobEach, NEW t \in Tasks, Step(t), NEW i \in Ids, i = job[t].id,
         NEW w, w = workspaces'[i],
         \/ pc'[t] \in Halting /\ vms'[i] = None
         \/ pc'[t] = "markRunning" /\ Runs(i, i, w.ds, w.cid)'
         \/ /\ pc'[t] \notin Halting \cup {"markRunning"} /\ w.state = "Running"
            /\ w.pid \in {i, w.ds} /\ Runs(i, w.pid, w.ds, w.cid)'
         \/ /\ pc'[t] \notin Halting \cup {"markRunning"} /\ w.state # "Running"
            /\ vms'[i] = None
  PROVE  EntryFits(i)'
<1>1. Halting \in SUBSET Working /\ {"markRunning"} \in SUBSET Working /\ "markRunning" \notin Halting
  BY DEF Halting, Working, Labels
<1>2. /\ AtWork(i, Halting)' <=> pc'[t] \in Halting
      /\ AtWork(i, {"markRunning"})' <=> pc'[t] = "markRunning"
  BY <1>1, AtWorkStep
<1> HIDE DEF AtWork, Halting
<1> QED BY <1>1, <1>2 DEF EntryFits, Runs

\* What holds of it before.
LEMMA EntryFitted ==
  ASSUME TypeInv, OneJobEach, EntriesFit, NEW t \in Tasks, Step(t), NEW i \in Registered, i = job[t].id,
         NEW w, w = workspaces[i]
  PROVE  /\ pc[t] \in Halting => vms[i] = None
         /\ pc[t] = "markRunning" => Runs(i, i, w.ds, w.cid)
         /\ pc[t] \notin Halting \cup {"markRunning"} /\ w.state = "Running" =>
              w.pid \in {i, w.ds} /\ Runs(i, w.pid, w.ds, w.cid)
         /\ pc[t] \notin Halting \cup {"markRunning"} /\ w.state # "Running" => vms[i] = None
<1>1. Halting \in SUBSET Working /\ {"markRunning"} \in SUBSET Working /\ "markRunning" \notin Halting
      /\ i \in Ids
  BY DEF Halting, Working, Labels, Registered
<1>2. /\ AtWork(i, Halting) <=> pc[t] \in Halting
      /\ AtWork(i, {"markRunning"}) <=> pc[t] = "markRunning"
  BY <1>1, AtWorkStep
<1> HIDE DEF AtWork, Halting
<1>3. EntryFits(i)
  BY DEF EntriesFit
<1> QED BY <1>1, <1>2, <1>3 DEF EntryFits

\* A new entry.
LEMMA NewEntryFits ==
  ASSUME TypeInv, OneJobEach, VmsFit, NEW t \in Tasks, Step(t), WarmRegister(t) \/ Register(t),
         NEW i \in Ids, i = job[t].id, workspaces[i] = None, i \in Registered'
  PROVE  EntryFits(i)'
<1>1. /\ pc \in [Tasks -> Labels] /\ workspaces \in [Ids -> Workspace \cup {None}]
      /\ Shaped(job[t], pc[t]) /\ pc[t] \in {"warmRegister", "register"}
  BY DEF TypeInv, JobsOK, RegistryOK, WarmRegister, Register, At
<1>2. workspaces'[i] # None
  BY DEF Registered
<1>3. /\ workspaces' = [workspaces EXCEPT ![i] = job[t].ws] /\ Goto(t, "save")
      /\ UNCHANGED <<vms, qemu>>
  BY <1>2 DEF WarmRegister, Register
<1> PICK w : w = job[t].ws
  OBVIOUS
<1>4. pc'[t] = "save" /\ workspaces'[i] = w
  BY <1>1, <1>3 DEF Goto
<1>5. Builds(t, Working)
  BY <1>1 DEF Builds, Shaped, WarmPath, Builders, Working, Labels
<1>6. TaskFits(t)
  BY <1>5 DEF VmsFit, TasksFit
<1>7. w.state = "Running" /\ w.pid \in {i, w.ds} /\ Runs(i, w.pid, w.ds, w.cid)
  <2>1. CASE pc[t] = "warmRegister"
    BY <1>6, <2>1 DEF TaskFits, WarmPath, ClaimFits
  <2>2. CASE pc[t] = "register"
    <3>1. BootFits("register", i, w) /\ w.ds \in {i, None} /\ w.state = "Running"
      BY <1>6, <2>2 DEF TaskFits, WarmPath
    <3>2. w.ds \in Ids
      BY <1>1, <2>2 DEF Shaped, WithDisk, ColdPath
    <3>3. w.ds = i
      BY <3>1, <3>2, IdsAssumption
    <3> QED BY <3>1, <3>3 DEF BootFits
  <2> QED BY <1>1, <2>1, <2>2
<1>8. Runs(i, w.pid, w.ds, w.cid)'
  BY <1>3, <1>7 DEF Runs
<1> QED BY <1>4, <1>7, <1>8, EntryFitsWhen DEF Halting

\* One that is stopped, started or destroyed.
LEMMA ServedEntryFits ==
  ASSUME TypeInv, OneJobEach, Apart, CopiesFit, VmsFit, NEW t \in Tasks, Step(t), Serves(t),
         NEW i \in Ids, i = job[t].id, i \in Registered'
  PROVE  EntryFits(i)'
<1>1. /\ pc \in [Tasks -> Labels] /\ workspaces \in [Ids -> Workspace \cup {None}]
      /\ vms \in [Ids -> Ids \cup {None}] /\ EntriesFit
  BY DEF TypeInv, JobsOK, RegistryOK, HostOK, VmsFit
<1>2. CopyFits(t) /\ i \in Registered
  BY DEF CopiesFit, CopyFits, Registered
<1> PICK w \in Workspace : w = workspaces[i]
  BY <1>1, <1>2 DEF Registered
<1>3. /\ w.ds = job[t].ws.ds /\ w.cid = job[t].ws.cid
      /\ pc[t] = "endVm" => w.state = job[t].ws.state
      /\ pc[t] \in {"ensureNetwork", "launch"} => w.state = "Stopped"
      /\ pc[t] = "markRunning" => job[t].ws.pid = i
  BY <1>2 DEF CopyFits
<1>4. /\ pc[t] \in Halting => vms[i] = None
      /\ pc[t] = "markRunning" => Runs(i, i, w.ds, w.cid)
      /\ pc[t] \notin Halting \cup {"markRunning"} /\ w.state = "Running" =>
           w.pid \in {i, w.ds} /\ Runs(i, w.pid, w.ds, w.cid)
      /\ pc[t] \notin Halting \cup {"markRunning"} /\ w.state # "Running" => vms[i] = None
  BY <1>1, <1>2, EntryFitted
<1>5. CASE DestroyVm(t) \/ StopVm(t)
  <2>1. pc[t] \in {"endVm", "stopVm"} /\ pc'[t] \in Halting
    BY <1>5, ServingLabels DEF Halting
  <2>2. vms[i] # None => w.state = "Running"
    BY <1>4, <2>1 DEF Halting
  <2>3. vms'[i] = None
    <3>1. CASE vms[i] # None
      <4>1. EndVm(i)
        BY <1>3, <1>5, <2>1, <2>2, <3>1 DEF DestroyVm, StopVm, At
      <4> QED BY <1>1, <4>1 DEF EndVm
    <3>2. CASE vms[i] = None
      BY <1>5, <3>2 DEF DestroyVm, StopVm
    <3> QED BY <3>1, <3>2
  <2> QED BY <2>1, <2>3, EntryFitsWhen
<1>6. CASE DestroyNetwork(t) \/ DestroyStorage(t) \/ DestroyCid(t)
  <2>1. pc[t] \in Halting /\ pc'[t] \in Halting
    BY <1>6, ServingLabels DEF Halting
  <2>2. UNCHANGED vms
    BY <1>6 DEF DestroyNetwork, DestroyStorage, DestroyCid, memory
  <2> QED BY <1>4, <2>1, <2>2, EntryFitsWhen
<1>7. CASE DestroyEntry(t)
  BY <1>1, <1>7 DEF DestroyEntry, Registered
<1>8. CASE MarkStopped(t) \/ MarkRunning(t)
  <2>1. pc[t] \in {"markStopped", "markRunning"} /\ pc'[t] = "save" /\ UNCHANGED <<vms, qemu>>
    BY <1>8, ServingLabels DEF MarkStopped, MarkRunning, Mark
  <2>2. \E v \in Workspace :
          /\ v = workspaces'[i] /\ v.ds = w.ds /\ v.cid = w.cid
          /\ IF pc[t] = "markStopped" THEN v.state = "Stopped"
             ELSE v.state = "Running" /\ v.pid = i
    <3>1. workspaces[i] # None
      BY <1>2 DEF Registered
    <3>2. CASE MarkStopped(t)
      <4>1. /\ pc[t] = "markStopped"
            /\ workspaces' = [workspaces EXCEPT ![i].state = "Stopped", ![i].pid = None]
        BY <3>1, <3>2 DEF MarkStopped, Mark, At
      <4> DEFINE v == [w EXCEPT !.state = "Stopped", !.pid = None]
      <4>2. v = workspaces'[i]
        BY <1>1, <4>1
      <4>3. v \in Workspace /\ v.ds = w.ds /\ v.cid = w.cid /\ v.state = "Stopped"
        BY DEF Workspace, States
      <4> HIDE DEF v
      <4> QED BY <4>1, <4>2, <4>3
    <3>3. CASE MarkRunning(t)
      <4>1. /\ pc[t] = "markRunning"
            /\ workspaces' = [workspaces EXCEPT ![i].state = "Running", ![i].pid = i]
        BY <1>3, <3>1, <3>3 DEF MarkRunning, Mark, At
      <4> DEFINE v == [w EXCEPT !.state = "Running", !.pid = i]
      <4>2. v = workspaces'[i]
        BY <1>1, <4>1
      <4>3. v \in Workspace /\ v.ds = w.ds /\ v.cid = w.cid /\ v.state = "Running" /\ v.pid = i
        BY DEF Workspace, States
      <4> HIDE DEF v
      <4> QED BY <4>1, <4>2, <4>3
    <3> QED BY <1>8, <3>2, <3>3
  <2> PICK v \in Workspace :
        /\ v = workspaces'[i] /\ v.ds = w.ds /\ v.cid = w.cid
        /\ IF pc[t] = "markStopped" THEN v.state = "Stopped"
           ELSE v.state = "Running" /\ v.pid = i
    BY <2>2
  <2>3. pc'[t] \notin Halting \cup {"markRunning"} /\ "markStopped" \in Halting
    BY <2>1 DEF Halting
  <2>4. CASE pc[t] = "markStopped"
    <3>1. vms'[i] = None /\ v.state # "Running"
      BY <1>4, <2>1, <2>3, <2>4
    <3> QED BY <2>3, <3>1, EntryFitsWhen
  <2>5. CASE pc[t] = "markRunning"
    <3>1. v.state = "Running" /\ v.pid = i /\ Runs(i, v.pid, v.ds, v.cid)'
      BY <1>4, <2>1, <2>5 DEF Runs
    <3> QED BY <2>3, <3>1, EntryFitsWhen
  <2> QED BY <2>1, <2>4, <2>5
<1>9. CASE EnsureNetwork(t) \/ (Launch(t) /\ ~Launches(t))
  <2>1. pc[t] \in {"ensureNetwork", "launch"} /\ UNCHANGED workspaces
    BY <1>9, ServingLabels DEF EnsureNetwork, Launch, memory
  <2>2. w.state = "Stopped" /\ vms[i] = None
    BY <1>3, <1>4, <2>1 DEF Halting
  <2>3. UNCHANGED vms
    BY <1>9, <2>2 DEF EnsureNetwork, Launches, memory
  <2>4. pc'[t] \notin Halting \cup {"markRunning"}
    <3>1. CASE EnsureNetwork(t)
      BY <3>1, ServingLabels DEF Halting
    <3>2. CASE Launch(t) /\ ~Launches(t)
      <4>1. vms' # [vms EXCEPT ![i] = i]
        BY <1>1, <2>2, <2>3, IdsAssumption
      <4>2. Return(t) \/ pc'[t] = "undoCid"
        BY <1>1, <3>2, <4>1 DEF Launch, Goto
      <4>3. pc'[t] \in {"idle", "undoCid"}
        BY <1>1, <4>2 DEF Return, Goto
      <4> QED BY <4>3 DEF Halting
    <3> QED BY <1>9, <3>1, <3>2
  <2> QED BY <2>1, <2>2, <2>3, <2>4, EntryFitsWhen
<1>10. CASE Launches(t) /\ job[t].op = "start"
  <2>1. PICK x \in Process :
          /\ x.cid = job[t].ws.cid /\ x.ds = job[t].ws.ds
          /\ qemu' = [qemu EXCEPT ![i] = x] /\ vms' = [vms EXCEPT ![i] = i]
          /\ pc'[t] = AfterLaunch(job[t].op) /\ pc[t] = "launch"
    BY <1>10, LaunchStep
  <2>2. vms'[i] = i /\ qemu'[i] = x /\ x # None
    BY <2>1, ProcessAssumption DEF TypeInv, HostOK
  <2>3. pc'[t] = "markRunning"
    BY <1>10, <2>1 DEF AfterLaunch
  <2>4. UNCHANGED workspaces
    BY <1>10 DEF Launches, Launch
  <2>5. Runs(i, i, w.ds, w.cid)'
    BY <1>3, <2>1, <2>2 DEF Runs
  <2> QED BY <2>3, <2>4, <2>5, EntryFitsWhen
<1> QED BY <1>5, <1>6, <1>7, <1>8, <1>9, <1>10, ServingSteps

\* So of every workspace.
LEMMA StepKeepsEntries ==
  ASSUME TypeInv, OneJobEach, JobsFit, Apart, CopiesFit, VmsFit, NEW t \in Tasks, Step(t)
  PROVE  EntriesFit'
<1> SUFFICES ASSUME NEW i \in Registered' PROVE EntryFits(i)'
  BY DEF EntriesFit
<1>1. i \in Ids /\ workspaces'[i] # None
  BY DEF Registered
<1>2. /\ \A j \in Ids : Untouched(j) \/ Owns(t, j)
      /\ EntriesFit /\ Shaped(job[t], pc[t]) /\ pc[t] \in Labels /\ pc \in [Tasks -> Labels]
  BY StepKeepsHandles DEF VmsFit, TypeInv, JobsOK
<1>3. CASE i # job[t].id
  BY <1>1, <1>2, <1>3, OtherEntriesFit
<1>4. CASE i = job[t].id /\ Builds(t, Working)
  <2>1. workspaces[i] = None
    BY <1>4 DEF JobsFit, Builds
  <2>2. WarmRegister(t) \/ Register(t)
    <3>1. ASSUME ~WarmRegister(t), ~Register(t), ~DestroyEntry(t) PROVE FALSE
      BY <1>1, <1>4, <2>1, <3>1, OwnEntry
    <3>2. ~DestroyEntry(t)
      BY <1>2, <1>4 DEF DestroyEntry, At, Shaped, Builds, Builders
    <3> QED BY <3>1, <3>2
  <2> QED BY <1>1, <1>4, <2>1, <2>2, NewEntryFits
<1>5. CASE i = job[t].id /\ Serves(t)
  BY <1>1, <1>5, ServedEntryFits
<1>6. CASE i = job[t].id /\ pc[t] \in {"save", "write"}
  <2>1. SaveBegin(t) \/ SaveEnd(t)
    BY <1>6 DEF Step, Claim, WarmRelease, WarmSetup, Rekey, WarmRegister, Provision, PopCid,
      CountCid, Launch, Configure, Register, UndoCid, UndoVm, UndoHost, ForkChecks, Clone,
      ForkSetup, DestroyVm, DestroyNetwork, DestroyStorage, DestroyCid, DestroyEntry, StopVm,
      MarkStopped, EnsureNetwork, MarkRunning, Mark, AddReady, At
  <2>2. UNCHANGED <<workspaces, vms, qemu>> /\ pc'[t] \in {"write", "idle"}
    BY <1>2, <2>1 DEF SaveBegin, SaveEnd, Return, Goto, memory
  <2> PICK w \in Workspace : w = workspaces[i] /\ w = workspaces'[i]
    BY <1>1, <2>2 DEF TypeInv, RegistryOK
  <2>3. i \in Registered /\ pc[t] \notin Halting \cup {"markRunning"}
        /\ pc'[t] \notin Halting \cup {"markRunning"}
    BY <1>6, <2>2 DEF Registered, Halting
  <2>4. /\ w.state = "Running" => w.pid \in {i, w.ds} /\ Runs(i, w.pid, w.ds, w.cid)
        /\ w.state # "Running" => vms[i] = None
    BY <1>2, <1>6, <2>3, EntryFitted
  <2>5. Runs(i, w.pid, w.ds, w.cid) => Runs(i, w.pid, w.ds, w.cid)'
    BY <2>2 DEF Runs
  <2> QED BY <1>1, <1>6, <2>2, <2>3, <2>4, <2>5, EntryFitsWhen
<1>7. Builds(t, Working) \/ Serves(t) \/ pc[t] \in {"save", "write"}
  <2>1. pc[t] # "idle"
    BY WhereItGoes
  <2> QED BY <1>2, <2>1
    DEF Builds, Serves, Working, Labels, Shaped, Builders, WarmPath, Ending
<1> QED BY <1>3, <1>4, <1>5, <1>6, <1>7
-----------------------------------------------------------------------------
(* Nothing is left with nobody *)

\* The pool gets what a request made for it, takes back a VM it could not hand
\* over, and gives one away.
LEMMA WarmIdsStep ==
  ASSUME TypeInv, Apart, CopiesFit, VmsFit, NEW t \in Tasks, Step(t)
  PROVE  /\ AddReady(t) =>
              /\ Builds(t, {"addReady"}) /\ job[t].ws.ds = job[t].id
              /\ WarmIds' = WarmIds \cup {job[t].id}
         /\ WarmSetup(t) /\ Return(t) =>
              /\ Builds(t, {"warmSetup"}) /\ job[t].ws.ds = job[t].src
              /\ WarmIds' = WarmIds \cup {job[t].src}
         /\ Claim(t) /\ ready # <<>> =>
              /\ Builds(t, {"warmRelease"})' /\ job'[t].ws.ds = job'[t].src
              /\ job'[t].src \in WarmIds /\ WarmIds' = WarmIds \ {job'[t].src}
         /\ ~AddReady(t) /\ ~(WarmSetup(t) /\ Return(t)) /\ ~(Claim(t) /\ ready # <<>>) =>
              WarmIds' = WarmIds
<1>1. /\ ready \in Seq(WarmVm) /\ pc \in [Tasks -> Labels] /\ Shaped(job[t], pc[t])
      /\ \A k, l \in Warm : ready[k].id = ready[l].id => k = l
  BY DEF TypeInv, JobsOK, PoolOK, Apart
<1>2. ASSUME NEW w \in WarmVm, ready' = Append(ready, w), TaskUses(t, w.id)
      PROVE  WarmIds' = WarmIds \cup {w.id}
  <2>1. w.id \in Ids
    BY DEF WarmVm
  <2>2. Owns(t, w.id)
    BY <1>2 DEF Owns
  <2>3. w.id \notin WarmIds
    BY <2>1, <2>2, OwnedByNoOther
  <2> QED BY <1>1, <1>2, <2>3, WarmWith
<1>3. ASSUME ~AddReady(t), ~(WarmSetup(t) /\ Return(t)), ~(Claim(t) /\ ready # <<>>)
      PROVE  WarmIds' = WarmIds
  <2>1. UNCHANGED ready
    BY <1>3, PoolStep DEF WarmSetup
  <2> QED BY <2>1 DEF WarmIds, Warm
<1>4. ASSUME Claim(t), ready # <<>>
      PROVE  /\ Builds(t, {"warmRelease"})' /\ job'[t].ws.ds = job'[t].src
             /\ job'[t].src \in WarmIds /\ WarmIds' = WarmIds \ {job'[t].src}
  <2>1. ready' = Tail(ready) /\ pc[t] = "claim" /\ pc'[t] = "warmRelease"
    BY <1>1, <1>4 DEF Claim, At, Goto
  <2>2. /\ job'[t].op = job[t].op /\ job'[t].src = Head(ready).id
        /\ job'[t].ws.ds = Head(ready).id
    BY <1>4, ClaimTakes DEF TypeInv
  <2>3. WarmIds' = WarmIds \ {Head(ready).id} /\ Head(ready).id \in WarmIds
    BY <1>1, <1>4, <2>1, WarmWithout
  <2> QED BY <1>1, <1>4, <2>1, <2>2, <2>3 DEF Builds, Builders, Shaped
<1>5. ASSUME WarmSetup(t), Return(t)
      PROVE  /\ Builds(t, {"warmSetup"}) /\ job[t].ws.ds = job[t].src
             /\ WarmIds' = WarmIds \cup {job[t].src}
  <2>1. pc[t] = "warmSetup" /\ pc'[t] = "idle"
    BY <1>1, <1>5 DEF WarmSetup, At, Return, Goto
  <2>2. ready' = Append(ready, [id |-> job[t].src, cid |-> job[t].ws.cid, ip |-> job[t].ws.ip])
    BY <1>1, <1>5, <2>1 DEF WarmSetup, Goto
  <2>3. Builds(t, {"warmSetup"}) /\ Builds(t, Working)
    BY <1>1, <2>1 DEF Builds, Builders, Shaped, WarmPath, Working, Labels
  <2>4. job[t].ws.ds = job[t].src
    BY <2>1, <2>3 DEF VmsFit, TasksFit, TaskFits, ClaimFits, WarmPath
  <2> DEFINE w == [id |-> job[t].src, cid |-> job[t].ws.cid, ip |-> job[t].ws.ip]
  <2>5. w \in WarmVm /\ w.id = job[t].src
    BY <1>1, <2>1 DEF Shaped, WarmPath, WithCid, WithIp, HoldsCid, WarmVm
  <2>6. TaskUses(t, w.id) /\ ready' = Append(ready, w)
    BY <2>2, <2>3, <2>4, <2>5 DEF TaskUses
  <2> HIDE DEF w
  <2> QED BY <1>2, <2>3, <2>4, <2>5, <2>6
<1>6. ASSUME AddReady(t)
      PROVE  /\ Builds(t, {"addReady"}) /\ job[t].ws.ds = job[t].id
             /\ WarmIds' = WarmIds \cup {job[t].id}
  <2>1. /\ pc[t] = "addReady"
        /\ ready' = Append(ready, [id |-> job[t].id, cid |-> job[t].ws.cid, ip |-> job[t].ws.ip])
    BY <1>6 DEF AddReady, At
  <2>2. Builds(t, {"addReady"}) /\ Builds(t, Working)
    BY <1>1, <2>1 DEF Builds, Builders, Shaped, Working, Labels
  <2>3. job[t].ws.ds \in {job[t].id, None} /\ job[t].ws.ds \in Ids
    BY <1>1, <2>1, <2>2 DEF VmsFit, TasksFit, TaskFits, WarmPath, Shaped, WithDisk, ColdPath
  <2>4. job[t].ws.ds = job[t].id
    BY <2>3, IdsAssumption
  <2> DEFINE w == [id |-> job[t].id, cid |-> job[t].ws.cid, ip |-> job[t].ws.ip]
  <2>5. w \in WarmVm /\ w.id = job[t].id
    BY <1>1, <2>1 DEF Shaped, Working, Labels, WithIp, WithCid, HoldsCid, ColdPath, WarmVm
  <2>6. TaskUses(t, w.id) /\ ready' = Append(ready, w)
    BY <2>1, <2>2, <2>5 DEF TaskUses
  <2> HIDE DEF w
  <2> QED BY <1>2, <2>2, <2>4, <2>5, <2>6
<1> QED BY <1>3, <1>4, <1>5, <1>6

\* How a request that builds comes to its end: it registers the workspace, hands
\* the VM to the pool, or has none by then.
Empty == {"provision", "counter", "forkChecks", "clone", "forkSetup", "undoHost"}
LEMMA LeavingSteps ==
  ASSUME TypeInv, "configure" \notin Faults, NEW t \in Tasks, Step(t),
         Builds(t, Working), ~Builds(t, Working)'
  PROVE  /\ UNCHANGED <<vms, qemu>>
         /\ \/ /\ WarmRegister(t) \/ Register(t)
               /\ workspaces' = [workspaces EXCEPT ![job[t].id] = job[t].ws]
            \/ AddReady(t)
            \/ WarmSetup(t) /\ Return(t)
            \/ pc[t] \in Empty
<1>1. pc \in [Tasks -> Labels] /\ Shaped(job[t], pc[t]) /\ job[t].op \in Builders /\ pc[t] \in Working
  BY DEF TypeInv, JobsOK, Builds
<1>2. ASSUME NEW label, Goto(t, label) PROVE pc'[t] = label
  BY <1>1, <1>2 DEF Goto
<1>3. pc'[t] \notin Working
  BY <1>1, OwnLocals DEF Builds, Working
<1>4. ASSUME NEW label \in Working PROVE ~Goto(t, label)
  BY <1>2, <1>3, <1>4
<1>5. CASE Claim(t) \/ WarmRelease(t) \/ Rekey(t) \/ PopCid(t) \/ Configure(t) \/ UndoCid(t) \/ UndoVm(t)
  BY <1>4, <1>5
  DEF Claim, WarmRelease, Rekey, PopCid, CidKnown, Configure, UndoCid, UndoVm, Fails, Working, Labels
<1>6. CASE WarmSetup(t)
  BY <1>4, <1>6 DEF WarmSetup, Working, Labels
<1>7. CASE WarmRegister(t) \/ Register(t)
  BY <1>4, <1>7 DEF WarmRegister, Register, Working, Labels
<1>8. CASE AddReady(t)
  BY <1>8 DEF AddReady
<1>9. CASE Provision(t) \/ CountCid(t) \/ ForkChecks(t) \/ Clone(t) \/ ForkSetup(t) \/ UndoHost(t)
  BY <1>9 DEF Provision, CountCid, ForkChecks, Clone, ForkSetup, UndoHost, At, Empty, memory
<1>10. CASE Launch(t)
  <2>1. AfterLaunch(job[t].op) \in Working
    BY DEF AfterLaunch, Working, Labels
  <2>2. job[t].op # "start"
    BY <1>1 DEF Builders
  <2> QED BY <1>4, <1>10, <2>1, <2>2 DEF Launch, Working, Labels
<1>11. CASE DestroyVm(t) \/ DestroyNetwork(t) \/ DestroyStorage(t) \/ DestroyCid(t) \/ DestroyEntry(t)
            \/ StopVm(t) \/ MarkStopped(t) \/ EnsureNetwork(t) \/ MarkRunning(t)
            \/ SaveBegin(t) \/ SaveEnd(t)
  BY <1>1, <1>11
  DEF DestroyVm, DestroyNetwork, DestroyStorage, DestroyCid, DestroyEntry, StopVm, MarkStopped,
      EnsureNetwork, MarkRunning, SaveBegin, SaveEnd, At, Shaped, Builders, Working, Ending
<1> QED BY <1>5, <1>6, <1>7, <1>8, <1>9, <1>10, <1>11 DEF Step

\* What a request that builds had a handle of is its own still, the entry's or
\* the pool's.
LEMMA OwnHandlesOwned ==
  ASSUME TypeInv, Apart, CopiesFit, VmsFit, "configure" \notin Faults, NEW t \in Tasks, Step(t),
         NEW j \in Ids, TaskUses(t, j), vms'[j] # None
  PROVE  j \in Registered' \/ j \in WarmIds' \/ TaskUses(t, j)'
<1>1. /\ Builds(t, Working) /\ TaskFits(t) /\ Shaped(job[t], pc[t]) /\ pc[t] \in Working
  BY DEF TaskUses, Builds, VmsFit, TasksFit, TypeInv, JobsOK
<1> PICK i \in Ids : i = job[t].id
  BY <1>1 DEF Shaped
<1>2. j \in {i, job[t].ws.ds}
  BY DEF TaskUses
<1>3. pc[t] \notin WarmPath => j = i /\ BootFits(pc[t], i, job[t].ws)
  BY <1>1, <1>2, IdsAssumption DEF TaskFits
<1>4. pc[t] \in WarmPath => ClaimFits(pc[t], i, job[t].src, job[t].ws)
  BY <1>1 DEF TaskFits
<1>7. CASE Builds(t, Working)'
  <2>1. pc'[t] \in Working /\ pc'[t] # "idle"
    BY <1>7 DEF Builds, Working
  <2>2. job'[t].id = i
    BY <2>1, OwnLocals
  <2>3. CASE j = i
    BY <1>7, <2>2, <2>3 DEF TaskUses
  <2>4. CASE j # i
    <3>1. pc[t] \in WarmPath /\ j = job[t].ws.ds
      BY <1>2, <1>3, <2>4
    <3>2. ~Claim(t) /\ ~Provision(t) /\ ~Clone(t)
      BY <3>1 DEF WarmPath, Claim, Provision, Clone, At
    <3>3. job'[t].ws.ds = j
      BY <2>1, <3>1, <3>2, LocalsStep
    <3> QED BY <1>7, <3>3 DEF TaskUses
  <2> QED BY <2>3, <2>4
<1>8. CASE ~Builds(t, Working)'
  <2>1. /\ UNCHANGED <<vms, qemu>>
        /\ \/ /\ WarmRegister(t) \/ Register(t)
              /\ workspaces' = [workspaces EXCEPT ![i] = job[t].ws]
           \/ AddReady(t)
           \/ WarmSetup(t) /\ Return(t)
           \/ pc[t] \in Empty
    BY <1>1, <1>8, LeavingSteps
  <2>2. CASE /\ WarmRegister(t) \/ Register(t)
             /\ workspaces' = [workspaces EXCEPT ![i] = job[t].ws]
    <3>1. pc[t] \in {"warmRegister", "register"} /\ vms[j] # None
      BY <2>1, <2>2 DEF WarmRegister, Register, At
    <3>2. j = i
      BY <1>2, <1>3, <1>4, <3>1 DEF WarmPath, ClaimFits
    <3>3. workspaces'[i] = job[t].ws
      BY <2>2 DEF TypeInv, RegistryOK
    <3>4. job[t].ws # None
      <4>1. job[t].ws \in Drafts /\ job[t].ws.ds \in Ids /\ job[t].ws.cid \in Cids
            /\ job[t].ws.ip \in IPs /\ job[t].ws.name \in Names \cup Ids
        BY <1>1, <3>1
        DEF TypeInv, JobsOK, JobRecords, Shaped, WarmPath, WithDisk, WithCid, WithIp, HoldsCid, ColdPath
      <4>2. job[t].ws \in Workspace
        BY <4>1 DEF Drafts, Workspace
      <4> QED BY <4>2, WorkspaceAssumption
    <3> QED BY <3>2, <3>3, <3>4 DEF Registered
  <2>3. CASE AddReady(t)
    <3>1. pc[t] = "addReady" /\ WarmIds' = WarmIds \cup {i}
      BY <2>3, WarmIdsStep DEF AddReady, At
    <3> QED BY <1>3, <3>1 DEF WarmPath
  <2>4. CASE WarmSetup(t) /\ Return(t)
    <3>1. pc[t] = "warmSetup" /\ vms[j] # None /\ WarmIds' = WarmIds \cup {job[t].src}
      BY <2>1, <2>4, WarmIdsStep DEF WarmSetup, At
    <3> QED BY <1>2, <1>4, <3>1 DEF WarmPath, ClaimFits
  <2>5. CASE pc[t] \in Empty
    BY <1>3, <2>1, <2>5 DEF Empty, WarmPath, BootFits
  <2> QED BY <2>1, <2>2, <2>3, <2>4, <2>5
<1> QED BY <1>7, <1>8

\* Every handle has somebody after the step.
LEMMA StepKeepsOwned ==
  ASSUME TypeInv, OneJobEach, JobsFit, Apart, CopiesFit, VmsFit, "configure" \notin Faults,
         NEW t \in Tasks, Step(t)
  PROVE  HandlesOwned'
<1> SUFFICES ASSUME NEW j \in Ids, vms'[j] # None
             PROVE  j \in Registered' \/ j \in WarmIds' \/ \E u \in Tasks : TaskUses(u, j)'
  BY DEF HandlesOwned
<1>1. /\ Untouched(j) \/ Owns(t, j)
      /\ EntriesFit /\ Shaped(job[t], pc[t]) /\ pc \in [Tasks -> Labels]
  BY StepKeepsHandles DEF VmsFit, TypeInv, JobsOK
<1>2. CASE TaskUses(t, j)
  <2>1. j \in Registered' \/ j \in WarmIds' \/ TaskUses(t, j)'
    BY <1>2, OwnHandlesOwned
  <2> HIDE DEF TaskUses
  <2> QED BY <2>1
<1>3. CASE Serves(t) /\ j = job[t].id
  <2>1. j \in Registered
    BY <1>3 DEF CopiesFit, CopyFits, Registered
  <2>2. ~WarmRegister(t) /\ ~Register(t)
    BY <1>1, <1>3 DEF WarmRegister, Register, At, Shaped, Serves, WarmPath
  <2>3. ~DestroyEntry(t)
    <3> SUFFICES ASSUME DestroyEntry(t) PROVE FALSE
      OBVIOUS
    <3>1. pc[t] = "endEntry" /\ UNCHANGED vms
      BY DEF DestroyEntry, At
    <3>2. pc[t] \in Halting
      BY <3>1 DEF Halting
    <3>3. vms[j] = None
      BY <1>1, <1>3, <2>1, <3>2, EntryFitted
    <3> QED BY <3>1, <3>3
  <2>4. workspaces'[j] # None
    BY <1>3, <2>1, <2>2, <2>3, OwnEntry DEF Registered
  <2> QED BY <2>4 DEF Registered
<1>4. CASE ~Owns(t, j)
  <2>1. vms[j] # None
    BY <1>1, <1>4 DEF Untouched
  <2>2. CASE j \in Registered
    <3>1. CASE j # job[t].id
      BY <2>2, <3>1, OtherEntriesStay DEF Registered
    <3>2. CASE j = job[t].id
      <4>1. ~(job[t].op \in Builders /\ pc[t] \in Working) /\ ~Serves(t)
        BY <1>4, <3>2 DEF Owns, TaskUses, Builds
      <4>2. ~WarmRegister(t) /\ ~Register(t) /\ ~DestroyEntry(t)
        BY <1>1, <4>1
        DEF WarmRegister, Register, DestroyEntry, At, Shaped, WarmPath, Builders, Working, Labels, Serves
      <4>3. workspaces'[j] # None
        BY <2>2, <3>2, <4>2, OwnEntry DEF Registered
      <4> QED BY <4>3 DEF Registered
    <3> QED BY <3>1, <3>2
  <2>3. CASE j \in WarmIds
    <3>1. CASE Claim(t) /\ ready # <<>>
      <4>1. /\ Builds(t, {"warmRelease"})' /\ job'[t].ws.ds = job'[t].src
            /\ WarmIds' = WarmIds \ {job'[t].src}
        BY <3>1, WarmIdsStep
      <4>2. j = job'[t].src => TaskUses(t, j)'
        BY <4>1 DEF TaskUses, Builds, Working, Labels
      <4> HIDE DEF TaskUses
      <4> QED BY <2>3, <4>1, <4>2
    <3>2. CASE ~(Claim(t) /\ ready # <<>>)
      BY <2>3, <3>2, WarmIdsStep
    <3> QED BY <3>1, <3>2
  <2>4. ASSUME NEW u \in Tasks, TaskUses(u, j) PROVE \E v \in Tasks : TaskUses(v, j)'
    <3>1. u # t
      BY <1>4, <2>4 DEF Owns
    <3>2. TaskUses(u, j)'
      BY <2>4, <3>1, OthersStay DEF TaskUses, Builds
    <3> HIDE DEF TaskUses
    <3> QED BY <3>2
  <2> HIDE DEF TaskUses
  <2> QED BY <2>1, <2>2, <2>3, <2>4 DEF VmsFit, HandlesOwned
<1> QED BY <1>2, <1>3, <1>4 DEF Owns

\* Every step of a request keeps the VMs in order.
LEMMA StepKeepsVms ==
  ASSUME TypeInv, OneJobEach, JobsFit, Apart, CopiesFit, VmsFit, "configure" \notin Faults,
         NEW t \in Tasks, Step(t)
  PROVE  Apart' /\ CopiesFit' /\ VmsFit'
<1>1. Apart' /\ CopiesFit'
  BY StepKeepsApart, StepKeepsCopies DEF VmsFit
<1>2. EntriesFit' /\ WarmFit' /\ HandlesLive' /\ HandlesOwned'
  BY StepKeepsEntries, StepKeepsWarm, StepKeepsHandles, StepKeepsOwned
<1>3. \A j \in Ids : Untouched(j) \/ Owns(t, j)
  BY StepKeepsHandles
<1>4. ASSUME NEW u \in Tasks, Builds(u, Working)' PROVE TaskFits(u)'
  BY <1>3, <1>4, OtherTasksFit, OwnTaskFits DEF VmsFit
<1>5. TasksFit'
  BY <1>4 DEF TasksFit
<1> QED BY <1>1, <1>2, <1>5 DEF VmsFit
-----------------------------------------------------------------------------
(* Calls *)

\* A request begins with an id nothing names, or with a copy of the entry.
Starts(t, label, op, i, src, ws) ==
  /\ Call(t, label, op, i, src, ws) /\ UNCHANGED <<workspaces, vms, ready, net, storage, qemu>>
  /\ label \notin Halting \cup {"markRunning"}
  /\ op \in Builders =>
       /\ i \in Ids /\ Fresh(i) /\ label \in {"claim", "provision", "forkChecks"}
       /\ ws.ds = None /\ ws.state = "Running"
  /\ op \in {"start", "stop", "destroy"} =>
       /\ i \in Ids /\ workspaces[i] # None /\ ws = workspaces[i]
       /\ label \in {"ensureNetwork", "launch"} => ws.state = "Stopped"

LEMMA FreshIsFree ==
  ASSUME TypeInv, TasksFit, NEW i \in Ids, Fresh(i)
  PROVE  /\ \A j \in Ids : ~EntryUses(j, i)
         /\ \A u \in Tasks : ~TaskUses(u, i)
         /\ i \notin WarmIds /\ vms[i] = None
<1>1. i \notin Registered /\ vms[i] = None
  BY DEF Fresh
<1>2. \A j \in Ids : j \in Registered => workspaces[j].ds # i
  BY DEF Fresh, Refers, Registered
<1>3. ASSUME NEW u \in Tasks, TaskUses(u, i) PROVE FALSE
  <2>1. job[u].id # i /\ job[u].src # i
    BY DEF Fresh
  <2>2. TaskFits(u) /\ i = job[u].ws.ds
    BY <1>3, <2>1 DEF TasksFit, TaskUses
  <2>3. job[u].ws.ds \in {job[u].id, None, job[u].src}
    BY <2>2 DEF TaskFits, ClaimFits
  <2> QED BY <2>1, <2>2, <2>3, IdsAssumption
<1>4. i \notin WarmIds
  BY DEF Fresh, WarmIds, Warm
<1> QED BY <1>1, <1>2, <1>3, <1>4 DEF EntryUses

\* It leaves everything in order.
LEMMA StartKeepsVms ==
  ASSUME TypeInv, Apart, CopiesFit, VmsFit, NEW t \in Tasks, NEW label, NEW op,
         NEW i, NEW src, NEW ws, Starts(t, label, op, i, src, ws)
  PROVE  Apart' /\ CopiesFit' /\ VmsFit'
<1>1. /\ pc'[t] = label /\ pc[t] = "idle"
      /\ job'[t] = [op |-> op, id |-> i, src |-> src, ws |-> ws]
      /\ \A u \in Tasks : u # t => pc'[u] = pc[u] /\ job'[u] = job[u]
  BY DEF Starts, Call, Goto, At, TypeInv, JobsOK
<1>2. UNCHANGED <<workspaces, vms, ready, qemu>> /\ Warm' = Warm /\ WarmIds' = WarmIds
  BY DEF Starts, Warm, WarmIds
<1>3. /\ op \in Builders =>
           /\ i \in Ids /\ Fresh(i) /\ label \in {"claim", "provision", "forkChecks"}
           /\ ws.ds = None /\ ws.state = "Running"
      /\ op \in {"start", "stop", "destroy"} =>
           /\ i \in Ids /\ workspaces[i] # None /\ ws = workspaces[i]
           /\ label \in {"ensureNetwork", "launch"} => ws.state = "Stopped"
      /\ label \notin Halting \cup {"markRunning"}
  BY DEF Starts
<1>4. op \in Builders =>
        /\ \A j \in Ids : ~EntryUses(j, i)
        /\ \A u \in Tasks : ~TaskUses(u, i)
        /\ i \notin WarmIds /\ vms[i] = None
  BY <1>3, FreshIsFree DEF VmsFit
<1>5. \A j, d \in Ids : EntryUses(j, d)' <=> EntryUses(j, d)
  BY <1>2 DEF EntryUses, Registered
<1>6. /\ \A u \in Tasks, d \in Ids : u # t => (TaskUses(u, d)' <=> TaskUses(u, d))
      /\ \A d \in Ids : ~TaskUses(t, d)
      /\ \A d \in Ids : TaskUses(t, d)' => op \in Builders /\ d = i
  BY <1>1, <1>3, IdsAssumption DEF TaskUses, Builds, Working
<1>7. Apart'
  <2>1. ASSUME NEW d \in Ids
        PROVE  /\ \A k, j \in Ids : EntryUses(k, d)' /\ EntryUses(j, d)' => k = j
               /\ \A v, u \in Tasks : TaskUses(v, d)' /\ TaskUses(u, d)' => v = u
               /\ \A j \in Ids, v \in Tasks : ~(EntryUses(j, d)' /\ TaskUses(v, d)')
               /\ d \in WarmIds' =>
                    (\A j \in Ids : ~EntryUses(j, d)') /\ (\A v \in Tasks : ~TaskUses(v, d)')
    <3> HIDE DEF EntryUses, TaskUses
    <3>1. /\ \A k, j \in Ids : EntryUses(k, d) /\ EntryUses(j, d) => k = j
          /\ \A v, u \in Tasks : TaskUses(v, d) /\ TaskUses(u, d) => v = u
          /\ \A j \in Ids, v \in Tasks : ~(EntryUses(j, d) /\ TaskUses(v, d))
          /\ d \in WarmIds =>
               (\A j \in Ids : ~EntryUses(j, d)) /\ (\A v \in Tasks : ~TaskUses(v, d))
      BY DEF Apart
    <3>2. CASE TaskUses(t, d)'
      BY <1>2, <1>4, <1>5, <1>6, <3>1, <3>2
    <3>3. CASE ~TaskUses(t, d)'
      BY <1>2, <1>5, <1>6, <3>1, <3>3
    <3> QED BY <3>2, <3>3
  <2> QED BY <1>2, <2>1 DEF Apart
<1>8. ASSUME NEW u \in Tasks, Serves(u)' PROVE CopyFits(u)'
  <2>1. CASE u # t
    BY <1>1, <1>2, <1>8, <2>1 DEF CopiesFit, Serves, CopyFits
  <2>2. CASE u = t
    <3>1. op \in {"start", "stop", "destroy"}
      BY <1>1, <1>8, <2>2 DEF Serves
    <3> QED BY <1>1, <1>2, <1>3, <2>2, <3>1 DEF CopyFits
  <2> QED BY <2>1, <2>2
<1>9. ASSUME NEW u \in Tasks, Builds(u, Working)' PROVE TaskFits(u)'
  <2>1. CASE u # t
    <3>1. Builds(u, Working) /\ TaskFits(u)
      BY <1>1, <1>9, <2>1 DEF Builds, VmsFit, TasksFit
    <3> QED BY <1>1, <1>2, <2>1, <3>1 DEF TaskFits, ClaimFits, BootFits, Runs
  <2>2. CASE u = t
    <3>1. op \in Builders
      BY <1>1, <1>9, <2>2 DEF Builds
    <3>2. BootFits(pc[u], job[u].id, job[u].ws)'
      BY <1>1, <1>2, <1>3, <1>4, <2>2, <3>1 DEF BootFits
    <3> QED BY <1>1, <1>3, <2>2, <3>1, <3>2 DEF TaskFits, WarmPath
  <2> QED BY <2>1, <2>2
<1>10. ASSUME NEW j \in Ids, NEW labels \in {Halting, {"markRunning"}}
       PROVE  AtWork(j, labels)' <=> AtWork(j, labels)
  <2>1. "idle" \notin labels /\ label \notin labels
    BY <1>3 DEF Halting
  <2> QED BY <1>1, <2>1 DEF AtWork
<1>11. ASSUME NEW j \in Registered' PROVE EntryFits(j)'
  <2>1. j \in Registered /\ j \in Ids /\ EntryFits(j)
    BY <1>2 DEF Registered, VmsFit, EntriesFit
  <2> HIDE DEF AtWork
  <2> QED BY <1>2, <1>10, <2>1 DEF EntryFits, Runs
<1>12. ASSUME NEW j \in Ids, vms'[j] # None
       PROVE  j \in Registered' \/ j \in WarmIds' \/ \E u \in Tasks : TaskUses(u, j)'
  <2>1. j \in Registered \/ j \in WarmIds \/ \E u \in Tasks : TaskUses(u, j)
    BY <1>2, <1>12 DEF VmsFit, HandlesOwned
  <2>2. Registered' = Registered
    BY <1>2 DEF Registered
  <2> HIDE DEF TaskUses
  <2> QED BY <1>2, <1>6, <2>1, <2>2
<1>13. WarmFit' /\ HandlesLive'
  BY <1>2 DEF VmsFit, WarmFit, HandlesLive, Runs
<1> QED BY <1>7, <1>8, <1>9, <1>11, <1>12, <1>13
    DEF CopiesFit, VmsFit, EntriesFit, TasksFit, HandlesOwned

\* So do all the calls there are.
LEMMA CallStarts ==
  ASSUME TypeInv,
         \/ \E t \in Requests : Arrive(t)
         \/ SaveTimer
         \/ \E i \in Ids : ReplenishPool(i)
  PROVE  \E t \in Tasks : \E label, op, i, src, ws : Starts(t, label, op, i, src, ws)
<1>1. ASSUME NEW i \in Ids, Callable(i) PROVE workspaces[i] # None
  BY <1>1 DEF Callable, Registered
<1>2. ASSUME NEW t \in Requests, Arrive(t)
      PROVE  \E label, op, i, src, ws : Starts(t, label, op, i, src, ws)
  <2>1. ASSUME NEW i \in Ids, NEW n \in Names \cup {i}, NEW default \in BOOLEAN,
               Create(t, i, n, default)
        PROVE  \E label, op, j, src, ws : Starts(t, label, op, j, src, ws)
    <3>1. Starts(t, IF PoolEnabled /\ default THEN "claim" ELSE "provision", "create", i, None,
                 [Blank EXCEPT !.name = n])
      BY <2>1 DEF Create, Starts, Blank, memory, Halting
    <3> QED BY <3>1
  <2>2. ASSUME NEW i \in Ids, NEW n \in Names \cup {i}, NEW source \in Ids, Fork(t, source, i, n)
        PROVE  \E label, op, j, src, ws : Starts(t, label, op, j, src, ws)
    <3>1. Starts(t, "forkChecks", "fork", i, workspaces[source].ds, [Blank EXCEPT !.name = n])
      BY <2>2 DEF Fork, Starts, Blank, memory, Halting
    <3> QED BY <3>1
  <2>3. ASSUME NEW i \in Ids, Destroy(t, i)
        PROVE  \E label, op, j, src, ws : Starts(t, label, op, j, src, ws)
    <3>1. Starts(t, "endVm", "destroy", i, None, workspaces[i])
      BY <1>1, <2>3 DEF Destroy, Starts, memory, Halting, Builders
    <3> QED BY <3>1
  <2>4. ASSUME NEW i \in Ids, Stop(t, i)
        PROVE  \E label, op, j, src, ws : Starts(t, label, op, j, src, ws)
    <3>1. Starts(t, "stopVm", "stop", i, None, workspaces[i])
      BY <1>1, <2>4 DEF Stop, Starts, memory, Halting, Builders
    <3> QED BY <3>1
  <2>5. ASSUME NEW i \in Ids, Start(t, i)
        PROVE  \E label, op, j, src, ws : Starts(t, label, op, j, src, ws)
    <3>1. Starts(t, "ensureNetwork", "start", i, None, workspaces[i])
      BY <1>1, <2>5 DEF Start, Starts, memory, Halting, Builders
    <3> QED BY <3>1
  <2> QED BY <1>2, <2>1, <2>2, <2>3, <2>4, <2>5 DEF Arrive
<1>3. CASE SaveTimer
  <2>1. Starts(Saver, "save", "save", None, None, Blank)
    BY <1>3 DEF SaveTimer, Starts, memory, Halting, Builders
  <2> QED BY <2>1 DEF Tasks
<1>4. ASSUME NEW i \in Ids, ReplenishPool(i)
      PROVE  \E label, op, j, src, ws : Starts(Replenisher, label, op, j, src, ws)
  <2>1. Starts(Replenisher, "provision", "replenish", i, None, Blank)
    BY <1>4 DEF ReplenishPool, Starts, Blank, memory, Halting
  <2> QED BY <2>1
<1> QED BY <1>2, <1>3, <1>4 DEF Tasks

-----------------------------------------------------------------------------
(* The theorem about VMs *)

VmInv == TypeInv /\ OneJobEach /\ JobsFit /\ Apart /\ CopiesFit /\ VmsFit

LEMMA InitVms ==
  ASSUME Init
  PROVE  VmInv
<1>1. TypeInv /\ OneJobEach /\ JobsFit
  BY InitTyped, InitOwned
<1>2. /\ workspaces = [i \in Ids |-> None] /\ vms = [i \in Ids |-> None]
      /\ qemu = [i \in Ids |-> None] /\ ready = <<>>
      /\ \A t \in Tasks : pc[t] = "idle" /\ job[t] = NoJob
  BY DEF Init
<1>3. Registered = {} /\ Warm = {} /\ WarmIds = {}
  BY <1>2 DEF Registered, Warm, WarmIds
<1>4. \A t \in Tasks : ~Serves(t) /\ ~Builds(t, Working) /\ \A d \in Ids : ~TaskUses(t, d)
  BY <1>2 DEF Serves, Builds, TaskUses, Working
<1>5. Apart /\ CopiesFit
  BY <1>3, <1>4 DEF Apart, CopiesFit, EntryUses
<1>6. VmsFit
  BY <1>2, <1>3, <1>4 DEF VmsFit, EntriesFit, WarmFit, TasksFit, HandlesLive, HandlesOwned
<1> QED BY <1>1, <1>5, <1>6 DEF VmInv

LEMMA NextKeepsVms ==
  ASSUME OneCallAtATime, {"crash", "configure", "vm"} \cap Faults = {}, VmInv, [Next]_vars
  PROVE  VmInv'
<1> USE DEF VmInv
<1>1. TypeInv'
  BY NextTyped
<1>2. ASSUME NEW t \in Tasks, Step(t) PROVE VmInv'
  BY <1>1, <1>2, StepKeepsJobs, StepKeepsVms
<1>3. CASE \/ \E t \in Requests : Arrive(t)
           \/ SaveTimer
           \/ \E i \in Ids : ReplenishPool(i)
  <2>1. OneJobEach' /\ JobsFit'
    BY <1>3, CallKeepsJobs
  <2>2. Apart' /\ CopiesFit' /\ VmsFit'
    BY <1>3, CallStarts, StartKeepsVms
  <2> QED BY <1>1, <2>1, <2>2
<1>4. CASE UNCHANGED vars
  <2>1. UNCHANGED <<workspaces, vms, ready, qemu, pc, job>>
    BY <1>4 DEF vars, memory
  <2>2. OneJobEach' /\ JobsFit'
    BY <2>1 DEF OneJobEach, JobsFit
  <2>3. Apart' /\ CopiesFit'
    BY <2>1 DEF Apart, EntryUses, TaskUses, WarmIds, Warm, Registered, Builds,
      CopiesFit, CopyFits, Serves
  <2>4. VmsFit'
    BY <2>1 DEF VmsFit, EntriesFit, EntryFits, WarmFit, Warm, TasksFit, TaskFits, BootFits, ClaimFits,
      HandlesLive, HandlesOwned, Runs, Registered, WarmIds, TaskUses, Builds, AtWork
  <2> QED BY <1>1, <2>2, <2>3, <2>4
<1>5. ~Restart /\ \A p \in Ids : ~VmDies(p)
  BY DEF Restart, VmDies, Fails
<1> QED BY <1>2, <1>3, <1>4, <1>5 DEF Next

\* What the invariant says of a workspace nobody is at work on.
LEMMA QuietEntry ==
  ASSUME VmInv, NEW i \in Registered, ~Busy(i)
  PROVE  IF workspaces[i].state = "Running"
           THEN /\ workspaces[i].pid \in {i, workspaces[i].ds}
                /\ Runs(i, workspaces[i].pid, workspaces[i].ds, workspaces[i].cid)
           ELSE vms[i] = None
<1>1. EntryFits(i)
  BY DEF VmInv, VmsFit, EntriesFit
<1>2. \A labels : ~AtWork(i, labels)
  BY DEF Busy, AtWork
<1> HIDE DEF AtWork
<1> QED BY <1>1, <1>2 DEF EntryFits

LEMMA InvMeansVmsAccountedFor ==
  ASSUME VmInv
  PROVE  VmsAccountedFor
<1>1. ASSUME NEW p \in Ids, qemu[p] # None
      PROVE  \E i \in Ids :
               /\ \A j \in Ids : vms[j] = p <=> j = i
               /\ \/ i \in Registered /\ workspaces[i].state = "Running"
                  \/ \E k \in Warm : ready[k].id = i
                  \/ Busy(i) \/ \E t \in Tasks : job[t].src = i
  <2>1. PICK i \in Ids : vms[i] = p
    BY <1>1 DEF VmInv, VmsFit, HandlesLive
  <2>2. vms[i] # None
    BY <2>1, IdsAssumption
  <2>3. \A j \in Ids : vms[j] = p <=> j = i
    BY <2>1, <2>2 DEF VmInv, VmsFit, HandlesLive
  <2>4. ASSUME NEW u \in Tasks, TaskUses(u, i) PROVE Busy(i) \/ job[u].src = i
    <3>1. TaskFits(u) /\ i \in {job[u].id, job[u].ws.ds}
      BY <2>4 DEF VmInv, VmsFit, TasksFit, TaskUses
    <3>2. job[u].ws.ds \in {job[u].id, None, job[u].src}
      BY <3>1 DEF TaskFits, ClaimFits
    <3> QED BY <3>1, <3>2, IdsAssumption DEF Busy
  <2>5. i \in Registered \/ i \in WarmIds \/ \E u \in Tasks : TaskUses(u, i)
    BY <2>2 DEF VmInv, VmsFit, HandlesOwned
  <2>6. \/ i \in Registered /\ workspaces[i].state = "Running"
        \/ \E k \in Warm : ready[k].id = i
        \/ Busy(i) \/ \E t \in Tasks : job[t].src = i
    <3> HIDE DEF TaskUses
    <3>1. i \in Registered => Busy(i) \/ workspaces[i].state = "Running"
      BY <2>2, QuietEntry
    <3>2. i \in WarmIds => \E k \in Warm : ready[k].id = i
      BY DEF WarmIds
    <3> QED BY <2>4, <2>5, <3>1, <3>2
  <2> QED BY <2>3, <2>6
<1>2. ASSUME NEW i \in Registered, Quiet(i)
      PROVE  IF workspaces[i].state = "Running"
               THEN /\ vms[i] # None /\ vms[i] = workspaces[i].pid
                    /\ qemu[vms[i]] # None
                    /\ qemu[vms[i]].ds = workspaces[i].ds /\ qemu[vms[i]].cid = workspaces[i].cid
               ELSE /\ vms[i] = None
                    /\ \A p \in Ids : qemu[p] # None => qemu[p].ds # workspaces[i].ds
  <2>1. ~Busy(i) /\ i \in Ids
    BY <1>2 DEF Quiet, Registered
  <2>2. workspaces[i].ds \in Ids
    BY DEF VmInv, TypeInv, RegistryOK, Workspace, Registered
  <2>3. CASE workspaces[i].state = "Running"
    <3>1. /\ workspaces[i].pid \in {i, workspaces[i].ds}
          /\ Runs(i, workspaces[i].pid, workspaces[i].ds, workspaces[i].cid)
      BY <2>1, <2>3, QuietEntry
    <3>2. workspaces[i].pid # None
      BY <2>1, <2>2, <3>1, IdsAssumption
    <3> QED BY <2>3, <3>1, <3>2 DEF Runs
  <2>4. CASE workspaces[i].state # "Running"
    <3>1. vms[i] = None
      BY <2>1, <2>4, QuietEntry
    <3>2. ASSUME NEW p \in Ids, qemu[p] # None, qemu[p].ds = workspaces[i].ds PROVE FALSE
      <4>1. PICK j \in Ids : vms[j] = p
        BY <3>2 DEF VmInv, VmsFit, HandlesLive
      <4>2. vms[j] # None /\ j # i
        BY <3>1, <4>1, IdsAssumption
      <4>3. Whole(j, p, qemu[p].ds)
        BY <4>1, <4>2, HandlesWhole DEF VmInv
      <4> PICK d \in Ids : d = qemu[p].ds
        BY <2>2, <3>2
      <4>4. EntryUses(i, d)
        BY <3>2 DEF EntryUses
      <4> HIDE DEF EntryUses, TaskUses
      <4>5. /\ \A k \in Ids : EntryUses(k, d) => k = i
            /\ d \notin WarmIds /\ \A u \in Tasks : ~TaskUses(u, d)
        BY <2>1, <4>4 DEF VmInv, Apart
      <4> QED BY <4>2, <4>3, <4>5 DEF Whole
    <3> QED BY <2>4, <3>1, <3>2
  <2> QED BY <2>3, <2>4
<1> QED BY <1>1, <1>2 DEF VmsAccountedFor, ProcessesOwned, StateMatchesVm

\* While the calls on one workspace follow one another, no VM dies by itself and
\* the daemon neither dies nor loses a guest agent: a QEMU process is under one
\* handle, that of a running workspace, a warm VM or a request at work, and what
\* a workspace's state says of its VM is so whenever no request is at work on it,
\* whatever else fails and however the requests interleave.
THEOREM VmTheorem ==
  ASSUME OneCallAtATime, {"crash", "configure", "vm"} \cap Faults = {}
  PROVE  Spec => []VmsAccountedFor
<1>1. Init => VmInv
  BY InitVms
<1>2. VmInv /\ [Next]_vars => VmInv'
  BY NextKeepsVms
<1>3. VmInv => VmsAccountedFor
  BY InvMeansVmsAccountedFor
<1> QED BY <1>1, <1>2, <1>3, PTL DEF Spec

-----------------------------------------------------------------------------
(* Disks *)

\* Who has the disk d.
EntryDisk(i, d) == i \in KeepsDisk /\ workspaces[i].ds = d
TaskDisk(t, d) == Builds(t, HoldsDisk) /\ job[t].ws.ds = d
OwnsDisk(d) == (\E i \in Ids : EntryDisk(i, d)) \/ d \in WarmIds \/ \E t \in Tasks : TaskDisk(t, d)

LEMMA OwnersOfDisk ==
  ASSUME NEW d
  PROVE  /\ DiskOwners(d) # {} <=> OwnsDisk(d)
         /\ DiskOwners(d)' # {} <=> OwnsDisk(d)'
<1>1. DiskOwners(d) # {} <=> OwnsDisk(d)
  BY DEF DiskOwners, OwnsDisk, EntryDisk, TaskDisk, WarmIds, KeepsDisk, Registered
<1>2. DiskOwners(d)' # {} <=> OwnsDisk(d)'
  BY DEF DiskOwners, OwnsDisk, EntryDisk, TaskDisk, WarmIds, KeepsDisk, Registered
<1> QED BY <1>1, <1>2

\* To have a disk is a use of its id.
LEMMA OwningIsUsing ==
  ASSUME NEW d
  PROVE  /\ \A i \in Ids : EntryDisk(i, d) => EntryUses(i, d)
         /\ \A u \in Tasks : TaskDisk(u, d) => TaskUses(u, d)
<1>1. HoldsDisk \subseteq Working
  BY DEF HoldsDisk, WarmPath, ColdPath, Working, Labels
<1> QED BY <1>1 DEF EntryDisk, EntryUses, TaskDisk, TaskUses, KeepsDisk, Builds

LEMMA KeepsDiskStep ==
  ASSUME TypeInv, OneJobEach, JobsFit, NEW t \in Tasks, Step(t), NEW i \in Ids
  PROVE  /\ i # job[t].id => (i \in KeepsDisk' <=> i \in KeepsDisk) /\ workspaces'[i] = workspaces[i]
         /\ i = job[t].id =>
              /\ i \in KeepsDisk <=> workspaces[i] # None /\ pc[t] \notin {"endCid", "endEntry"}
              /\ i \in KeepsDisk' <=> workspaces'[i] # None /\ pc'[t] \notin {"endCid", "endEntry"}
<1> DEFINE labels == {"endCid", "endEntry"}
<1>1. labels \in SUBSET (Ending \cup {"endEntry"})
  BY DEF Ending
<1>2. /\ i \in KeepsDisk <=> workspaces[i] # None /\ ~TornDown(i, labels)
      /\ i \in KeepsDisk' <=> workspaces'[i] # None /\ ~TornDown(i, labels)'
  BY DEF KeepsDisk, Registered
<1>3. i # job[t].id => workspaces'[i] = workspaces[i]
  BY OtherEntriesStay
<1>4. /\ i # job[t].id => (TornDown(i, labels)' <=> TornDown(i, labels))
      /\ i = job[t].id => (TornDown(i, labels) <=> pc[t] \in labels)
      /\ i = job[t].id => (TornDown(i, labels)' <=> pc'[t] \in labels)
  BY <1>1, TornStep
<1> QED BY <1>2, <1>3, <1>4

\* A workspace is registered with all its fields.
LEMMA DraftIsWhole ==
  ASSUME TypeInv, NEW t \in Tasks, pc[t] \in {"warmRegister", "register"}
  PROVE  job[t].ws # None
<1>1. /\ job[t].ws \in Drafts /\ job[t].ws.ds \in Ids /\ job[t].ws.cid \in Cids
      /\ job[t].ws.ip \in IPs /\ job[t].ws.name \in Names \cup Ids
  BY DEF TypeInv, JobsOK, JobRecords, Shaped, WarmPath, WithDisk, WithCid, WithIp, HoldsCid, ColdPath
<1>2. job[t].ws \in Workspace
  BY <1>1 DEF Drafts, Workspace
<1> QED BY <1>2, WorkspaceAssumption

\* A request that has a disk keeps it, and what it has on the host with it, until
\* it registers the workspace, hands the VM to the pool or undoes what it did.
LEMMA HolderSteps ==
  ASSUME TypeInv, "configure" \notin Faults, next_vsock_cid < CidLimit,
         NEW t \in Tasks, Step(t), Builds(t, HoldsDisk)
  PROVE  \/ /\ Builds(t, HoldsDisk)' /\ job'[t].id = job[t].id /\ job'[t].src = job[t].src
            /\ job'[t].ws.ds = job[t].ws.ds
            /\ pc[t] \in HoldsIp \ {"warmRelease"} => pc'[t] \in HoldsIp \ {"warmRelease"}
         \/ /\ WarmRegister(t) \/ Register(t)
            /\ workspaces'[job[t].id] = job[t].ws /\ job[t].ws # None /\ pc'[t] = "save"
         \/ AddReady(t)
         \/ WarmSetup(t) /\ Return(t)
         \/ UndoHost(t)
         \/ ForkSetup(t) /\ Return(t)
<1>1. /\ pc \in [Tasks -> Labels] /\ job[t] \in JobRecords /\ Shaped(job[t], pc[t])
      /\ workspaces \in [Ids -> Workspace \cup {None}]
      /\ job[t].op \in Builders /\ pc[t] \in HoldsDisk
  BY DEF TypeInv, JobsOK, RegistryOK, Builds
<1>2. ASSUME NEW label, Goto(t, label) PROVE pc'[t] = label
  BY <1>1, <1>2 DEF Goto
<1> DEFINE Onward2 ==
      /\ Builds(t, HoldsDisk)' /\ job'[t].id = job[t].id /\ job'[t].src = job[t].src
      /\ job'[t].ws.ds = job[t].ws.ds
      /\ pc[t] \in HoldsIp \ {"warmRelease"} => pc'[t] \in HoldsIp \ {"warmRelease"}
<1>3. ASSUME pc'[t] \in HoldsDisk,
             pc[t] \in HoldsIp \ {"warmRelease"} => pc'[t] \in HoldsIp \ {"warmRelease"}
      PROVE  Onward2
  <2>1. pc'[t] # "idle"
    BY <1>3 DEF HoldsDisk, WarmPath, ColdPath
  <2>2. ~Claim(t) /\ ~Provision(t) /\ ~Clone(t)
    BY <1>1 DEF Claim, Provision, Clone, At, HoldsDisk, WarmPath, ColdPath
  <2>3. /\ job'[t].op = job[t].op /\ job'[t].id = job[t].id /\ job'[t].src = job[t].src
        /\ job'[t].ws.ds = job[t].ws.ds
    BY <2>1, <2>2, LocalsStep
  <2> QED BY <1>1, <1>3, <2>1, <2>3 DEF Builds
<1> HIDE DEF Onward2
<1>4. CASE WarmRelease(t) \/ WarmSetup(t) \/ Rekey(t)
  <2>1. /\ pc[t] \in {"warmRelease", "warmSetup", "rekey"}
        /\ \/ WarmSetup(t) /\ Return(t)
           \/ pc[t] = "warmRelease" /\ pc'[t] = "warmSetup"
           \/ pc[t] # "warmRelease" /\ pc'[t] \in {"rekey", "warmRegister"}
    BY <1>2, <1>4 DEF WarmRelease, WarmSetup, Rekey, At
  <2>2. CASE ~(WarmSetup(t) /\ Return(t))
    <3>1. pc'[t] \in HoldsDisk
      BY <2>1, <2>2 DEF HoldsDisk, WarmPath, ColdPath
    <3>2. pc[t] \in HoldsIp \ {"warmRelease"} => pc'[t] \in HoldsIp \ {"warmRelease"}
      BY <2>1, <2>2 DEF HoldsIp, ColdPath
    <3> QED BY <1>3, <3>1, <3>2 DEF Onward2
  <2> QED BY <2>2
<1>5. CASE PopCid(t) \/ CountCid(t)
  <2>1. next_vsock_cid # CidLimit
    BY ConstantsAssumption DEF TypeInv, CidsOK
  <2>2. pc'[t] \in {"counter", "launch"}
    BY <1>2, <1>5, <2>1 DEF PopCid, CountCid, CidKnown
  <2>3. pc'[t] \in HoldsDisk /\ pc'[t] \in HoldsIp \ {"warmRelease"}
    BY <2>2 DEF HoldsDisk, HoldsIp, ColdPath
  <2> QED BY <1>3, <2>3 DEF Onward2
<1>6. CASE Launch(t)
  <2>1. AfterLaunch(job[t].op) \in ColdPath
    BY <1>1 DEF AfterLaunch, Builders, ColdPath
  <2>2. job[t].op # "start"
    BY <1>1 DEF Builders
  <2>3. pc'[t] \in {AfterLaunch(job[t].op), "undoCid"}
    BY <1>2, <1>6, <2>2 DEF Launch
  <2>4. pc'[t] \in HoldsDisk /\ pc'[t] \in HoldsIp \ {"warmRelease"}
    BY <2>1, <2>3 DEF HoldsDisk, HoldsIp, ColdPath
  <2> QED BY <1>3, <2>4 DEF Onward2
<1>7. CASE Configure(t) \/ UndoCid(t) \/ UndoVm(t)
  <2>1. pc'[t] \in {"register", "undoVm", "undoHost"}
    BY <1>2, <1>7 DEF Configure, UndoCid, UndoVm, Fails
  <2>2. pc'[t] \in HoldsDisk /\ pc'[t] \in HoldsIp \ {"warmRelease"}
    BY <2>1 DEF HoldsDisk, HoldsIp, ColdPath
  <2> QED BY <1>3, <2>2 DEF Onward2
<1>8. CASE WarmRegister(t) \/ Register(t)
  <2>1. pc[t] \in {"warmRegister", "register"}
    BY <1>8 DEF WarmRegister, Register, At
  <2>2. job[t].id \in Ids
    BY <1>1, <2>1 DEF Shaped, Working, Labels
  <2>3. CASE Goto(t, "save") /\ workspaces' = [workspaces EXCEPT ![job[t].id] = job[t].ws]
    BY <1>1, <1>2, <1>8, <2>1, <2>2, <2>3, DraftIsWhole
  <2>4. CASE Goto(t, "undoCid")
    <3>1. pc'[t] = "undoCid"
      BY <1>2, <2>4
    <3>2. pc'[t] \in HoldsDisk /\ pc'[t] \in HoldsIp \ {"warmRelease"}
      BY <3>1 DEF HoldsDisk, HoldsIp, ColdPath
    <3> QED BY <1>3, <3>2 DEF Onward2
  <2> QED BY <1>8, <2>3, <2>4 DEF WarmRegister, Register
<1>9. CASE ForkSetup(t)
  <2>1. CASE ~Return(t)
    <3>1. pc'[t] = "cid"
      BY <1>2, <1>9, <2>1 DEF ForkSetup
    <3>2. pc'[t] \in HoldsDisk /\ pc'[t] \in HoldsIp \ {"warmRelease"}
      BY <3>1 DEF HoldsDisk, HoldsIp
    <3> QED BY <1>3, <3>2 DEF Onward2
  <2> QED BY <1>9, <2>1
<1>10. CASE AddReady(t) \/ UndoHost(t)
  BY <1>10
<1>11. ~(Claim(t) \/ Provision(t) \/ ForkChecks(t) \/ Clone(t)
         \/ DestroyVm(t) \/ DestroyNetwork(t) \/ DestroyStorage(t) \/ DestroyCid(t) \/ DestroyEntry(t)
         \/ StopVm(t) \/ MarkStopped(t) \/ EnsureNetwork(t) \/ MarkRunning(t)
         \/ SaveBegin(t) \/ SaveEnd(t))
  BY <1>1
  DEF Claim, Provision, ForkChecks, Clone, DestroyVm, DestroyNetwork, DestroyStorage, DestroyCid,
      DestroyEntry, StopVm, MarkStopped, EnsureNetwork, MarkRunning, SaveBegin, SaveEnd, At,
      HoldsDisk, WarmPath, ColdPath
<1> QED BY <1>4, <1>5, <1>6, <1>7, <1>8, <1>9, <1>10, <1>11 DEF Step, Onward2

\* A request that has a disk had it before, or has just got it.
LEMMA HeldBefore ==
  ASSUME TypeInv, NEW t \in Tasks, Step(t), job'[t].op \in Builders, pc'[t] \in HoldsDisk,
         ~(Claim(t) /\ ready # <<>>), ~Provision(t), ~Clone(t)
  PROVE  pc[t] \in HoldsDisk
<1>1. pc \in [Tasks -> Labels] /\ Shaped(job[t], pc[t])
  BY DEF TypeInv, JobsOK
<1>2. ASSUME NEW label, Goto(t, label) PROVE pc'[t] = label
  BY <1>1, <1>2 DEF Goto
<1> USE DEF HoldsDisk, WarmPath, ColdPath
<1>3. job'[t].op = job[t].op
  BY OwnLocals
<1>4. pc'[t] \notin {"idle", "provision", "clone", "endNetwork", "endStorage", "endCid", "endEntry",
                    "markStopped", "markRunning", "save", "write"}
  OBVIOUS
<1>5. CASE Claim(t) \/ ForkChecks(t)
  BY <1>2, <1>4, <1>5 DEF Claim, ForkChecks, Return
<1>6. CASE DestroyVm(t) \/ DestroyNetwork(t) \/ DestroyStorage(t) \/ DestroyCid(t) \/ DestroyEntry(t)
           \/ StopVm(t) \/ MarkStopped(t) \/ MarkRunning(t) \/ SaveBegin(t) \/ SaveEnd(t)
  BY <1>2, <1>4, <1>6
  DEF DestroyVm, DestroyNetwork, DestroyStorage, DestroyCid, DestroyEntry, StopVm, MarkStopped,
      MarkRunning, Mark, SaveBegin, SaveEnd, Return
<1>7. ~EnsureNetwork(t)
  BY <1>1, <1>3 DEF EnsureNetwork, At, Shaped, Builders
<1>8. CASE WarmRelease(t) \/ WarmSetup(t) \/ Rekey(t) \/ WarmRegister(t) \/ PopCid(t) \/ CountCid(t)
           \/ Launch(t) \/ Configure(t) \/ Register(t) \/ AddReady(t)
           \/ UndoCid(t) \/ UndoVm(t) \/ UndoHost(t) \/ ForkSetup(t)
  BY <1>8
  DEF WarmRelease, WarmSetup, Rekey, WarmRegister, PopCid, CountCid, Launch, Configure, Register,
      AddReady, UndoCid, UndoVm, UndoHost, ForkSetup, At
<1> QED BY <1>5, <1>6, <1>7, <1>8 DEF Step

\* The steps that give up a disk.
Drops(t, d) ==
  /\ DestroyDataset(d)
  /\ \/ UndoHost(t) /\ Builds(t, {"undoHost"}) /\ d = job[t].ws.ds
     \/ ForkSetup(t) /\ Return(t) /\ Builds(t, {"forkSetup"}) /\ d \in {job[t].id, job[t].ws.ds}
     \/ DestroyStorage(t) /\ Serves(t) /\ pc'[t] = "endCid" /\ d = job[t].ws.ds

LEMMA DropSteps ==
  ASSUME TypeInv, VmsFit, NEW t \in Tasks, Step(t)
  PROVE  /\ UndoHost(t) => Drops(t, job[t].ws.ds)
         /\ ForkSetup(t) /\ Return(t) => Drops(t, job[t].id) /\ job[t].ws.ds = job[t].id
         /\ DestroyStorage(t) => Drops(t, job[t].ws.ds)
<1>1. pc \in [Tasks -> Labels] /\ job[t] \in JobRecords /\ Shaped(job[t], pc[t])
  BY DEF TypeInv, JobsOK
<1>2. ASSUME UndoHost(t) PROVE Drops(t, job[t].ws.ds)
  BY <1>1, <1>2 DEF UndoHost, Drops, At, Builds, Shaped
<1>3. ASSUME ForkSetup(t), Return(t) PROVE Drops(t, job[t].id) /\ job[t].ws.ds = job[t].id
  <2>1. pc[t] = "forkSetup" /\ pc'[t] = "idle"
    BY <1>1, <1>3 DEF ForkSetup, At, Return, Goto
  <2>2. DestroyDataset(job[t].id)
    BY <1>1, <1>3, <2>1 DEF ForkSetup, Goto
  <2>3. Builds(t, {"forkSetup"}) /\ Builds(t, Working)
    BY <1>1, <2>1 DEF Builds, Builders, Shaped, Working, Labels
  <2>4. job[t].ws.ds \in {job[t].id, None} /\ job[t].ws.ds \in Ids
    BY <1>1, <2>1, <2>3 DEF VmsFit, TasksFit, TaskFits, WarmPath, Shaped, WithDisk
  <2>5. job[t].ws.ds = job[t].id
    BY <2>4, IdsAssumption
  <2> QED BY <1>3, <2>2, <2>3, <2>5 DEF Drops
<1>4. ASSUME DestroyStorage(t) PROVE Drops(t, job[t].ws.ds)
  <2>1. pc[t] = "endStorage" /\ pc'[t] = "endCid"
    BY <1>1, <1>4 DEF DestroyStorage, At, Goto
  <2> QED BY <1>1, <1>4, <2>1 DEF DestroyStorage, Drops, Serves, Shaped, Ending, Working, Labels
<1> QED BY <1>2, <1>3, <1>4

\* Who has a disk passes it on, keeps it or drops it.
LEMMA DiskLosses ==
  ASSUME TypeInv, OneJobEach, JobsFit, Apart, CopiesFit, VmsFit,
         "configure" \notin Faults, next_vsock_cid < CidLimit,
         NEW t \in Tasks, Step(t), NEW d \in Ids, OwnsDisk(d)
  PROVE  OwnsDisk(d)' \/ Drops(t, d)
<1>1. pc \in [Tasks -> Labels] /\ Shaped(job[t], pc[t])
  BY DEF TypeInv, JobsOK
<1>2. ASSUME NEW i \in Ids, EntryDisk(i, d) PROVE EntryDisk(i, d)' \/ Drops(t, d)
  <2>1. i \in KeepsDisk /\ workspaces[i].ds = d
    BY <1>2 DEF EntryDisk
  <2>2. CASE i # job[t].id
    BY <2>1, <2>2, KeepsDiskStep DEF EntryDisk
  <2>3. CASE i = job[t].id
    <3>1. workspaces[i] # None /\ pc[t] \notin {"endCid", "endEntry"}
      BY <2>1, <2>3, KeepsDiskStep
    <3>2. ~WarmRegister(t) /\ ~Register(t)
      BY <1>1, <2>3, <3>1
      DEF WarmRegister, Register, At, JobsFit, Shaped, WarmPath, Builders, Working, Labels
    <3>3. ~DestroyEntry(t) /\ ~DestroyCid(t)
      BY <3>1 DEF DestroyEntry, DestroyCid, At
    <3>4. workspaces'[i] # None /\ workspaces'[i].ds = d
      BY <2>1, <2>3, <3>1, <3>2, <3>3, OwnEntry
    <3>5. CASE pc'[t] \notin {"endCid", "endEntry"}
      BY <2>3, <3>4, <3>5, KeepsDiskStep DEF EntryDisk
    <3>6. CASE pc'[t] = "endEntry"
      BY <3>3, <3>6, WhereItGoes
    <3>7. CASE pc'[t] = "endCid"
      <4>1. DestroyStorage(t) /\ pc[t] = "endStorage"
        BY <3>7, DestroyOrder
      <4>2. Serves(t)
        BY <1>1, <4>1 DEF Serves, Shaped, Ending, Working, Labels
      <4>3. d = job[t].ws.ds
        BY <2>1, <2>3, <4>2 DEF CopiesFit, CopyFits
      <4> QED BY <4>1, <4>3, DropSteps
    <3> QED BY <3>5, <3>6, <3>7
  <2> QED BY <2>2, <2>3
<1>3. ASSUME d \in WarmIds PROVE d \in WarmIds' \/ TaskDisk(t, d)'
  <2>1. CASE Claim(t) /\ ready # <<>>
    BY <1>3, <2>1, WarmIdsStep DEF TaskDisk, Builds, HoldsDisk, WarmPath
  <2>2. CASE ~(Claim(t) /\ ready # <<>>)
    BY <1>3, <2>2, WarmIdsStep
  <2> QED BY <2>1, <2>2
<1>4. ASSUME NEW u \in Tasks, TaskDisk(u, d)
      PROVE  \/ TaskDisk(u, d)' \/ d \in WarmIds' \/ Drops(t, d)
             \/ \E i \in Ids : EntryDisk(i, d)'
  <2>1. CASE u # t
    BY <1>4, <2>1, OthersStay DEF TaskDisk, Builds
  <2>2. CASE u = t
    <3>1. Builds(t, HoldsDisk) /\ job[t].ws.ds = d /\ job[t].id \in Ids
      BY <1>1, <1>4, <2>2
      DEF TaskDisk, Builds, Shaped, HoldsDisk, WarmPath, ColdPath, Working, Labels
    <3>2. CASE Builds(t, HoldsDisk)' /\ job'[t].ws.ds = job[t].ws.ds
      BY <2>2, <3>1, <3>2 DEF TaskDisk
    <3>3. CASE workspaces'[job[t].id] = job[t].ws /\ job[t].ws # None /\ pc'[t] = "save"
      <4> PICK i \in Ids : i = job[t].id
        BY <3>1
      <4>1. i \in KeepsDisk'
        BY <3>3, KeepsDiskStep
      <4>2. workspaces'[i].ds = d
        BY <3>1, <3>3
      <4> QED BY <2>2, <4>1, <4>2 DEF EntryDisk
    <3>4. CASE AddReady(t)
      BY <3>1, <3>4, WarmIdsStep
    <3>5. CASE WarmSetup(t) /\ Return(t)
      BY <3>1, <3>5, WarmIdsStep
    <3>6. CASE UndoHost(t) \/ (ForkSetup(t) /\ Return(t))
      BY <3>1, <3>6, DropSteps
    <3>7. \/ Builds(t, HoldsDisk)' /\ job'[t].ws.ds = job[t].ws.ds
          \/ workspaces'[job[t].id] = job[t].ws /\ job[t].ws # None /\ pc'[t] = "save"
          \/ AddReady(t)
          \/ WarmSetup(t) /\ Return(t)
          \/ UndoHost(t) \/ (ForkSetup(t) /\ Return(t))
      BY <3>1, HolderSteps
    <3> QED BY <3>2, <3>3, <3>4, <3>5, <3>6, <3>7
  <2> QED BY <2>1, <2>2
<1> HIDE DEF EntryDisk, TaskDisk
<1> QED BY <1>2, <1>3, <1>4 DEF OwnsDisk

\* A disk that is given up has no VM any more.
LEMMA DroppedIsIdle ==
  ASSUME VmInv, NEW t \in Tasks, Step(t), NEW d \in Ids, Drops(t, d)
  PROVE  {p \in Alive : qemu[p].ds = d} = {}
<1> SUFFICES ASSUME NEW p \in Ids, qemu[p] # None, qemu[p].ds = d PROVE FALSE
  BY DEF Alive
<1>1. PICK j \in Ids : vms[j] = p
  BY DEF VmInv, VmsFit, HandlesLive
<1>2. vms[j] # None
  BY <1>1, IdsAssumption
<1>3. CASE Builds(t, {"undoHost", "forkSetup"}) /\ d \in {job[t].id, job[t].ws.ds}
  <2>1. Builds(t, Working)
    BY <1>3 DEF Builds, Working, Labels
  <2>2. TaskUses(t, d)
    BY <1>3, <2>1 DEF TaskUses
  <2>3. TaskFits(t) /\ pc[t] \in {"undoHost", "forkSetup"}
    BY <1>3, <2>1 DEF VmInv, VmsFit, TasksFit, Builds
  <2>4. vms[job[t].id] = None /\ job[t].ws.ds \in {job[t].id, None}
    BY <2>3 DEF TaskFits, BootFits, WarmPath
  <2>5. \A k \in Ids : TaskUses(t, k) => k = job[t].id
    BY <2>4, IdsAssumption DEF TaskUses
  <2> HIDE DEF TaskUses
  <2>6. PICK k \in Ids : vms[k] = p /\ (k = job[t].id \/ TaskUses(t, k))
    BY <2>2, OnlyHandle DEF VmInv, Owns
  <2> QED BY <2>4, <2>5, <2>6, IdsAssumption
<1>4. CASE DestroyStorage(t) /\ Serves(t) /\ d = job[t].ws.ds
  <2>1. /\ pc[t] = "endStorage" /\ CopyFits(t) /\ Shaped(job[t], pc[t])
    BY <1>4 DEF DestroyStorage, At, VmInv, CopiesFit, TypeInv, JobsOK
  <2>2. job[t].id \in Ids
    BY <2>1 DEF Shaped, Working, Labels
  <2> PICK i \in Ids : i = job[t].id
    BY <2>2
  <2>3. i \in Registered /\ workspaces[i].ds = d
    BY <1>4, <2>1 DEF CopyFits, Registered
  <2>4. EntryUses(i, d) /\ vms[i] = None
    <3>1. pc[t] \in Halting /\ EntriesFit
      BY <2>1 DEF Halting, VmInv, VmsFit
    <3> QED BY <2>3, <3>1, EntryFitted DEF EntryUses, VmInv
  <2> HIDE DEF EntryUses, TaskUses
  <2>5. /\ \A k \in Ids : EntryUses(k, d) => k = i
        /\ d \notin WarmIds
        /\ \A u \in Tasks : ~TaskUses(u, d)
    BY <2>4 DEF VmInv, Apart
  <2>6. Whole(j, p, d)
    BY <1>1, <1>2, HandlesWhole DEF VmInv
  <2>7. j = i
    BY <2>5, <2>6 DEF Whole
  <2> QED BY <1>2, <2>4, <2>7
<1> QED BY <1>3, <1>4 DEF Drops, Builds

\* No disk is left behind.
LEMMA StepAccountsForDisks ==
  ASSUME VmInv, {"configure", "destroy"} \cap Faults = {}, next_vsock_cid < CidLimit,
         NEW t \in Tasks, Step(t),
         NEW d \in datasets, DiskOwners(d) # {}, DiskOwners(d)' = {}
  PROVE  d \notin datasets' \/ \E e \in datasets : origin[e] = d
<1>1. d \in Ids
  BY DEF VmInv, TypeInv, HostOK
<1>2. OwnsDisk(d) /\ ~OwnsDisk(d)'
  BY OwnersOfDisk
<1>3. Drops(t, d)
  BY <1>1, <1>2, DiskLosses DEF VmInv
<1>4. {p \in Alive : qemu[p].ds = d} = {}
  BY <1>1, <1>3, DroppedIsIdle
<1>5. DestroyDataset(d)
  BY <1>3 DEF Drops
<1> QED BY <1>4, <1>5 DEF DestroyDataset, Destroyable, RemoveDataset, Fails

\* A request that begins has no disk, and takes none from a workspace.
LEMMA StartKeepsDisks ==
  ASSUME NEW t \in Tasks, NEW label, NEW op, NEW i, NEW src, NEW ws,
         TypeInv, Starts(t, label, op, i, src, ws), NEW d
  PROVE  OwnsDisk(d)' <=> OwnsDisk(d)
<1>1. /\ pc'[t] = label /\ pc[t] = "idle"
      /\ job'[t] = [op |-> op, id |-> i, src |-> src, ws |-> ws]
      /\ \A u \in Tasks : u # t => pc'[u] = pc[u] /\ job'[u] = job[u]
      /\ workspaces' = workspaces /\ ready' = ready
  BY DEF Starts, Call, Goto, At, TypeInv, JobsOK
<1>2. label \notin HoldsDisk \/ op \notin Builders
  BY DEF Starts, Halting, HoldsDisk, WarmPath, ColdPath
<1>3. label \notin {"endCid", "endEntry"}
  BY DEF Starts, Halting
<1>4. \A j \in Ids : TornDown(j, {"endCid", "endEntry"})' <=> TornDown(j, {"endCid", "endEntry"})
  BY <1>1, <1>3 DEF TornDown
<1>5. \A j \in Ids : EntryDisk(j, d)' <=> EntryDisk(j, d)
  BY <1>1, <1>4 DEF EntryDisk, KeepsDisk, Registered
<1>6. \A u \in Tasks : TaskDisk(u, d)' <=> TaskDisk(u, d)
  <2>1. "idle" \notin HoldsDisk
    BY DEF HoldsDisk, WarmPath, ColdPath
  <2> QED BY <1>1, <1>2, <2>1 DEF TaskDisk, Builds
<1>7. WarmIds' = WarmIds
  BY <1>1 DEF WarmIds, Warm
<1> HIDE DEF EntryDisk, TaskDisk
<1> QED BY <1>5, <1>6, <1>7 DEF OwnsDisk

\* While the calls on one workspace follow one another, no VM dies by itself, the
\* daemon neither dies nor loses a guest agent, ZFS refuses nothing it could do
\* and the CID counter is not used up: what takes the last owner from a disk
\* removes it, unless a clone depends on it; no rollback, destroy or return of a
\* warm VM leaves a disk behind.
THEOREM DiskTheorem ==
  ASSUME OneCallAtATime, {"crash", "configure", "vm", "destroy"} \cap Faults = {}
  PROVE  Spec /\ [](next_vsock_cid < CidLimit) => DisksAccountedFor
<1> DEFINE Counting == next_vsock_cid < CidLimit
           Kept == \A d \in datasets : DiskOwners(d) # {} /\ DiskOwners(d)' = {} =>
                     d \notin datasets' \/ \E e \in datasets : origin[e] = d
<1>1. Init => VmInv
  BY InitVms
<1>2. VmInv /\ [Next]_vars => VmInv'
  BY NextKeepsVms
<1>3. VmInv /\ Counting /\ [Next]_vars => [Kept]_vars
  <2> SUFFICES ASSUME VmInv, Counting, Next PROVE Kept
    OBVIOUS
  <2> SUFFICES ASSUME NEW d \in datasets, DiskOwners(d) # {}, DiskOwners(d)' = {}
               PROVE  d \notin datasets' \/ \E e \in datasets : origin[e] = d
    OBVIOUS
  <2>1. ASSUME NEW t \in Tasks, Step(t) PROVE d \notin datasets' \/ \E e \in datasets : origin[e] = d
    BY <2>1, StepAccountsForDisks
  <2>2. ASSUME \/ \E t \in Requests : Arrive(t)
               \/ SaveTimer
               \/ \E i \in Ids : ReplenishPool(i)
        PROVE FALSE
    <3>1. OwnsDisk(d) /\ ~OwnsDisk(d)'
      BY OwnersOfDisk
    <3> HIDE DEF OwnsDisk
    <3> QED BY <2>2, <3>1, CallStarts, StartKeepsDisks DEF VmInv
  <2>3. ~Restart /\ \A p \in Ids : ~VmDies(p)
    BY DEF Restart, VmDies, Fails
  <2> QED BY <2>1, <2>2, <2>3 DEF Next
<1> QED BY <1>1, <1>2, <1>3, PTL DEF Spec, DisksAccountedFor

\* After the step a dropped disk is nobody's.
LEMMA DroppedIsUnowned ==
  ASSUME VmInv, NEW t \in Tasks, Step(t), NEW d \in Ids, Drops(t, d)
  PROVE  ~OwnsDisk(d)'
<1>1. pc \in [Tasks -> Labels]
  BY DEF VmInv, TypeInv, JobsOK
<1>2. pc[t] \in {"undoHost", "forkSetup", "endStorage"}
  BY DEF Drops, Builds, DestroyStorage, At
<1>3. ~Moves(t)
  BY <1>2 DEF Moves, Claim, WarmSetup, WarmRegister, Register, AddReady, At
<1>4. /\ \A i \in Ids : EntryDisk(i, d)' => EntryUses(i, d)
      /\ \A u \in Tasks : TaskDisk(u, d)' => TaskUses(u, d) /\ Builds(u, HoldsDisk)'
      /\ WarmIds' = WarmIds
  <2>1. /\ \A i \in Ids : i \in KeepsDisk' => i \in Registered'
        /\ \A u \in Tasks : Builds(u, HoldsDisk)' => Builds(u, Working)'
    BY DEF KeepsDisk, Builds, HoldsDisk, WarmPath, ColdPath, Working, Labels
  <2>2. /\ UNCHANGED ready
        /\ \A i \in Ids : i \in Registered' => i \in Registered /\ workspaces'[i].ds = workspaces[i].ds
        /\ \A u \in Tasks : Builds(u, Working)' =>
             Builds(u, Working) /\ job'[u].id = job[u].id /\ job'[u].ws.ds \in {job[u].id, job[u].ws.ds}
    BY <1>3, UsesStep DEF VmInv
  <2> QED BY <2>1, <2>2 DEF EntryDisk, EntryUses, TaskDisk, TaskUses, WarmIds, Warm
<1>5. CASE UndoHost(t) \/ (ForkSetup(t) /\ Return(t))
  <2>1. Builds(t, Working) /\ d \in {job[t].id, job[t].ws.ds}
    BY <1>2, <1>5 DEF Drops, Builds, DestroyStorage, UndoHost, ForkSetup, At, Working, Labels
  <2>2. pc'[t] = "idle"
    BY <1>1, <1>5 DEF UndoHost, Return, Goto
  <2>3. TaskUses(t, d) /\ ~Builds(t, HoldsDisk)'
    BY <2>1, <2>2 DEF TaskUses, Builds, HoldsDisk, WarmPath, ColdPath
  <2> HIDE DEF EntryUses, TaskUses, EntryDisk, TaskDisk
  <2>4. /\ \A i \in Ids : ~EntryUses(i, d)
        /\ d \notin WarmIds
        /\ \A u \in Tasks : TaskUses(u, d) => u = t
    BY <2>3 DEF VmInv, Apart
  <2> QED BY <1>4, <2>3, <2>4 DEF OwnsDisk
<1>6. CASE DestroyStorage(t) /\ Serves(t) /\ pc'[t] = "endCid" /\ d = job[t].ws.ds
  <2>1. CopyFits(t) /\ job[t].id \in Ids
    BY <1>6 DEF VmInv, CopiesFit, TypeInv, JobsOK, Shaped, Serves
  <2> PICK i \in Ids : i = job[t].id
    BY <2>1
  <2>2. EntryUses(i, d)
    BY <1>6, <2>1 DEF CopyFits, EntryUses, Registered
  <2>3. ~EntryDisk(i, d)'
    BY <1>6, KeepsDiskStep DEF VmInv, EntryDisk
  <2> HIDE DEF EntryUses, TaskUses, EntryDisk, TaskDisk
  <2>4. /\ \A j \in Ids : EntryUses(j, d) => j = i
        /\ d \notin WarmIds
        /\ \A u \in Tasks : ~TaskUses(u, d)
    BY <2>2 DEF VmInv, Apart
  <2> QED BY <1>4, <2>3, <2>4 DEF OwnsDisk
<1> QED BY <1>5, <1>6 DEF Drops

\* A disk somebody has got a moment ago is new, or somebody had it before.
LEMMA DiskGains ==
  ASSUME VmInv, NEW t \in Tasks, Step(t), NEW d \in Ids, OwnsDisk(d)'
  PROVE  OwnsDisk(d) \/ d \in datasets'
<1>1. pc \in [Tasks -> Labels] /\ job \in [Tasks -> JobRecords] /\ job[t] \in JobRecords
      /\ Shaped(job[t], pc[t]) /\ workspaces \in [Ids -> Workspace \cup {None}]
  BY DEF VmInv, TypeInv, JobsOK, RegistryOK
<1>2. ASSUME NEW i \in Ids, EntryDisk(i, d)' PROVE OwnsDisk(d)
  <2>1. i \in KeepsDisk' /\ workspaces'[i].ds = d
    BY <1>2 DEF EntryDisk
  <2>2. CASE i # job[t].id
    <3>1. EntryDisk(i, d)
      BY <2>1, <2>2, KeepsDiskStep DEF VmInv, EntryDisk
    <3> QED BY <3>1 DEF OwnsDisk
  <2>3. CASE i = job[t].id
    <3>1. workspaces'[i] # None /\ pc'[t] \notin {"endCid", "endEntry"}
      BY <2>1, <2>3, KeepsDiskStep DEF VmInv
    <3>2. ~DestroyEntry(t) /\ ~DestroyCid(t)
      BY <1>1, <2>3, <3>1 DEF DestroyEntry, DestroyCid, Goto
    <3>3. CASE WarmRegister(t) \/ (Register(t) /\ ~UNCHANGED workspaces)
      <4>1. workspaces'[i] = job[t].ws /\ pc[t] \in {"warmRegister", "register"}
        BY <1>1, <2>3, <3>3 DEF WarmRegister, Register, At
      <4>2. TaskDisk(t, d)
        BY <1>1, <2>1, <4>1
        DEF TaskDisk, Builds, Shaped, Builders, HoldsDisk, WarmPath, ColdPath
      <4> QED BY <4>2 DEF OwnsDisk
    <3>4. CASE ~(WarmRegister(t) \/ (Register(t) /\ ~UNCHANGED workspaces))
      <4>1. workspaces[i] # None /\ workspaces[i].ds = d
        BY <2>1, <2>3, <3>1, <3>2, <3>4, OwnEntry DEF VmInv
      <4>2. pc[t] \notin {"endCid", "endEntry"}
        BY <3>2, WhereItGoes, DestroyOrder DEF VmInv
      <4>3. EntryDisk(i, d)
        BY <2>3, <4>1, <4>2, KeepsDiskStep DEF VmInv, EntryDisk
      <4> QED BY <4>3 DEF OwnsDisk
    <3> QED BY <3>3, <3>4
  <2> QED BY <2>2, <2>3
<1>3. ASSUME d \in WarmIds' PROVE OwnsDisk(d)
  <2>1. WarmIds' \subseteq WarmIds \/ AddReady(t) \/ (WarmSetup(t) /\ Return(t))
    BY WarmIdsStep DEF VmInv
  <2>2. AddReady(t) \/ (WarmSetup(t) /\ Return(t)) =>
          Builds(t, HoldsDisk) /\ WarmIds' = WarmIds \cup {job[t].ws.ds}
    BY WarmIdsStep DEF VmInv, Builds, HoldsDisk, WarmPath, ColdPath
  <2> QED BY <1>3, <2>1, <2>2 DEF OwnsDisk, TaskDisk
<1>4. ASSUME NEW u \in Tasks, TaskDisk(u, d)' PROVE OwnsDisk(d) \/ d \in datasets'
  <2>1. CASE u # t
    <3>1. TaskDisk(u, d)
      BY <1>4, <2>1, OthersStay DEF VmInv, TaskDisk, Builds
    <3> QED BY <3>1 DEF OwnsDisk
  <2>2. CASE u = t
    <3>1. /\ job'[t].op \in Builders /\ pc'[t] \in HoldsDisk /\ job'[t].ws.ds = d
          /\ pc'[t] # "idle"
      BY <1>4, <2>2 DEF TaskDisk, Builds, HoldsDisk, WarmPath, ColdPath
    <3>2. CASE Claim(t) /\ ready # <<>>
      BY <3>1, <3>2, WarmIdsStep DEF VmInv, OwnsDisk
    <3>3. CASE Provision(t) \/ Clone(t)
      <4>1. ~Return(t)
        BY <1>1, <3>1 DEF Return, Goto
      <4>2. job[t].id \in datasets' /\ job'[t].ws.ds = job[t].id
        BY <1>1, <3>3, <4>1 DEF Provision, Clone, JobRecords, Drafts
      <4> QED BY <3>1, <4>2
    <3>4. CASE ~(Claim(t) /\ ready # <<>>) /\ ~Provision(t) /\ ~Clone(t)
      <4>1. job'[t].op = job[t].op /\ job'[t].ws.ds = job[t].ws.ds
        BY <3>1, <3>4, LocalsStep DEF VmInv
      <4>2. pc[t] \in HoldsDisk
        BY <3>1, <3>4, <4>1, HeldBefore DEF VmInv
      <4>3. TaskDisk(t, d)
        BY <3>1, <4>1, <4>2 DEF TaskDisk, Builds
      <4> QED BY <4>3 DEF OwnsDisk
    <3> QED BY <3>2, <3>3, <3>4
  <2> QED BY <2>1, <2>2
<1> HIDE DEF EntryDisk, TaskDisk
<1> QED BY <1>2, <1>3, <1>4 DEF OwnsDisk

\* Every disk somebody has exists.
DisksFit == \A d \in Ids : OwnsDisk(d) => d \in datasets

LEMMA DatasetsStep ==
  ASSUME TypeInv, VmsFit, NEW t \in Tasks, Step(t), NEW d \in datasets, d \notin datasets'
  PROVE  Drops(t, d)
<1>1. ASSUME NEW x, DestroyDataset(x) PROVE d = x
  BY <1>1 DEF DestroyDataset, RemoveDataset, storage
<1>2. CASE UndoHost(t) \/ DestroyStorage(t)
  <2>1. d = job[t].ws.ds
    BY <1>1, <1>2 DEF UndoHost, DestroyStorage
  <2> QED BY <1>2, <2>1, DropSteps
<1>3. CASE ForkSetup(t)
  <2>1. Return(t) /\ DestroyDataset(job[t].id)
    BY <1>3 DEF ForkSetup, storage
  <2>2. d = job[t].id
    BY <1>1, <2>1
  <2> QED BY <1>3, <2>1, <2>2, DropSteps
<1>4. datasets \subseteq datasets' \/ UndoHost(t) \/ DestroyStorage(t) \/ ForkSetup(t)
  BY DEF Step, Claim, WarmRelease, WarmSetup, Rekey, WarmRegister, Provision, PopCid, CountCid,
    Launch, Configure, Register, UndoCid, UndoVm, ForkChecks, Clone, DestroyVm, DestroyNetwork,
    DestroyCid, DestroyEntry, StopVm, MarkStopped, EnsureNetwork, MarkRunning, Mark, AddReady,
    SaveBegin, SaveEnd, storage
<1> QED BY <1>2, <1>3, <1>4

LEMMA NextKeepsDisks ==
  ASSUME OneCallAtATime, {"crash", "configure", "vm"} \cap Faults = {},
         VmInv, DisksFit, [Next]_vars
  PROVE  DisksFit'
<1> SUFFICES ASSUME NEW d \in Ids, OwnsDisk(d)' PROVE d \in datasets'
  BY DEF DisksFit
<1>1. ASSUME NEW t \in Tasks, Step(t) PROVE d \in datasets'
  <2> HIDE DEF OwnsDisk
  <2>1. OwnsDisk(d) \/ d \in datasets'
    BY <1>1, DiskGains
  <2>2. ~Drops(t, d)
    BY <1>1, DroppedIsUnowned
  <2> QED BY <1>1, <2>1, <2>2, DatasetsStep DEF VmInv, DisksFit
<1>2. CASE \/ \E t \in Requests : Arrive(t)
           \/ SaveTimer
           \/ \E i \in Ids : ReplenishPool(i)
  <2> PICK t \in Tasks : \E label, op, i, src, ws : Starts(t, label, op, i, src, ws)
    BY <1>2, CallStarts DEF VmInv
  <2>1. datasets' = datasets
    BY DEF Starts, storage
  <2> HIDE DEF OwnsDisk
  <2>2. OwnsDisk(d)
    BY StartKeepsDisks DEF VmInv
  <2> QED BY <2>1, <2>2 DEF DisksFit
<1>3. CASE UNCHANGED vars
  <2>1. UNCHANGED <<workspaces, ready, datasets, pc, job>>
    BY <1>3 DEF vars, memory, storage
  <2> QED BY <2>1 DEF DisksFit, OwnsDisk, EntryDisk, TaskDisk, KeepsDisk, TornDown, Registered, Builds,
      WarmIds, Warm
<1>4. ~Restart /\ \A p \in Ids : ~VmDies(p)
  BY DEF Restart, VmDies, Fails
<1> QED BY <1>1, <1>2, <1>3, <1>4 DEF Next

LEMMA InvMeansDiskKept ==
  ASSUME VmInv, DisksFit
  PROVE  DiskKept
<1> SUFFICES ASSUME NEW d \in Ids
             PROVE  /\ \A o, p \in DiskOwners(d) : o = p
                    /\ DiskOwners(d) # {} => d \in datasets
  BY DEF DiskKept
<1>1. DiskOwners(d) # {} => d \in datasets
  BY OwnersOfDisk DEF DisksFit
<1>2. /\ \A i, j \in Ids : EntryDisk(i, d) /\ EntryDisk(j, d) => i = j
      /\ \A u, v \in Tasks : TaskDisk(u, d) /\ TaskDisk(v, d) => u = v
      /\ \A i \in Ids, u \in Tasks : ~(EntryDisk(i, d) /\ TaskDisk(u, d))
      /\ d \in WarmIds => (\A i \in Ids : ~EntryDisk(i, d)) /\ (\A u \in Tasks : ~TaskDisk(u, d))
      /\ \A k, l \in Warm : ready[k].id = d /\ ready[l].id = d => k = l
  <2> HIDE DEF EntryDisk, TaskDisk, EntryUses, TaskUses
  <2> QED BY OwningIsUsing DEF VmInv, Apart
<1>3. \A o \in DiskOwners(d) :
        \/ \E i \in Ids : o = <<"workspace", i>> /\ EntryDisk(i, d)
        \/ \E k \in Warm : o = <<"warm", k>> /\ ready[k].id = d
        \/ \E u \in Tasks : o = <<"task", u>> /\ TaskDisk(u, d)
  BY DEF DiskOwners, EntryDisk, TaskDisk, KeepsDisk, Registered
<1>4. \A k \in Warm : ready[k].id = d => d \in WarmIds
  BY DEF WarmIds
<1> HIDE DEF EntryDisk, TaskDisk
<1>5. ASSUME NEW o \in DiskOwners(d), NEW p \in DiskOwners(d) PROVE o = p
  <2>1. CASE \E i \in Ids : o = <<"workspace", i>> /\ EntryDisk(i, d)
    BY <1>2, <1>3, <1>4, <2>1
  <2>2. CASE \E k \in Warm : o = <<"warm", k>> /\ ready[k].id = d
    BY <1>2, <1>3, <1>4, <2>2
  <2>3. CASE \E u \in Tasks : o = <<"task", u>> /\ TaskDisk(u, d)
    BY <1>2, <1>3, <1>4, <2>3
  <2> QED BY <1>3, <2>1, <2>2, <2>3
<1> QED BY <1>1, <1>5

-----------------------------------------------------------------------------
(* TAP devices *)

\* Every device is that of a workspace, a warm VM or a request.
HasTap(t, i) ==
  \/ Builds(t, HoldsIp \ {"warmRelease"}) /\ job[t].id = i
  \/ pc[t] = "warmRelease" /\ job[t].src = i
OwnsTap(i) == i \in KeepsIp \/ i \in WarmIds \/ \E t \in Tasks : HasTap(t, i)
TapsFit == \A i \in taps : OwnsTap(i)

\* A device a step makes is its request's.
LEMMA TapGains ==
  ASSUME VmInv, "tap" \notin Faults, NEW t \in Tasks, Step(t), NEW i \in taps', i \notin taps
  PROVE  OwnsTap(i)'
<1>1. /\ pc \in [Tasks -> Labels] /\ job \in [Tasks -> JobRecords] /\ job[t] \in JobRecords
      /\ Shaped(job[t], pc[t])
  BY DEF VmInv, TypeInv, JobsOK
<1>2. ASSUME NEW x, SetupFails(x) PROVE taps' = taps
  BY <1>2 DEF SetupFails, Fails
<1>3. CASE Provision(t) \/ ForkSetup(t) \/ WarmSetup(t)
  <2>1. PICK ip \in IPs : SetupNetwork(job[t].id, ip) /\ ~Return(t)
    BY <1>1, <1>2, <1>3 DEF Provision, ForkSetup, WarmSetup, net, Return, Goto
  <2>2. i = job[t].id
    BY <2>1 DEF SetupNetwork
  <2>3. pc[t] \in {"provision", "forkSetup", "warmSetup"} /\ pc'[t] \in {"cid", "rekey"}
    BY <1>1, <1>3, <2>1 DEF Provision, ForkSetup, WarmSetup, At, Goto
  <2>4. job'[t].op = job[t].op /\ job'[t].id = i
    BY <2>2, <2>3, OwnLocals DEF VmInv
  <2>5. job[t].op \in Builders
    BY <1>1, <2>3 DEF Shaped, WarmPath, Builders
  <2>6. HasTap(t, i)'
    BY <2>3, <2>4, <2>5 DEF HasTap, Builds, HoldsIp
  <2> QED BY <2>6 DEF OwnsTap
<1>4. CASE EnsureNetwork(t)
  <2>1. i = job[t].id /\ pc[t] = "ensureNetwork" /\ pc'[t] \in {"launch", "idle"}
        /\ UNCHANGED workspaces
    BY <1>1, <1>4 DEF EnsureNetwork, At, Return, Goto, memory
  <2>2. Serves(t) /\ i \in Ids
    BY <1>1, <2>1 DEF Serves, Shaped, Working, Labels
  <2>3. workspaces'[i] # None
    BY <2>1, <2>2 DEF VmInv, CopiesFit, CopyFits
  <2>4. i \in KeepsIp'
    BY <2>1, <2>2, <2>3, KeepsIpStep DEF VmInv
  <2> QED BY <2>4 DEF OwnsTap
<1>5. taps' \subseteq taps \/ Provision(t) \/ ForkSetup(t) \/ WarmSetup(t) \/ EnsureNetwork(t)
  BY DEF Step, Claim, WarmRelease, Rekey, WarmRegister, PopCid, CountCid,
    Launch, Configure, Register, UndoCid, UndoVm, UndoHost, ForkChecks, Clone, DestroyVm,
    DestroyNetwork, DestroyStorage, DestroyCid, DestroyEntry, StopVm, MarkStopped, MarkRunning,
    Mark, AddReady, SaveBegin, SaveEnd, ReleaseNetwork, net
<1> QED BY <1>3, <1>4, <1>5

\* A device that stays keeps an owner.
LEMMA TapLosses ==
  ASSUME VmInv, "configure" \notin Faults, next_vsock_cid < CidLimit,
         NEW t \in Tasks, Step(t), NEW i \in Ids, OwnsTap(i), i \in taps'
  PROVE  OwnsTap(i)'
<1>1. /\ pc \in [Tasks -> Labels] /\ job \in [Tasks -> JobRecords] /\ job[t] \in JobRecords
      /\ Shaped(job[t], pc[t])
  BY DEF VmInv, TypeInv, JobsOK
<1>2. ASSUME i \in KeepsIp PROVE i \in KeepsIp'
  <2>1. CASE i # job[t].id
    BY <1>2, <2>1, KeepsIpStep DEF VmInv
  <2>2. CASE i = job[t].id
    <3>1. workspaces[i] # None /\ pc[t] \notin {"endStorage", "endCid", "endEntry"}
      BY <1>2, <2>2, KeepsIpStep DEF VmInv
    <3>2. ~WarmRegister(t) /\ ~Register(t)
      BY <1>1, <2>2, <3>1
      DEF WarmRegister, Register, At, VmInv, JobsFit, Shaped, WarmPath, Builders, Working, Labels
    <3>3. ~DestroyEntry(t) /\ ~DestroyCid(t) /\ ~DestroyStorage(t)
      BY <3>1 DEF DestroyEntry, DestroyCid, DestroyStorage, At
    <3>4. ~DestroyNetwork(t)
      BY <2>2 DEF DestroyNetwork, ReleaseNetwork
    <3>5. workspaces'[i] # None
      BY <2>2, <3>1, <3>2, <3>3, OwnEntry DEF VmInv
    <3>6. pc'[t] \notin {"endStorage", "endCid", "endEntry"}
      BY <3>3, <3>4, WhereItGoes, DestroyOrder DEF VmInv
    <3> QED BY <2>2, <3>5, <3>6, KeepsIpStep DEF VmInv
  <2> QED BY <2>1, <2>2
<1>3. ASSUME i \in WarmIds PROVE i \in WarmIds' \/ HasTap(t, i)'
  <2>1. CASE Claim(t) /\ ready # <<>>
    BY <1>3, <2>1, WarmIdsStep DEF VmInv, HasTap, Builds
  <2>2. CASE ~(Claim(t) /\ ready # <<>>)
    BY <1>3, <2>2, WarmIdsStep DEF VmInv
  <2> QED BY <2>1, <2>2
<1>4. ASSUME NEW u \in Tasks, HasTap(u, i) PROVE OwnsTap(i)'
  <2>1. CASE u # t
    <3>1. HasTap(u, i)'
      BY <1>4, <2>1, OthersStay DEF VmInv, HasTap, Builds
    <3> QED BY <3>1 DEF OwnsTap
  <2>2. CASE u = t /\ pc[t] = "warmRelease"
    <3>1. WarmRelease(t)
      BY <2>2 DEF Step, Claim, WarmSetup, Rekey, WarmRegister, Provision, PopCid, CountCid, Launch,
        Configure, Register, UndoCid, UndoVm, UndoHost, ForkChecks, Clone, ForkSetup, DestroyVm,
        DestroyNetwork, DestroyStorage, DestroyCid, DestroyEntry, StopVm, MarkStopped, EnsureNetwork,
        MarkRunning, AddReady, SaveBegin, SaveEnd, At
    <3>2. i = job[t].src
      BY <1>4, <2>2 DEF HasTap, Builds
    <3> QED BY <3>1, <3>2 DEF WarmRelease, ReleaseNetwork
  <2>3. CASE u = t /\ pc[t] # "warmRelease"
    <3>1. Builds(t, HoldsDisk) /\ pc[t] \in HoldsIp \ {"warmRelease"} /\ job[t].id = i
      BY <1>4, <2>3 DEF HasTap, Builds, HoldsDisk, HoldsIp, WarmPath, ColdPath
    <3>2. CASE /\ Builds(t, HoldsDisk)' /\ job'[t].id = job[t].id
               /\ pc'[t] \in HoldsIp \ {"warmRelease"}
      <4>1. HasTap(t, i)'
        BY <3>1, <3>2 DEF HasTap, Builds
      <4> QED BY <4>1 DEF OwnsTap
    <3>3. CASE workspaces'[job[t].id] = job[t].ws /\ job[t].ws # None /\ pc'[t] = "save"
      <4>1. i \in KeepsIp'
        BY <3>1, <3>3, KeepsIpStep DEF VmInv
      <4> QED BY <4>1 DEF OwnsTap
    <3>4. CASE AddReady(t)
      BY <3>1, <3>4, WarmIdsStep DEF VmInv, OwnsTap
    <3>5. ~UndoHost(t)
      BY <3>1 DEF UndoHost, ReleaseNetwork
    <3>6. ~WarmSetup(t) /\ ~ForkSetup(t)
      BY <3>1 DEF WarmSetup, ForkSetup, At, HoldsIp, ColdPath
    <3> QED BY <3>1, <3>2, <3>3, <3>4, <3>5, <3>6, HolderSteps DEF VmInv
  <2> QED BY <2>1, <2>2, <2>3
<1> HIDE DEF HasTap
<1> QED BY <1>2, <1>3, <1>4 DEF OwnsTap

LEMMA NextKeepsTaps ==
  ASSUME OneCallAtATime, {"crash", "configure", "vm", "tap"} \cap Faults = {},
         next_vsock_cid < CidLimit, VmInv, TapsFit, [Next]_vars
  PROVE  TapsFit'
<1>1. taps' \subseteq Ids
  <2>1. TypeInv'
    BY NextTyped DEF VmInv
  <2> QED BY <2>1 DEF TypeInv, HostOK
<1> SUFFICES ASSUME NEW i \in taps' PROVE OwnsTap(i)'
  BY DEF TapsFit
<1>2. ASSUME NEW t \in Tasks, Step(t) PROVE OwnsTap(i)'
  <2> HIDE DEF OwnsTap
  <2> QED BY <1>1, <1>2, TapGains, TapLosses DEF TapsFit
<1>3. CASE \/ \E t \in Requests : Arrive(t)
           \/ SaveTimer
           \/ \E j \in Ids : ReplenishPool(j)
  <2> PICK t \in Tasks : \E label, op, j, src, ws : Starts(t, label, op, j, src, ws)
    BY <1>3, CallStarts DEF VmInv
  <2> PICK label, op, j, src, ws : Starts(t, label, op, j, src, ws)
    OBVIOUS
  <2>1. /\ pc'[t] = label /\ pc[t] = "idle"
        /\ \A u \in Tasks : u # t => pc'[u] = pc[u] /\ job'[u] = job[u]
        /\ workspaces' = workspaces /\ ready' = ready /\ taps' = taps
    BY DEF Starts, Call, Goto, At, VmInv, TypeInv, JobsOK, net
  <2>2. label \notin {"endStorage", "endCid", "endEntry"}
    BY DEF Starts, Halting
  <2>3. TornDown(i, {"endStorage", "endCid", "endEntry"})' =>
          TornDown(i, {"endStorage", "endCid", "endEntry"})
    BY <2>1, <2>2 DEF TornDown
  <2>4. i \in KeepsIp => i \in KeepsIp'
    BY <2>1, <2>3 DEF KeepsIp, Registered
  <2>5. \A u \in Tasks : HasTap(u, i) => HasTap(u, i)'
    BY <2>1 DEF HasTap, Builds, HoldsIp, ColdPath
  <2>6. WarmIds' = WarmIds /\ OwnsTap(i)
    BY <2>1 DEF WarmIds, Warm, TapsFit
  <2> HIDE DEF HasTap
  <2> QED BY <2>4, <2>5, <2>6 DEF OwnsTap
<1>4. CASE UNCHANGED vars
  <2>1. UNCHANGED <<workspaces, ready, taps, pc, job>>
    BY <1>4 DEF vars, memory, net
  <2> QED BY <2>1 DEF TapsFit, OwnsTap, HasTap, KeepsIp, TornDown, Registered, Builds, WarmIds, Warm
<1>5. ~Restart /\ \A p \in Ids : ~VmDies(p)
  BY DEF Restart, VmDies, Fails
<1> QED BY <1>2, <1>3, <1>4, <1>5 DEF Next

LEMMA InvMeansTapsAccountedFor ==
  ASSUME TypeInv, TapsFit
  PROVE  TapsAccountedFor
<1>1. \A t \in Tasks : pc[t] = "warmRelease" => job[t].op \in Builders
  BY DEF TypeInv, JobsOK, Shaped, WarmPath, Builders
<1> QED BY <1>1 DEF TapsFit, OwnsTap, HasTap, TapsAccountedFor, KeepsIp, WarmIds, Builds

-----------------------------------------------------------------------------
(* The theorem about the pool *)

\* While the calls on one workspace follow one another and neither a VM, a guest
\* agent, a device nor the daemon fails by itself: a claimed warm VM takes its
\* address, disk, device and process along into the workspace, a disk has one
\* owner and exists as long as it has, and nothing is left without one.  As in
\* AddressTheorem the counter is not used up, and a claim finds an address.
THEOREM PoolTheorem ==
  ASSUME OneCallAtATime, {"crash", "configure", "vm", "tap"} \cap Faults = {},
         PoolEnabled => "network" \notin Faults
  PROVE  Spec /\ [](next_vsock_cid < CidLimit) /\ [](PoolEnabled => leased # IPs)
           => []PoolHandsOver
<1> DEFINE Counting == next_vsock_cid < CidLimit
           Room == PoolEnabled => leased # IPs
           Inv == VmInv /\ DisksFit /\ TapsFit
<1>1. Init => Inv
  <2> SUFFICES ASSUME Init PROVE DisksFit /\ TapsFit
    BY InitVms
  <2>1. /\ workspaces = [i \in Ids |-> None] /\ ready = <<>> /\ taps = {}
        /\ \A t \in Tasks : job[t] = NoJob
    BY DEF Init
  <2>2. Registered = {} /\ WarmIds = {} /\ \A t \in Tasks : job[t].op \notin Builders
    BY <2>1 DEF Registered, WarmIds, Warm, NoJob, Builders
  <2> QED BY <2>1, <2>2 DEF DisksFit, OwnsDisk, EntryDisk, KeepsDisk, TaskDisk, Builds, TapsFit
<1>2. Inv /\ Counting /\ [Next]_vars => Inv'
  BY NextKeepsVms, NextKeepsDisks, NextKeepsTaps
<1>3. Inv => DiskKept /\ TapsAccountedFor /\ StateMatchesVm
  BY InvMeansDiskKept, InvMeansTapsAccountedFor, InvMeansVmsAccountedFor DEF VmInv, VmsAccountedFor
<1>4. Spec /\ []Counting /\ []Room => []IpsOwnedOnce
  BY AddressTheorem
<1>5. IpsOwnedOnce /\ DiskKept /\ TapsAccountedFor /\ StateMatchesVm => PoolHandsOver
  BY DEF IpsOwnedOnce, PoolHandsOver
<1> QED BY <1>1, <1>2, <1>3, <1>4, <1>5, PTL DEF Spec
=============================================================================
