------------------------------ MODULE Snapshots ------------------------------
(***************************************************************************)
(* Snapshots of workspaces: the tree a workspace keeps of them and the     *)
(* snapshots of its ZFS dataset are two records of one thing, changed one  *)
(* after the other.  Forks are clones, which ZFS holds against the         *)
(* deletion of what they came from.                                        *)
(*                                                                         *)
(* A workspace and its dataset share an id.  Memory snapshots are refused  *)
(* on the zvols workspaces run on, so a create with memory changes nothing *)
(* and has no action.                                                      *)
(***************************************************************************)
EXTENDS Naturals, FiniteSets, SequencesExt

CONSTANTS
  Ids,              \* workspaces and their datasets
  Root,             \* the workspace that is there at the start
  None,
  Tasks,            \* the callers of the daemon
  Names,            \* names of snapshots
  Data,             \* what a disk can hold
  MaxSnapshots,     \* resources.max_snapshots_per_workspace
  MaxWorkspaces,    \* resources.max_workspaces
  OneCallAtATime,   \* calls on one workspace do not overlap, forks excepted
  Faults            \* what may fail

\* What the variables hold.
Snapshot == [name : Names, data : Data, parent : SUBSET Names]
Workspace == [state : {"Running", "Stopped"}, tree : Seq(Snapshot)]
Dataset ==
  [snaps : Seq([name : Names, data : Data]), live : Data, origin : {None} \cup (Ids \X Names)]
CallOf ==
  [op : {"create", "restore", "delete", "start", "stop", "fork", "destroy"},
   at : {"sync", "zfsSnapshot", "parent", "add", "stopForRestore", "rollback", "prune",
         "clones", "zfsDestroy", "remove", "launch", "markRunning", "stopVm", "markStopped",
         "clone", "boot", "register", "destroyVm", "destroyDataset", "forget", "save"},
   id : Ids, name : {None} \cup Names \cup (Ids \X Names),
   snaps : SUBSET Snapshot, data : {None} \cup Data]

ASSUME SnapshotsAssumption ==
  /\ Root \in Ids /\ None \notin Ids \cup Names \cup Data
  /\ None \notin Workspace \cup Dataset \cup CallOf
  /\ MaxSnapshots \in Nat /\ MaxWorkspaces \in Nat
  /\ OneCallAtATime \in BOOLEAN
  /\ Faults \subseteq {"vsock", "zfs", "launch", "save"}

VARIABLES
  workspaces,       \* id -> None or [state, tree], the tree by creation time
  state_file,       \* what a restart would find of workspaces
  datasets,         \* id -> None or [snaps, live, origin], oldest snapshot first
  vms,              \* the workspaces whose VM is tracked and runs
  calls,            \* task -> None or its call
  excused           \* <<what went wrong, id>>, for the properties

vars == <<workspaces, state_file, datasets, vms, calls, excused>>

Registered == {i \in Ids : workspaces[i] # None}
NamesOf(snaps) == {s.name : s \in ToSet(snaps)}
UpTo(snaps, name) == SelectInSeq(snaps, LAMBDA s : s.name = name)

\* The members of snaps that are in some, in their order.
Kept(snaps, some) ==
  LET kept[n \in 0..Len(snaps)] ==
        IF n = 0 THEN <<>>
        ELSE IF snaps[n] \in some THEN Append(kept[n-1], snaps[n]) ELSE kept[n-1]
  IN kept[Len(snaps)]
Clones(i, name) == {c \in Ids : datasets[c] # None /\ datasets[c].origin = <<i, name>>}
Cloned(i) == \E name \in Names : Clones(i, name) # {}

Fails(fault) == fault \in Faults
At(t, place) == calls[t] # None /\ calls[t].at = place
Goes(t, place) == calls' = [calls EXCEPT ![t].at = place]
Returns(t) == calls' = [calls EXCEPT ![t] = None]
Works(i) == {t \in Tasks : calls[t] # None /\ calls[t].id = i}
Call(t, i, op, place, name) ==
  calls' = [calls EXCEPT ![t] =
    [op |-> op, at |-> place, id |-> i, name |-> name, snaps |-> {}, data |-> None]]
Callable(t, i) ==
  /\ calls[t] = None /\ i \in Registered
  /\ OneCallAtATime => Works(i) = {}

Init ==
  LET root == [state |-> "Running", tree |-> <<>>]
  IN /\ workspaces = [i \in Ids |-> IF i = Root THEN root ELSE None]
     /\ state_file = workspaces
     /\ \E d \in Data : datasets = [i \in Ids |-> IF i # Root THEN None
                           ELSE [snaps |-> <<>>, live |-> d, origin |-> None]]
     /\ vms = {Root}
     /\ calls = [t \in Tasks |-> None]
     /\ excused = {}
-----------------------------------------------------------------------------
(* snapshot_create *)

SnapshotCreate(t, i, name) ==
  /\ Callable(t, i) /\ workspaces[i].state = "Running"
  /\ Len(workspaces[i].tree) < MaxSnapshots
  /\ Call(t, i, "create", "sync", name)
  /\ UNCHANGED <<workspaces, state_file, datasets, vms, excused>>

\* The guest flushes its page cache, or fails to; only the connection must be
\* there.
Sync(t) ==
  /\ At(t, "sync")
  /\ \/ calls[t].id \in vms /\ Goes(t, "zfsSnapshot")
     \/ (calls[t].id \notin vms \/ Fails("vsock")) /\ Returns(t)
  /\ UNCHANGED <<workspaces, state_file, datasets, vms, excused>>

\* ZFS refuses a name it has.
ZfsSnapshot(t) ==
  /\ At(t, "zfsSnapshot")
  /\ LET i == calls[t].id
         possible == datasets[i] # None /\ calls[t].name \notin NamesOf(datasets[i].snaps)
     IN \/ /\ possible
           /\ datasets' = [datasets EXCEPT ![i].snaps =
                             Append(@, [name |-> calls[t].name, data |-> datasets[i].live])]
           /\ calls' = [calls EXCEPT ![t].at = "parent", ![t].data = datasets[i].live]
        \/ (~possible \/ Fails("zfs")) /\ Returns(t) /\ UNCHANGED datasets
  /\ UNCHANGED <<workspaces, state_file, vms, excused>>

\* The latest snapshot becomes the parent.  unwrap panics when the workspace
\* has gone.
FindParent(t) ==
  /\ At(t, "parent")
  /\ LET ws == workspaces[calls[t].id]
     IN IF ws = None THEN Returns(t)
        ELSE calls' = [calls EXCEPT ![t].at = "add",
               ![t].snaps = IF ws.tree = <<>> THEN {} ELSE {Last(ws.tree)}]
  /\ UNCHANGED <<workspaces, state_file, datasets, vms, excused>>

AddToTree(t) ==
  /\ At(t, "add")
  /\ LET c == calls[t]
         snap == [name |-> c.name, data |-> c.data, parent |-> {p.name : p \in c.snaps}]
     IN workspaces' = IF workspaces[c.id] = None THEN workspaces
                      ELSE [workspaces EXCEPT ![c.id].tree = Append(@, snap)]
  /\ Goes(t, "save")
  /\ UNCHANGED <<state_file, datasets, vms, excused>>
-----------------------------------------------------------------------------
(* snapshot_restore *)

\* What is kept is decided here: what was made no later than the target.
SnapshotRestore(t, i, name) ==
  /\ Callable(t, i) /\ name \in NamesOf(workspaces[i].tree)
  /\ LET tree == workspaces[i].tree
         keep == SubSeq(tree, 1, UpTo(tree, name))
     IN calls' = [calls EXCEPT ![t] =
          [op |-> "restore", at |-> "stopForRestore", id |-> i, name |-> name,
           snaps |-> ToSet(keep), data |-> Last(keep).data]]
  /\ UNCHANGED <<workspaces, state_file, datasets, vms, excused>>

\* Mistake: the VM is left running.
WrongStopForRestore(t) ==
  /\ At(t, "stopForRestore")
  /\ Goes(t, "rollback")
  /\ UNCHANGED <<workspaces, state_file, datasets, vms, excused>>

StopForRestore(t) ==
  /\ At(t, "stopForRestore")
  /\ LET ws == workspaces[calls[t].id]
     IN vms' = IF ws # None /\ ws.state = "Running" THEN vms \ {calls[t].id} ELSE vms
  /\ Goes(t, "rollback")
  /\ UNCHANGED <<workspaces, state_file, datasets, excused>>

\* zfs rollback -r destroys what is newer than the target, and refuses when
\* something newer has a clone.  The workspace then stays marked Running
\* although its VM has been stopped.
Rollback(t) ==
  /\ At(t, "rollback")
  /\ LET c == calls[t]
         snaps == IF datasets[c.id] = None THEN <<>> ELSE datasets[c.id].snaps
         n == UpTo(snaps, c.name)
         newer == NamesOf(SubSeq(snaps, n + 1, Len(snaps)))
         possible == n # 0 /\ \A s \in newer : Clones(c.id, s) = {}
     IN \/ /\ possible
           /\ datasets' = [datasets EXCEPT ![c.id].snaps = SubSeq(@, 1, n),
                                           ![c.id].live = snaps[n].data]
           /\ Goes(t, "prune") /\ UNCHANGED excused
        \/ /\ ~possible \/ Fails("zfs")
           /\ excused' = IF workspaces[c.id] # None /\ workspaces[c.id].state = "Running"
                           THEN excused \cup {<<"refused", c.id>>} ELSE excused
           /\ Returns(t) /\ UNCHANGED datasets
  /\ UNCHANGED <<workspaces, state_file, vms>>

\* Mistake: the tree keeps what the rollback destroyed.
WrongPrune(t) ==
  /\ At(t, "prune")
  /\ workspaces' = [workspaces EXCEPT ![calls[t].id].state = "Stopped"]
  /\ excused' = excused \ {<<"refused", calls[t].id>>}
  /\ Goes(t, "launch")
  /\ UNCHANGED <<state_file, datasets, vms>>

Prune(t) ==
  /\ At(t, "prune")
  /\ LET c == calls[t]
     IN workspaces' = IF workspaces[c.id] = None THEN workspaces
          ELSE [workspaces EXCEPT ![c.id].state = "Stopped",
                                  ![c.id].tree = Kept(@, c.snaps)]
  /\ excused' = excused \ {<<"refused", calls[t].id>>}
  /\ Goes(t, "launch")
  /\ UNCHANGED <<state_file, datasets, vms>>
-----------------------------------------------------------------------------
(* snapshot_delete *)

\* Refused for a snapshot that is a parent.
SnapshotDelete(t, i, name) ==
  /\ Callable(t, i) /\ name \in NamesOf(workspaces[i].tree)
  /\ \A s \in ToSet(workspaces[i].tree) : name \notin s.parent
  /\ LET tree == workspaces[i].tree
     IN calls' = [calls EXCEPT ![t] =
          [op |-> "delete", at |-> "clones", id |-> i, name |-> name,
           snaps |-> {tree[UpTo(tree, name)]}, data |-> None]]
  /\ UNCHANGED <<workspaces, state_file, datasets, vms, excused>>

ListClones(t) ==
  /\ At(t, "clones")
  /\ \/ Clones(calls[t].id, calls[t].name) = {} /\ Goes(t, "zfsDestroy")
     \/ (Clones(calls[t].id, calls[t].name) # {} \/ Fails("zfs")) /\ Returns(t)
  /\ UNCHANGED <<workspaces, state_file, datasets, vms, excused>>

\* A clone made since the list was read makes ZFS refuse.
ZfsDestroy(t) ==
  /\ At(t, "zfsDestroy")
  /\ LET c == calls[t]
         possible == /\ datasets[c.id] # None /\ c.name \in NamesOf(datasets[c.id].snaps)
                     /\ Clones(c.id, c.name) = {}
     IN \/ /\ possible
           /\ datasets' = [datasets EXCEPT ![c.id].snaps =
                             Kept(@, {s \in ToSet(@) : s.name # c.name})]
           /\ Goes(t, "remove")
        \/ (~possible \/ Fails("zfs")) /\ Returns(t) /\ UNCHANGED datasets
  /\ UNCHANGED <<workspaces, state_file, vms, excused>>

RemoveFromTree(t) ==
  /\ At(t, "remove")
  /\ LET c == calls[t]
     IN workspaces' = IF workspaces[c.id] = None THEN workspaces
          ELSE [workspaces EXCEPT ![c.id].tree = Kept(@, ToSet(@) \ c.snaps)]
  /\ Goes(t, "save")
  /\ UNCHANGED <<state_file, datasets, vms, excused>>
-----------------------------------------------------------------------------
(* start, alone or at the end of a restore, and stop *)

Start(t, i) ==
  /\ Callable(t, i) /\ workspaces[i].state = "Stopped"
  /\ Call(t, i, "start", "launch", None)
  /\ UNCHANGED <<workspaces, state_file, datasets, vms, excused>>

MayStart(i) == i \in Registered /\ workspaces[i].state = "Stopped"

\* A restore whose start fails returns without saving what it has changed.
Launch(t) ==
  /\ At(t, "launch")
  /\ LET i == calls[t].id
         possible == MayStart(i) /\ i \notin vms /\ datasets[i] # None
     IN \/ /\ possible
           /\ vms' = vms \cup {i} /\ Goes(t, "markRunning") /\ UNCHANGED excused
        \/ /\ ~possible \/ Fails("launch")
           /\ excused' = IF calls[t].op = "restore" THEN excused \cup {<<"unsaved", i>>}
                         ELSE excused
           /\ Returns(t) /\ UNCHANGED vms
  /\ UNCHANGED <<workspaces, state_file, datasets>>

Mark(i, state) ==
  workspaces' = IF workspaces[i] = None THEN workspaces
                ELSE [workspaces EXCEPT ![i].state = state]

\* start saves, and a restore saves once more.
MarkRunning(t) ==
  /\ At(t, "markRunning")
  /\ Mark(calls[t].id, "Running") /\ Goes(t, "save")
  /\ UNCHANGED <<state_file, datasets, vms, excused>>

Stop(t, i) ==
  /\ Callable(t, i) /\ workspaces[i].state = "Running"
  /\ Call(t, i, "stop", "stopVm", None)
  /\ UNCHANGED <<workspaces, state_file, datasets, vms, excused>>

\* Stopping a VM that is not tracked succeeds.
StopVm(t) ==
  /\ At(t, "stopVm")
  /\ vms' = vms \ {calls[t].id} /\ Goes(t, "markStopped")
  /\ UNCHANGED <<workspaces, state_file, datasets, excused>>

MarkStopped(t) ==
  /\ At(t, "markStopped")
  /\ Mark(calls[t].id, "Stopped") /\ Goes(t, "save")
  /\ excused' = excused \ {<<"refused", calls[t].id>>}
  /\ UNCHANGED <<state_file, datasets, vms>>
-----------------------------------------------------------------------------
(* fork *)

Fresh(i) ==
  /\ i \notin Registered /\ datasets[i] = None /\ state_file[i] = None
  /\ Works(i) = {}

\* The call is that of the fork: calls on the source go on beside it.
Fork(t, i, name, new) ==
  /\ calls[t] = None /\ i \in Registered /\ Fresh(new)
  /\ name \in NamesOf(workspaces[i].tree)
  /\ Cardinality(Registered) < MaxWorkspaces
  /\ calls' = [calls EXCEPT ![t] =
       [op |-> "fork", at |-> "clone", id |-> new, name |-> <<i, name>>,
        snaps |-> {}, data |-> None]]
  /\ UNCHANGED <<workspaces, state_file, datasets, vms, excused>>

Clone(t) ==
  /\ At(t, "clone")
  /\ LET c == calls[t]
         source == datasets[c.name[1]]
         possible == source # None /\ c.name[2] \in NamesOf(source.snaps)
     IN \/ /\ possible
           /\ datasets' = [datasets EXCEPT ![c.id] =
                [snaps |-> <<>>, live |-> source.snaps[UpTo(source.snaps, c.name[2])].data,
                 origin |-> c.name]]
           /\ Goes(t, "boot")
        \/ (~possible \/ Fails("zfs")) /\ Returns(t) /\ UNCHANGED datasets
  /\ UNCHANGED <<workspaces, state_file, vms, excused>>

\* Mistake: the clone is left when the VM does not start.
WrongBootFork(t) ==
  /\ At(t, "boot")
  /\ LET i == calls[t].id
     IN \/ vms' = vms \cup {i} /\ Goes(t, "register")
        \/ Fails("launch") /\ Returns(t) /\ UNCHANGED vms
  /\ UNCHANGED <<workspaces, state_file, datasets, excused>>

BootFork(t) ==
  /\ At(t, "boot")
  /\ LET i == calls[t].id
     IN \/ vms' = vms \cup {i} /\ Goes(t, "register") /\ UNCHANGED datasets
        \/ /\ Fails("launch")
           /\ datasets' = [datasets EXCEPT ![i] = None]
           /\ Returns(t) /\ UNCHANGED vms
  /\ UNCHANGED <<workspaces, state_file, excused>>

\* Over the limit the fork is undone.
Register(t) ==
  /\ At(t, "register")
  /\ LET i == calls[t].id
     IN IF Cardinality(Registered) < MaxWorkspaces
          THEN /\ workspaces' = [workspaces EXCEPT ![i] = [state |-> "Running", tree |-> <<>>]]
               /\ Goes(t, "save") /\ UNCHANGED <<datasets, vms>>
          ELSE /\ vms' = vms \ {i} /\ datasets' = [datasets EXCEPT ![i] = None]
               /\ Returns(t) /\ UNCHANGED workspaces
  /\ UNCHANGED <<state_file, excused>>
-----------------------------------------------------------------------------
(* destroy *)

Destroy(t, i) ==
  /\ Callable(t, i)
  /\ Call(t, i, "destroy", "destroyVm", None)
  /\ UNCHANGED <<workspaces, state_file, datasets, vms, excused>>

DestroyVm(t) ==
  /\ At(t, "destroyVm")
  /\ vms' = vms \ {calls[t].id} /\ Goes(t, "destroyDataset")
  /\ UNCHANGED <<workspaces, state_file, datasets, excused>>

\* zfs destroy -r refuses when a snapshot has a clone.  The workspace is
\* forgotten all the same.
DestroyDataset(t) ==
  /\ At(t, "destroyDataset")
  /\ LET i == calls[t].id
         possible == ~Cloned(i)
     IN \/ /\ possible
           /\ datasets' = [datasets EXCEPT ![i] = None] /\ UNCHANGED excused
        \/ /\ ~possible \/ Fails("zfs")
           /\ excused' = excused \cup {<<"orphaned", i>>} /\ UNCHANGED datasets
  /\ Goes(t, "forget")
  /\ UNCHANGED <<workspaces, state_file, vms>>

Forget(t) ==
  /\ At(t, "forget")
  /\ workspaces' = [workspaces EXCEPT ![calls[t].id] = None] /\ Goes(t, "save")
  /\ UNCHANGED <<state_file, datasets, vms, excused>>
-----------------------------------------------------------------------------
(* Saving, and the guest *)

Unsaved == {i \in Ids : state_file[i] # workspaces[i]}

\* A failed save is only logged.  WorkspaceLifecycle has the save in its steps.
SaveState(t) ==
  /\ At(t, "save")
  /\ \/ /\ state_file' = workspaces
        /\ excused' = {e \in excused : e[1] # "unsaved"}
     \/ /\ Fails("save") /\ UNCHANGED state_file
        /\ excused' = excused \cup {<<"unsaved", i>> : i \in Unsaved}
  /\ Returns(t)
  /\ UNCHANGED <<workspaces, datasets, vms>>

GuestWrites(i, d) ==
  /\ i \in vms /\ datasets[i] # None
  /\ datasets' = [datasets EXCEPT ![i].live = d]
  /\ UNCHANGED <<workspaces, state_file, vms, calls, excused>>

Step(t) ==
  \/ Sync(t) \/ ZfsSnapshot(t) \/ FindParent(t) \/ AddToTree(t)
  \/ StopForRestore(t) \/ Rollback(t) \/ Prune(t)
  \/ ListClones(t) \/ ZfsDestroy(t) \/ RemoveFromTree(t)
  \/ Launch(t) \/ MarkRunning(t) \/ StopVm(t) \/ MarkStopped(t)
  \/ Clone(t) \/ BootFork(t) \/ Register(t)
  \/ DestroyVm(t) \/ DestroyDataset(t) \/ Forget(t) \/ SaveState(t)

Next ==
  \/ \E t \in Tasks :
       \/ Step(t)
       \/ \E i \in Ids :
            \/ Start(t, i) \/ Stop(t, i) \/ Destroy(t, i)
            \/ \E name \in Names :
                 \/ SnapshotCreate(t, i, name) \/ SnapshotRestore(t, i, name)
                 \/ SnapshotDelete(t, i, name)
                 \/ \E new \in Ids : Fork(t, i, name, new)
  \/ \E i \in Ids, d \in Data : GuestWrites(i, d)

Spec == Init /\ [][Next]_vars
-----------------------------------------------------------------------------
(* Properties *)

\* No call works on the workspace.
Quiet(i) == i \in Registered /\ Works(i) = {}

\* The tree a workspace shows is the list of snapshots its dataset has, with
\* the contents they were made of, each the child of the one before; and it is
\* what the state file has, unless a save failed or a restore could not start
\* the VM.  snapshot_create, snapshot_restore and snapshot_delete each change
\* one record, then the other, then save.
TreeMatchesZfs ==
  \A i \in Ids : Quiet(i) =>
    LET tree == workspaces[i].tree  snaps == datasets[i].snaps
    IN /\ Len(tree) = Len(snaps) /\ Len(tree) <= MaxSnapshots
       /\ \A k \in DOMAIN tree :
            /\ tree[k].name = snaps[k].name /\ tree[k].data = snaps[k].data
            /\ tree[k].parent = IF k = 1 THEN {} ELSE {tree[k-1].name}
       /\ <<"unsaved", i>> \notin excused => state_file[i] = workspaces[i]

\* No VM runs on a disk that is rolled back, and the VM that a restore boots
\* finds what the snapshot was made of, whatever forks do meanwhile.
RestoreGivesBack ==
  [][\A t \in Tasks :
       LET c == calls[t]
       IN /\ At(t, "rollback") /\ At(t, "prune")' => c.id \notin vms
          /\ At(t, "launch") /\ At(t, "markRunning")' /\ c.op = "restore" =>
               datasets[c.id].live = c.data]_vars

\* A workspace at rest says whether its VM runs, unless a rollback was refused
\* after the VM was stopped; and a VM or a dataset without a workspace is that
\* of a fork at work or, for a dataset, one that ZFS would not destroy.
NothingForgotten ==
  /\ \A i \in Ids : Quiet(i) =>
       /\ datasets[i] # None
       /\ <<"refused", i>> \notin excused =>
            (workspaces[i].state = "Running" <=> i \in vms)
  /\ \A i \in Ids \ Registered : Works(i) = {} =>
       /\ i \notin vms
       /\ datasets[i] # None => <<"orphaned", i>> \in excused
=============================================================================
