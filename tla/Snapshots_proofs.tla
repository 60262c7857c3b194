--------------------------- MODULE Snapshots_proofs ---------------------------
(***************************************************************************)
(* Proofs about Snapshots: when the calls on a workspace do not overlap,   *)
(* its tree and its dataset agree whenever none is at work, a restore      *)
(* gives back what the snapshot was made of, and nothing is forgotten,     *)
(* whatever fails and whatever forks do beside.                            *)
(***************************************************************************)
EXTENDS Snapshots, SequenceTheorems, WellFoundedInduction, TLAPS

(***************************************************************************)
(* The inductive invariant says of a workspace at rest what the properties *)
(* say of it, and of one that is worked on how far its records are out of  *)
(* step, at each step of each call.                                        *)
(***************************************************************************)
TypeOK ==
  /\ workspaces \in [Ids -> {None} \cup Workspace]
  /\ state_file \in [Ids -> {None} \cup Workspace]
  /\ datasets \in [Ids -> {None} \cup Dataset]
  /\ vms \subseteq Ids
  /\ calls \in [Tasks -> {None} \cup CallOf]
  /\ excused \subseteq {"refused", "orphaned", "unsaved"} \X Ids

OneEach ==
  \A t, u \in Tasks :
    calls[t] # None /\ calls[u] # None /\ calls[t].id = calls[u].id => t = u

\* A tree is a chain of snapshots with names of their own, and its first n are
\* those of the dataset.
Chained(tree) ==
  \A k \in 1..Len(tree) : tree[k].parent = IF k = 1 THEN {} ELSE {tree[k-1].name}
Distinct(tree) ==
  \A j, k \in 1..Len(tree) : tree[j].name = tree[k].name => j = k
Paired(tree, snaps, n) ==
  \A k \in 1..n : tree[k].name = snaps[k].name /\ tree[k].data = snaps[k].data
WellFormed(tree) == Chained(tree) /\ Distinct(tree) /\ Len(tree) <= MaxSnapshots
InStep(i) ==
  LET tree == workspaces[i].tree  snaps == datasets[i].snaps
  IN WellFormed(tree) /\ Len(tree) = Len(snaps) /\ Paired(tree, snaps, Len(tree))

Here(i) == workspaces[i] # None /\ datasets[i] # None
Settled(i) == <<"refused", i>> \notin excused => (workspaces[i].state = "Running" <=> i \in vms)
Filed(i) == <<"unsaved", i>> \notin excused => state_file[i] = workspaces[i]
Gone(i) ==
  /\ workspaces[i] = None /\ i \notin vms
  /\ datasets[i] # None => <<"orphaned", i>> \in excused
AtRest(i) == Here(i) /\ Settled(i) /\ Filed(i) /\ InStep(i)
Rest(i) == IF workspaces[i] = None THEN Gone(i) ELSE AtRest(i)
Refused(i) ==
  workspaces[i] # None /\ <<"refused", i>> \in excused => workspaces[i].state = "Running"

\* The snapshot a create has taken is the one the tree lacks.
Taken(c) ==
  LET tree == workspaces[c.id].tree  snaps == datasets[c.id].snaps
  IN /\ WellFormed(tree) /\ Len(tree) < MaxSnapshots
     /\ Len(snaps) = Len(tree) + 1 /\ Paired(tree, snaps, Len(tree))
     /\ snaps[Len(snaps)] = [name |-> c.name, data |-> c.data]
     /\ \A k \in 1..Len(tree) : tree[k].name # c.name

\* The first n of the tree are what a restore keeps, the last of them what it
\* gives back.
Target(c, n) ==
  LET tree == workspaces[c.id].tree
  IN /\ n \in 1..Len(tree) /\ tree[n].name = c.name /\ tree[n].data = c.data
     /\ c.snaps = {tree[k] : k \in 1..n}
RolledBack(c) ==
  LET tree == workspaces[c.id].tree  snaps == datasets[c.id].snaps
  IN /\ WellFormed(tree) /\ Len(snaps) <= Len(tree) /\ Paired(tree, snaps, Len(snaps))
     /\ Target(c, Len(snaps)) /\ datasets[c.id].live = c.data

\* A delete is of the latest snapshot.
Latest(c) ==
  LET tree == workspaces[c.id].tree
  IN tree # <<>> /\ c.snaps = {tree[Len(tree)]} /\ c.name = tree[Len(tree)].name
Destroyed(c) ==
  LET tree == workspaces[c.id].tree  snaps == datasets[c.id].snaps
  IN WellFormed(tree) /\ Len(tree) = Len(snaps) + 1 /\ Paired(tree, snaps, Len(snaps))

Fits(c) ==
  LET i == c.id
  IN /\ c.at \in {"sync", "zfsSnapshot"} =>
          AtRest(i) /\ c.name \in Names /\ Len(workspaces[i].tree) < MaxSnapshots
     /\ c.at \in {"parent", "add"} =>
          Here(i) /\ Settled(i) /\ Filed(i) /\ Taken(c)
     /\ c.at = "add" =>
          LET tree == workspaces[i].tree
          IN c.snaps = IF tree = <<>> THEN {} ELSE {tree[Len(tree)]}
     /\ c.at = "stopForRestore" => AtRest(i) /\ \E n \in 1..Len(workspaces[i].tree) : Target(c, n)
     /\ c.at = "rollback" =>
          Here(i) /\ i \notin vms /\ Filed(i) /\ InStep(i) /\ \E n \in 1..Len(workspaces[i].tree) : Target(c, n)
     /\ c.at = "prune" => Here(i) /\ i \notin vms /\ RolledBack(c)
     /\ c.at \in {"stopForRestore", "rollback", "prune"} => c.op = "restore"
     /\ c.at \in {"clones", "zfsDestroy"} => AtRest(i) /\ Latest(c)
     /\ c.at = "remove" => Here(i) /\ Settled(i) /\ Latest(c) /\ Destroyed(c)
     /\ c.at = "launch" =>
          /\ Here(i) /\ InStep(i) /\ i \notin vms
          /\ workspaces[i].state = "Stopped"
          /\ IF c.op = "restore" THEN datasets[i].live = c.data ELSE Filed(i)
     /\ c.at = "markRunning" => Here(i) /\ InStep(i) /\ i \in vms
     /\ c.at = "stopVm" => Here(i) /\ InStep(i)
     /\ c.at = "markStopped" => Here(i) /\ InStep(i) /\ i \notin vms
     /\ c.at \in {"clone", "boot", "register"} =>
          workspaces[i] = None /\ c.name \in Ids \X Names
     /\ c.at = "clone" => i \notin vms /\ datasets[i] = None
     /\ c.at = "boot" => i \notin vms
     /\ c.at = "register" => i \in vms
     /\ c.at \in {"boot", "register"} => datasets[i] # None /\ datasets[i].snaps = <<>>
     /\ c.at \in {"destroyDataset", "forget"} => i \notin vms
     /\ c.at = "forget" => (datasets[i] # None => <<"orphaned", i>> \in excused)
     /\ c.at = "save" =>
          IF workspaces[i] = None THEN Gone(i) ELSE Here(i) /\ Settled(i) /\ InStep(i)

IInv ==
  /\ TypeOK /\ OneEach
  /\ \A i \in Ids : Refused(i) /\ (Works(i) = {} => Rest(i))
  /\ \A t \in Tasks, c \in CallOf : calls[t] = c => Fits(c)
-----------------------------------------------------------------------------
(* Sequences *)

LEMMA Least ==
  ASSUME NEW S, S \subseteq Nat, S # {}
  PROVE  \E n \in S : \A m \in S : n <= m
<1> DEFINE less == {pair \in Nat \X Nat : pair[1] < pair[2]}
<1>1. IsWellFoundedOn(less, Nat)
  BY NatLessThanWellFounded, Zenon DEF OpToRel
<1>2. PICK n \in S : \A m \in S : <<m, n>> \notin less
  BY <1>1, WFMin, Zenon
<1>3. ASSUME NEW m \in S PROVE n <= m
  <2>1. n \in Nat /\ m \in Nat
    OBVIOUS
  <2>2. <<m, n>> \notin less
    BY <1>2
  <2>3. QED
    BY <2>1, <2>2
<1>4. QED
  BY <1>3

\* The place of the first of a name, or zero.
LEMMA PlaceOf ==
  ASSUME NEW S, NEW snaps \in Seq(S), NEW name
  PROVE  \/ /\ UpTo(snaps, name) \in 1..Len(snaps)
            /\ snaps[UpTo(snaps, name)].name = name
         \/ UpTo(snaps, name) = 0 /\ \A k \in 1..Len(snaps) : snaps[k].name # name
<1> DEFINE I == {k \in 1..Len(snaps) : snaps[k].name = name}
<1>1. UpTo(snaps, name) = IF I # {} THEN Min(I) ELSE 0
  BY DEF UpTo, SelectInSeq
<1>2. CASE I # {}
  <2>1. I \subseteq Nat
    OBVIOUS
  <2>2. PICK n \in I : \A m \in I : n <= m
    BY <1>2, <2>1, Least
  <2>3. Min(I) \in I
    BY <2>2 DEF Min
  <2>4. QED
    BY <1>1, <1>2, <2>3
<1>3. CASE I = {}
  BY <1>1, <1>3
<1>4. QED
  BY <1>2, <1>3

LEMMA NamesAre ==
  ASSUME NEW S, NEW snaps \in Seq(S), NEW name
  PROVE  name \in NamesOf(snaps) <=> \E k \in 1..Len(snaps) : snaps[k].name = name
BY DEF NamesOf, ToSet

\* What is kept of the first n of a sequence and nothing else is the first n.
LEMMA KeptPrefix ==
  ASSUME NEW S, NEW snaps \in Seq(S), NEW some, NEW n \in 0..Len(snaps),
         \A k \in 1..Len(snaps) : snaps[k] \in some <=> k <= n
  PROVE  Kept(snaps, some) = SubSeq(snaps, 1, n)
<1> DEFINE Entry(h, k) == IF k = 0 THEN <<>>
                         ELSE IF snaps[k] \in some THEN Append(h[k-1], snaps[k]) ELSE h[k-1]
           Is(h) == h = [k \in 0..Len(snaps) |-> Entry(h, k)]
           upto(k) == IF k <= n THEN k ELSE n
           first == [k \in 0..Len(snaps) |-> SubSeq(snaps, 1, upto(k))]
           kept == CHOOSE h : Is(h)
<1>1. SubSeq(snaps, 1, 0) = <<>>
  OBVIOUS
<1>2. ASSUME NEW k \in 1..n PROVE SubSeq(snaps, 1, k) = Append(SubSeq(snaps, 1, k-1), snaps[k])
  <2>1. k \in 1..Len(snaps) /\ k - 1 \in 0..Len(snaps)
    OBVIOUS
  <2>2. SubSeq(snaps, 1, k) \in Seq(S) /\ SubSeq(snaps, 1, k-1) \in Seq(S) /\ snaps[k] \in S
    BY <2>1, SubSeqProperties, ElementOfSeq
  <2>3. Len(SubSeq(snaps, 1, k)) = k /\ Len(SubSeq(snaps, 1, k-1)) = k - 1
    BY <2>1, SubSeqProperties
  <2>4. /\ \A j \in 1..k : SubSeq(snaps, 1, k)[j] = snaps[j]
        /\ \A j \in 1..k-1 : SubSeq(snaps, 1, k-1)[j] = snaps[j]
    BY <2>1
  <2>5. Append(SubSeq(snaps, 1, k-1), snaps[k]) \in Seq(S)
    BY <2>2
  <2>6. Len(Append(SubSeq(snaps, 1, k-1), snaps[k])) = k
    BY <2>2, <2>3
  <2>7. \A j \in 1..k : Append(SubSeq(snaps, 1, k-1), snaps[k])[j] = snaps[j]
    BY <2>1, <2>2, <2>3, <2>4
  <2>8. QED
    BY <2>2, <2>3, <2>4, <2>5, <2>6, <2>7, SeqEqual
<1>3. \A k \in 0..Len(snaps) : SubSeq(snaps, 1, upto(k)) = Entry(first, k)
  <2>1. SUFFICES ASSUME NEW k \in 0..Len(snaps), k # 0
                 PROVE  SubSeq(snaps, 1, upto(k)) = Entry(first, k)
    BY <1>1
  <2>2. first[k-1] = SubSeq(snaps, 1, upto(k-1))
    BY <2>1
  <2>3. CASE k <= n
    BY <1>2, <2>1, <2>2, <2>3
  <2>4. CASE ~(k <= n)
    BY <2>1, <2>2, <2>4
  <2>5. QED
    BY <2>3, <2>4
<1>4. Is(first)
  BY <1>3, Zenon
<1>5. Is(kept)
  BY <1>4, Zenon
<1>6. \A k \in 0..Len(snaps) : kept[k] = Entry(kept, k)
  <2> HIDE DEF kept, Entry
  <2>1. QED
    BY <1>5
<1>7. \A k \in 0..Len(snaps) : kept[k] = SubSeq(snaps, 1, upto(k))
  <2> HIDE DEF kept
  <2> DEFINE Bad == {k \in 0..Len(snaps) : kept[k] # SubSeq(snaps, 1, upto(k))}
  <2>1. SUFFICES ASSUME Bad # {} PROVE FALSE
    BY Zenon
  <2>2. Bad \subseteq Nat
    OBVIOUS
  <2>3. PICK k \in Bad : \A m \in Bad : k <= m
    BY <2>1, <2>2, Least
  <2>4. k # 0
    <3>1. 0 \in 0..Len(snaps) /\ upto(0) = 0
      OBVIOUS
    <3>2. kept[0] = <<>>
      BY <1>6, <3>1
    <3>3. 0 \notin Bad
      BY <1>1, <3>1, <3>2
    <3>4. QED
      BY <2>3, <3>3
  <2>5. k - 1 \in 0..Len(snaps) /\ k - 1 \notin Bad
    BY <2>3, <2>4
  <2>6. kept[k-1] = SubSeq(snaps, 1, upto(k-1))
    BY <2>5
  <2>7. CASE k <= n
    <3>1. k \in 1..n /\ upto(k) = k /\ upto(k-1) = k - 1 /\ k \in 1..Len(snaps)
      BY <2>3, <2>4, <2>7
    <3>2. snaps[k] \in some
      BY <3>1
    <3>3. kept[k] = Append(kept[k-1], snaps[k])
      BY <1>6, <2>3, <2>4, <3>2
    <3>4. kept[k] = SubSeq(snaps, 1, upto(k))
      BY <1>2, <2>6, <3>1, <3>3
    <3>5. QED
      BY <2>3, <3>4
  <2>8. CASE ~(k <= n)
    <3>1. k \in 1..Len(snaps) /\ upto(k) = n /\ upto(k-1) = n
      BY <2>3, <2>4, <2>8
    <3>2. snaps[k] \notin some
      BY <2>8, <3>1
    <3>3. kept[k] = kept[k-1]
      BY <1>6, <2>3, <2>4, <3>2
    <3>4. QED
      BY <2>3, <2>6, <3>1, <3>3
  <2>9. QED
    BY <2>7, <2>8
<1>8. Kept(snaps, some) = kept[Len(snaps)]
  BY DEF Kept
<1>9. QED
  <2> HIDE DEF kept
  <2>1. Len(snaps) \in 0..Len(snaps) /\ upto(Len(snaps)) = n
    OBVIOUS
  <2>2. QED
    BY <1>7, <1>8, <2>1
-----------------------------------------------------------------------------
(* Trees *)

\* A snapshot after the last, with a name of its own, extends the chain.
LEMMA TreeGrows ==
  ASSUME NEW tree \in Seq(Snapshot), WellFormed(tree), Len(tree) < MaxSnapshots,
         NEW snap \in Snapshot,
         snap.parent = IF tree = <<>> THEN {} ELSE {tree[Len(tree)].name},
         \A k \in 1..Len(tree) : tree[k].name # snap.name
  PROVE  WellFormed(Append(tree, snap))
<1> DEFINE grown == Append(tree, snap)
<1>1. /\ grown \in Seq(Snapshot) /\ Len(grown) = Len(tree) + 1 /\ Len(tree) \in Nat
      /\ grown[Len(grown)] = snap
      /\ \A k \in 1..Len(tree) : grown[k] = tree[k]
  OBVIOUS
<1>2. MaxSnapshots \in Nat
  BY SnapshotsAssumption
<1>3. Chained(grown)
  <2>1. SUFFICES ASSUME NEW k \in 1..Len(grown)
                 PROVE  grown[k].parent = IF k = 1 THEN {} ELSE {grown[k-1].name}
    BY DEF Chained
  <2>2. CASE k = Len(grown)
    <3>1. tree = <<>> <=> Len(tree) = 0
      OBVIOUS
    <3>2. grown[k] = snap /\ (k = 1 <=> tree = <<>>)
      BY <1>1, <2>2, <3>1
    <3>3. ASSUME k # 1 PROVE grown[k-1] = tree[Len(tree)]
      <4>1. k - 1 = Len(tree) /\ k - 1 \in 1..Len(tree)
        BY <1>1, <2>2, <3>3
      <4>2. QED
        BY <1>1, <4>1
    <3>4. QED
      BY <3>2, <3>3
  <2>3. CASE k # Len(grown)
    <3>1. k \in 1..Len(tree) /\ (k # 1 => k - 1 \in 1..Len(tree))
      BY <1>1, <2>3
    <3>2. QED
      BY <1>1, <3>1 DEF WellFormed, Chained
  <2>4. QED
    BY <2>2, <2>3
<1>4. Distinct(grown)
  <2>1. SUFFICES ASSUME NEW j \in 1..Len(grown), NEW k \in 1..Len(grown),
                        grown[j].name = grown[k].name
                 PROVE  j = k
    BY DEF Distinct
  <2>2. \A m \in 1..Len(grown) : m # Len(grown) => m \in 1..Len(tree)
    BY <1>1
  <2>3. QED
    BY <1>1, <2>1, <2>2 DEF WellFormed, Distinct
<1>5. QED
  BY <1>1, <1>2, <1>3, <1>4 DEF WellFormed

\* The first of a chain are one.
LEMMA TreeCut ==
  ASSUME NEW tree \in Seq(Snapshot), WellFormed(tree), NEW n \in 0..Len(tree)
  PROVE  LET cut == SubSeq(tree, 1, n)
         IN /\ cut \in Seq(Snapshot) /\ WellFormed(cut) /\ Len(cut) = n
            /\ \A k \in 1..n : cut[k] = tree[k]
<1> DEFINE cut == SubSeq(tree, 1, n)
<1>1. cut \in Seq(Snapshot) /\ Len(cut) = n /\ \A k \in 1..n : cut[k] = tree[k]
  <2>1. \A k \in 1..n : tree[k] \in Snapshot
    OBVIOUS
  <2>2. QED
    BY <2>1, SubSeqProperties
<1>2. n <= MaxSnapshots
  BY SnapshotsAssumption DEF WellFormed
<1>3. Chained(cut)
  <2>1. SUFFICES ASSUME NEW k \in 1..n
                 PROVE  cut[k].parent = IF k = 1 THEN {} ELSE {cut[k-1].name}
    BY <1>1 DEF Chained
  <2>2. k \in 1..Len(tree) /\ cut[k] = tree[k] /\ (k # 1 => cut[k-1] = tree[k-1])
    BY <1>1
  <2>3. QED
    BY <2>2 DEF WellFormed, Chained
<1>4. Distinct(cut)
  BY <1>1 DEF WellFormed, Distinct
<1>5. QED
  BY <1>1, <1>2, <1>3, <1>4 DEF WellFormed

\* What is no parent is the last of its chain.
LEMMA ChildlessIsLatest ==
  ASSUME NEW tree \in Seq(Snapshot), WellFormed(tree), NEW name, name \in NamesOf(tree),
         \A s \in ToSet(tree) : name \notin s.parent
  PROVE  tree # <<>> /\ UpTo(tree, name) = Len(tree) /\ tree[Len(tree)].name = name
<1> DEFINE n == UpTo(tree, name)
<1>1. n \in 1..Len(tree) /\ tree[n].name = name
  BY NamesAre, PlaceOf
<1>2. ASSUME n # Len(tree) PROVE FALSE
  <2>1. n + 1 \in 1..Len(tree) /\ n + 1 # 1 /\ (n + 1) - 1 = n
    BY <1>1, <1>2
  <2>2. tree[n+1].parent = {name}
    <3>1. tree[n+1].parent = {tree[(n+1)-1].name}
      BY <2>1 DEF WellFormed, Chained
    <3>2. QED
      BY <1>1, <2>1, <3>1
  <2>3. tree[n+1] \in ToSet(tree)
    BY <2>1 DEF ToSet
  <2>4. QED
    BY <2>2, <2>3
<1>3. QED
  BY <1>1, <1>2
-----------------------------------------------------------------------------
(* One workspace at a time *)

\* Nothing a step does shows in workspace i.
Same(i) ==
  /\ workspaces'[i] = workspaces[i] /\ datasets'[i] = datasets[i] /\ (i \in vms' <=> i \in vms)
  /\ <<"refused", i>> \in excused' <=> <<"refused", i>> \in excused
  /\ <<"orphaned", i>> \in excused' <=> <<"orphaned", i>> \in excused
  /\ Filed(i) => Filed(i)'

LEMMA SameRest ==
  ASSUME NEW i, Same(i)
  PROVE  (Rest(i) => Rest(i)') /\ (Refused(i) => Refused(i)')
BY DEF Same, Rest, Gone, AtRest, Here, Settled, InStep, Refused

LEMMA SameFits ==
  ASSUME NEW c, Same(c.id), Fits(c)
  PROVE  Fits(c)'
<1>1. /\ workspaces'[c.id] = workspaces[c.id] /\ datasets'[c.id] = datasets[c.id]
      /\ (c.id \in vms' <=> c.id \in vms)
  BY DEF Same
<1>2. /\ InStep(c.id)' <=> InStep(c.id)
      /\ Here(c.id)' <=> Here(c.id)
      /\ Gone(c.id)' <=> Gone(c.id)
      /\ Settled(c.id)' <=> Settled(c.id)
      /\ Taken(c)' <=> Taken(c)
      /\ RolledBack(c)' <=> RolledBack(c)
      /\ Latest(c)' <=> Latest(c)
      /\ Destroyed(c)' <=> Destroyed(c)
      /\ \A n : Target(c, n)' <=> Target(c, n)
  BY DEF Same, InStep, Here, Gone, Settled, Taken, RolledBack, Latest, Destroyed, Target
<1>3. Filed(c.id) => Filed(c.id)'
  BY DEF Same
<1>4. AtRest(c.id) => AtRest(c.id)'
  BY <1>2, <1>3 DEF AtRest
<1>5. <<"orphaned", c.id>> \in excused' <=> <<"orphaned", c.id>> \in excused
  BY DEF Same
<1>6. QED
  BY <1>1, <1>2, <1>3, <1>4, <1>5 DEF Fits

\* The state apart from the calls keeps its type, and shows a change in
\* workspace i at most.
Changes(i) ==
  /\ workspaces' \in [Ids -> {None} \cup Workspace]
  /\ state_file' \in [Ids -> {None} \cup Workspace]
  /\ datasets' \in [Ids -> {None} \cup Dataset]
  /\ vms' \subseteq Ids
  /\ excused' \subseteq {"refused", "orphaned", "unsaved"} \X Ids
  /\ \A j \in Ids \ {i} : Same(j)
  /\ Refused(i)'

\* It is enough to look at the workspace that a step is about.
LEMMA StepOf ==
  ASSUME IInv, NEW t \in Tasks, NEW i \in Ids, NEW d \in {None} \cup CallOf,
         calls' = [calls EXCEPT ![t] = d], Changes(i),
         Works(i) \subseteq {t}, calls[t] # None => calls[t].id = i,
         IF d = None THEN Rest(i)' ELSE d.id = i /\ Fits(d)'
  PROVE  IInv'
<1>1. TypeOK' /\ calls'[t] = d /\ \A u \in Tasks \ {t} : calls'[u] = calls[u]
  BY DEF IInv, TypeOK, Changes
<1>2. \A u \in Tasks \ {t} : calls[u] # None => calls[u].id # i
  BY DEF Works
<1>3. OneEach'
  <2>1. SUFFICES ASSUME NEW u \in Tasks, NEW v \in Tasks, calls'[u] # None, calls'[v] # None,
                        calls'[u].id = calls'[v].id
                 PROVE  u = v
    BY DEF OneEach
  <2>2. CASE u # t /\ v # t
    BY <1>1, <2>1, <2>2 DEF IInv, OneEach
  <2>3. CASE (u = t /\ v # t) \/ (u # t /\ v = t)
    BY <1>1, <1>2, <2>1, <2>3
  <2>4. QED
    BY <2>2, <2>3
<1>4. ASSUME NEW u \in Tasks, NEW c \in CallOf, calls'[u] = c PROVE Fits(c)'
  <2>1. c # None
    BY SnapshotsAssumption
  <2>2. CASE u = t
    BY <1>1, <1>4, <2>1, <2>2
  <2>3. CASE u # t
    <3>1. calls[u] = c /\ c.id # i /\ c.id \in Ids
      BY <1>1, <1>2, <1>4, <2>1, <2>3 DEF CallOf
    <3>2. Fits(c) /\ Same(c.id)
      BY <3>1 DEF IInv, Changes
    <3>3. QED
      BY <3>2, SameFits
  <2>4. QED
    BY <2>2, <2>3
<1>5. ASSUME NEW j \in Ids PROVE Refused(j)' /\ (Works(j)' = {} => Rest(j)')
  <2>1. CASE j = i
    <3>1. d # None => t \in Works(i)'
      BY <1>1 DEF Works
    <3>2. QED
      BY <2>1, <3>1 DEF Changes
  <2>2. CASE j # i
    <3>1. Same(j) /\ Refused(j) /\ (Works(j) = {} => Rest(j))
      BY <2>2 DEF Changes, IInv
    <3>2. Works(j) \subseteq Works(j)'
      BY <1>1, <2>2 DEF Works
    <3>3. Works(j)' = {} => Works(j) = {}
      BY <3>2
    <3>4. QED
      BY <3>1, <3>3, SameRest
  <2>3. QED
    BY <2>1, <2>2
<1>6. QED
  BY <1>1, <1>3, <1>4, <1>5 DEF IInv

\* A call at work, and what it may become.
LEMMA AtWork ==
  ASSUME IInv, NEW t \in Tasks, NEW p, At(t, p)
  PROVE  \E c \in CallOf : /\ calls[t] = c /\ c.at = p /\ c.id \in Ids /\ Fits(c)
                           /\ Works(c.id) = {t} /\ Refused(c.id)
<1>1. calls[t] \in CallOf /\ calls[t].at = p /\ calls[t].id \in Ids
  BY DEF IInv, TypeOK, At, CallOf
<1>2. Works(calls[t].id) = {t}
  BY <1>1, SnapshotsAssumption DEF IInv, OneEach, Works, At
<1>3. QED
  BY <1>1, <1>2 DEF IInv

LEMMA Onward ==
  ASSUME NEW c \in CallOf, NEW p, [c EXCEPT !.at = p] \in CallOf
  PROVE  LET d == [c EXCEPT !.at = p]
         IN /\ d # None /\ d.at = p /\ d.op = c.op /\ d.id = c.id /\ d.name = c.name
            /\ d.snaps = c.snaps /\ d.data = c.data
BY SnapshotsAssumption DEF CallOf

LEMMA GoesOn ==
  ASSUME IInv, NEW t \in Tasks, NEW c \in CallOf, calls[t] = c, Works(c.id) = {t},
         NEW d \in CallOf, calls' = [calls EXCEPT ![t] = d], d.id = c.id,
         Changes(c.id), Fits(d)'
  PROVE  IInv'
<1>1. c.id \in Ids /\ d # None
  BY SnapshotsAssumption DEF CallOf
<1>2. QED
  BY <1>1, StepOf

LEMMA Ends ==
  ASSUME IInv, NEW t \in Tasks, NEW c \in CallOf, calls[t] = c, Works(c.id) = {t},
         Returns(t), Changes(c.id), Rest(c.id)'
  PROVE  IInv'
<1>1. c.id \in Ids
  BY DEF CallOf
<1>2. QED
  BY <1>1, StepOf DEF Returns

LEMMA NothingChanges ==
  ASSUME IInv, UNCHANGED <<workspaces, state_file, datasets, vms, excused>>, NEW i \in Ids
  PROVE  Changes(i) /\ Same(i)
<1>1. \A j \in Ids : Same(j)
  BY DEF Same, Filed
<1>2. Refused(i)'
  BY <1>1, SameRest DEF IInv
<1>3. QED
  BY <1>1, <1>2 DEF Changes, IInv, TypeOK

\* A step of which only the place in the call is new.
LEMMA OnlyGoesOn ==
  ASSUME IInv, NEW t \in Tasks, NEW c \in CallOf, calls[t] = c, Works(c.id) = {t},
         NEW d \in CallOf, calls' = [calls EXCEPT ![t] = d], d.id = c.id, Fits(d),
         UNCHANGED <<workspaces, state_file, datasets, vms, excused>>
  PROVE  IInv'
<1>1. d.id \in Ids
  BY DEF CallOf
<1>2. Changes(d.id) /\ Same(d.id)
  BY <1>1, NothingChanges
<1>3. QED
  BY <1>2, SameFits, GoesOn

LEMMA OnlyEnds ==
  ASSUME IInv, NEW t \in Tasks, NEW c \in CallOf, calls[t] = c, Works(c.id) = {t}, Returns(t),
         Rest(c.id), UNCHANGED <<workspaces, state_file, datasets, vms, excused>>
  PROVE  IInv'
<1>1. c.id \in Ids
  BY DEF CallOf
<1>2. Changes(c.id) /\ Same(c.id)
  BY <1>1, NothingChanges
<1>3. QED
  BY <1>2, SameRest, Ends

\* The fields of a workspace and of a dataset after an assignment.
LEMMA WithTree ==
  ASSUME NEW ws \in Workspace, NEW tree \in Seq(Snapshot)
  PROVE  LET new == [ws EXCEPT !.tree = tree]
         IN new \in Workspace /\ new.tree = tree /\ new.state = ws.state /\ new # None
BY SnapshotsAssumption DEF Workspace

LEMMA WithState ==
  ASSUME NEW ws \in Workspace, NEW state \in {"Running", "Stopped"}
  PROVE  LET new == [ws EXCEPT !.state = state]
         IN new \in Workspace /\ new.tree = ws.tree /\ new.state = state /\ new # None
BY SnapshotsAssumption DEF Workspace

LEMMA WithSnaps ==
  ASSUME NEW ds \in Dataset, NEW snaps \in Seq([name : Names, data : Data])
  PROVE  LET new == [ds EXCEPT !.snaps = snaps]
         IN new \in Dataset /\ new.snaps = snaps /\ new.live = ds.live /\ new # None
BY SnapshotsAssumption DEF Dataset

LEMMA WithLive ==
  ASSUME NEW ds \in Dataset, NEW live \in Data
  PROVE  LET new == [ds EXCEPT !.live = live]
         IN new \in Dataset /\ new.snaps = ds.snaps /\ new.live = live /\ new # None
BY SnapshotsAssumption DEF Dataset

\* What the records of a workspace at work are.
LEMMA RecordsAre ==
  ASSUME IInv, NEW i \in Ids
  PROVE  /\ workspaces[i] # None =>
              workspaces[i] \in Workspace /\ workspaces[i].tree \in Seq(Snapshot)
         /\ datasets[i] # None =>
              /\ datasets[i] \in Dataset /\ datasets[i].live \in Data
              /\ datasets[i].snaps \in Seq([name : Names, data : Data])
BY DEF IInv, TypeOK, Workspace, Dataset

\* What a step that assigns one entry leaves.
LEMMA OneWorkspace ==
  ASSUME IInv, NEW i \in Ids, NEW ws \in {None} \cup Workspace,
         workspaces' = [workspaces EXCEPT ![i] = ws]
  PROVE  /\ workspaces' \in [Ids -> {None} \cup Workspace]
         /\ workspaces'[i] = ws /\ \A j \in Ids \ {i} : workspaces'[j] = workspaces[j]
BY DEF IInv, TypeOK

LEMMA OneDataset ==
  ASSUME IInv, NEW i \in Ids, NEW ds \in {None} \cup Dataset,
         datasets' = [datasets EXCEPT ![i] = ds]
  PROVE  /\ datasets' \in [Ids -> {None} \cup Dataset]
         /\ datasets'[i] = ds /\ \A j \in Ids \ {i} : datasets'[j] = datasets[j]
BY DEF IInv, TypeOK

LEMMA Moved ==
  ASSUME IInv, NEW t \in Tasks, NEW c \in CallOf, calls[t] = c, NEW p, Goes(t, p)
  PROVE  calls' = [calls EXCEPT ![t] = [c EXCEPT !.at = p]]
BY DEF Goes, IInv, TypeOK

-----------------------------------------------------------------------------
(* snapshot_create *)

LEMMA SyncKeeps == ASSUME IInv, NEW t \in Tasks, Sync(t) PROVE IInv'
<1>1. PICK c \in CallOf : /\ calls[t] = c /\ c.at = "sync" /\ Fits(c) /\ Works(c.id) = {t}
  BY AtWork DEF Sync
<1>2. UNCHANGED <<workspaces, state_file, datasets, vms, excused>>
  BY DEF Sync
<1>3. AtRest(c.id)
  BY <1>1 DEF Fits
<1>4. CASE Goes(t, "zfsSnapshot")
  <2> DEFINE d == [c EXCEPT !.at = "zfsSnapshot"]
  <2>1. d \in CallOf
    BY DEF CallOf
  <2>2. /\ d.at = "zfsSnapshot" /\ d.id = c.id /\ d.name = c.name
    BY DEF CallOf
  <2>3. Fits(d)
    BY <1>1, <2>2 DEF Fits
  <2>4. calls' = [calls EXCEPT ![t] = d]
    BY <1>1, <1>4, Moved
  <2>5. QED
    BY <1>1, <1>2, <2>1, <2>2, <2>3, <2>4, OnlyGoesOn
<1>5. CASE Returns(t)
  BY <1>1, <1>2, <1>3, <1>5, OnlyEnds DEF Rest, AtRest, Here
<1>6. QED
  BY <1>4, <1>5 DEF Sync

LEMMA ZfsSnapshotKeeps == ASSUME IInv, NEW t \in Tasks, ZfsSnapshot(t) PROVE IInv'
<1>0. At(t, "zfsSnapshot")
  BY DEF ZfsSnapshot
<1>1. PICK c \in CallOf : /\ calls[t] = c /\ c.at = "zfsSnapshot" /\ c.id \in Ids /\ Fits(c)
                          /\ Works(c.id) = {t} /\ Refused(c.id)
  BY <1>0, AtWork
<1>2. AtRest(c.id) /\ c.name \in Names /\ Len(workspaces[c.id].tree) < MaxSnapshots
  BY <1>1 DEF Fits
<1>3. CASE Returns(t) /\ UNCHANGED datasets
  BY <1>1, <1>2, <1>3, OnlyEnds DEF Rest, AtRest, Here, ZfsSnapshot
<1>4. CASE ~(Returns(t) /\ UNCHANGED datasets)
  <2> DEFINE i == c.id
             ds == datasets[i]
  <2>0. PICK live : live = ds.live
    OBVIOUS
  <2> DEFINE snap == [name |-> c.name, data |-> live]
             d == [c EXCEPT !.at = "parent", !.data = live]
  <2>1. /\ c.name \notin NamesOf(ds.snaps)
        /\ datasets' = [datasets EXCEPT ![i].snaps = Append(@, snap)]
        /\ calls' = [calls EXCEPT ![t] = d]
    BY <1>1, <1>4, <2>0 DEF ZfsSnapshot, IInv, TypeOK
  <2>2. UNCHANGED <<workspaces, state_file, vms, excused>>
    BY DEF ZfsSnapshot
  <2> DEFINE snaps == Append(ds.snaps, snap)
             new == [ds EXCEPT !.snaps = snaps]
  <2>3. /\ ds \in Dataset /\ live \in Data /\ ds.snaps \in Seq([name : Names, data : Data])
        /\ workspaces[i].tree \in Seq(Snapshot)
    BY <1>1, <1>2, <2>0, RecordsAre DEF AtRest, Here
  <2>4. snaps \in Seq([name : Names, data : Data])
    BY <1>2, <2>3
  <2>5. new \in Dataset /\ new # None /\ new.snaps = snaps
    BY <2>3, <2>4, WithSnaps
  <2>6. datasets' = [datasets EXCEPT ![i] = new]
    BY <2>1
  <2>7. /\ datasets' \in [Ids -> {None} \cup Dataset]
        /\ datasets'[i] = new /\ \A j \in Ids \ {i} : datasets'[j] = datasets[j]
    BY <1>1, <2>5, <2>6, OneDataset
  <2>8. Changes(i)
    BY <1>1, <2>2, <2>7 DEF Changes, Same, Filed, Refused, IInv, TypeOK
  <2>9. d \in CallOf /\ d.at = "parent" /\ d.id = i /\ d.name = c.name /\ d.data = live
    BY <2>3 DEF CallOf
  <2>10. Taken(d)'
    <3> DEFINE tree == workspaces[i].tree
    <3>1. \A k \in 1..Len(tree) : tree[k].name # c.name
      BY <1>2, <2>1, <2>3, NamesAre DEF AtRest, InStep, Paired
    <3>2. /\ WellFormed(tree) /\ Len(tree) = Len(ds.snaps) /\ Paired(tree, ds.snaps, Len(tree))
      BY <1>2 DEF AtRest, InStep
    <3>3. /\ Len(snaps) = Len(tree) + 1 /\ snaps[Len(tree) + 1] = snap
          /\ \A k \in 1..Len(tree) : snaps[k] = ds.snaps[k]
      BY <1>2, <2>3, <3>2
    <3>4. Paired(tree, snaps, Len(tree))
      BY <3>2, <3>3 DEF Paired
    <3>5. workspaces'[i].tree = tree /\ datasets'[i].snaps = snaps
      BY <2>2, <2>5, <2>7
    <3> HIDE DEF d, snaps, tree
    <3>6. /\ WellFormed(tree) /\ Len(tree) < MaxSnapshots
          /\ Len(snaps) = Len(tree) + 1 /\ Paired(tree, snaps, Len(tree))
          /\ snaps[Len(snaps)] = [name |-> d.name, data |-> d.data]
          /\ \A k \in 1..Len(tree) : tree[k].name # d.name
      BY <1>2, <2>9, <3>1, <3>2, <3>3, <3>4 DEF tree
    <3>7. workspaces'[d.id].tree = tree /\ datasets'[d.id].snaps = snaps
      BY <2>9, <3>5
    <3>8. QED
      BY <3>6, <3>7 DEF Taken
  <2>11. Here(i)' /\ Settled(i)' /\ Filed(i)'
    BY <1>2, <2>2, <2>5, <2>7 DEF AtRest, Here, Settled, Filed
  <2>12. Fits(d)'
    BY <2>9, <2>10, <2>11 DEF Fits
  <2> HIDE DEF d
  <2>13. QED
    BY <1>1, <2>1, <2>8, <2>9, <2>12, GoesOn
<1>5. QED
  BY <1>3, <1>4

LEMMA FindParentKeeps == ASSUME IInv, NEW t \in Tasks, FindParent(t) PROVE IInv'
<1>1. PICK c \in CallOf : /\ calls[t] = c /\ c.at = "parent" /\ c.id \in Ids /\ Fits(c)
                          /\ Works(c.id) = {t}
  BY AtWork DEF FindParent
<1>2. Here(c.id) /\ Settled(c.id) /\ Filed(c.id) /\ Taken(c)
  BY <1>1 DEF Fits
<1> DEFINE tree == workspaces[c.id].tree
           parent == IF tree = <<>> THEN {} ELSE {tree[Len(tree)]}
           d == [c EXCEPT !.at = "add", !.snaps = parent]
<1>3. calls' = [calls EXCEPT ![t] = d]
  BY <1>1, <1>2 DEF FindParent, Here, Last, IInv, TypeOK
<1>4. parent \in SUBSET Snapshot
  <2>1. tree \in Seq(Snapshot)
    BY <1>1, <1>2 DEF IInv, TypeOK, Here, Workspace
  <2>2. tree # <<>> => tree[Len(tree)] \in Snapshot
    BY <2>1
  <2>3. QED
    BY <2>2
<1>5. /\ d \in CallOf /\ d.at = "add" /\ d.id = c.id /\ d.name = c.name /\ d.data = c.data
      /\ d.snaps = parent
  BY <1>4 DEF CallOf
<1>6. Fits(d)
  BY <1>2, <1>5 DEF Fits, Taken
<1>7. QED
  BY <1>1, <1>3, <1>5, <1>6, OnlyGoesOn DEF FindParent

LEMMA AddToTreeKeeps == ASSUME IInv, NEW t \in Tasks, AddToTree(t) PROVE IInv'
<1>1. PICK c \in CallOf : /\ calls[t] = c /\ c.at = "add" /\ c.id \in Ids /\ Fits(c)
                          /\ Works(c.id) = {t} /\ Refused(c.id)
  BY AtWork DEF AddToTree
<1> DEFINE i == c.id
           ws == workspaces[i]
           ds == datasets[i]
           snap == [name |-> c.name, data |-> c.data, parent |-> {p.name : p \in c.snaps}]
           d == [c EXCEPT !.at = "save"]
<1>2. /\ Here(i) /\ Settled(i) /\ Taken(c)
      /\ c.snaps = IF ws.tree = <<>> THEN {} ELSE {ws.tree[Len(ws.tree)]}
  BY <1>1 DEF Fits
<1>3. workspaces' = [workspaces EXCEPT ![i].tree = Append(@, snap)]
  BY <1>1, <1>2 DEF AddToTree, Here
<1>4. UNCHANGED <<state_file, datasets, vms, excused>> /\ Goes(t, "save")
  BY DEF AddToTree
<1> DEFINE tree == Append(ws.tree, snap)
           new == [ws EXCEPT !.tree = tree]
<1>5. /\ ws \in Workspace /\ ds \in Dataset /\ ws.tree \in Seq(Snapshot)
      /\ ds.snaps \in Seq([name : Names, data : Data])
  BY <1>1, <1>2, RecordsAre DEF Here
<1>6. snap \in Snapshot
  <2>1. [name |-> c.name, data |-> c.data] \in [name : Names, data : Data]
    <3>1. /\ ds.snaps[Len(ds.snaps)] = [name |-> c.name, data |-> c.data]
          /\ Len(ds.snaps) = Len(ws.tree) + 1
      BY <1>2 DEF Taken
    <3>2. Len(ds.snaps) \in 1..Len(ds.snaps)
      BY <1>5, <3>1
    <3>3. QED
      BY <1>5, <3>1, <3>2, ElementOfSeq
  <2>2. c.name \in Names /\ c.data \in Data
    BY <2>1
  <2>3. \A p \in c.snaps : p.name \in Names
    BY DEF CallOf, Snapshot
  <2>4. QED
    BY <2>2, <2>3 DEF Snapshot
<1>7. new \in Workspace /\ new # None /\ new.tree = tree /\ new.state = ws.state
  <2>1. tree \in Seq(Snapshot)
    BY <1>5, <1>6
  <2>2. QED
    BY <1>5, <2>1, WithTree
<1>8. workspaces' = [workspaces EXCEPT ![i] = new]
  BY <1>3
<1>9. /\ workspaces' \in [Ids -> {None} \cup Workspace]
      /\ workspaces'[i] = new /\ \A j \in Ids \ {i} : workspaces'[j] = workspaces[j]
  BY <1>1, <1>7, <1>8, OneWorkspace
<1>10. Changes(i)
  BY <1>1, <1>2, <1>4, <1>7, <1>9 DEF Changes, Same, Filed, Refused, IInv, TypeOK, Here
<1>11. d \in CallOf /\ d.at = "save" /\ d.id = i
  BY DEF CallOf
<1>12. InStep(i)'
  <2>1. /\ WellFormed(ws.tree) /\ Len(ws.tree) < MaxSnapshots
        /\ Len(ds.snaps) = Len(ws.tree) + 1 /\ Paired(ws.tree, ds.snaps, Len(ws.tree))
        /\ ds.snaps[Len(ds.snaps)] = [name |-> c.name, data |-> c.data]
        /\ \A k \in 1..Len(ws.tree) : ws.tree[k].name # c.name
    BY <1>2 DEF Taken
  <2>2. snap.parent = IF ws.tree = <<>> THEN {} ELSE {ws.tree[Len(ws.tree)].name}
    BY <1>2
  <2>3. WellFormed(tree)
    BY <1>5, <1>6, <2>1, <2>2, TreeGrows
  <2>4. /\ Len(tree) = Len(ws.tree) + 1 /\ tree[Len(ws.tree) + 1] = snap
        /\ \A k \in 1..Len(ws.tree) : tree[k] = ws.tree[k]
    BY <1>5, <1>6
  <2>5. Paired(tree, ds.snaps, Len(tree))
    <3>1. SUFFICES ASSUME NEW k \in 1..Len(tree)
                   PROVE  tree[k].name = ds.snaps[k].name /\ tree[k].data = ds.snaps[k].data
      BY DEF Paired
    <3>2. Len(ws.tree) \in Nat
      BY <1>5
    <3>3. CASE k = Len(ws.tree) + 1
      <4>1. tree[k] = snap /\ ds.snaps[k] = [name |-> c.name, data |-> c.data]
        BY <2>1, <2>4, <3>3
      <4>2. QED
        BY <4>1
    <3>4. CASE k # Len(ws.tree) + 1
      <4>1. k \in 1..Len(ws.tree)
        BY <2>4, <3>2, <3>4
      <4>2. QED
        BY <2>1, <2>4, <4>1 DEF Paired
    <3>5. QED
      BY <3>3, <3>4
  <2>6. QED
    BY <1>4, <1>7, <1>9, <2>1, <2>3, <2>4, <2>5 DEF InStep
<1>13. Here(i)' /\ Settled(i)'
  BY <1>2, <1>4, <1>7, <1>9 DEF Here, Settled
<1>14. Fits(d)'
  BY <1>11, <1>12, <1>13 DEF Fits, Here
<1>15. calls' = [calls EXCEPT ![t] = d]
  BY <1>1, <1>4, Moved
<1>16. QED
  BY <1>1, <1>10, <1>11, <1>14, <1>15, GoesOn

\* A call begins on a workspace that is at rest.
LEMMA CallableAtRest ==
  ASSUME IInv, OneCallAtATime, NEW t \in Tasks, NEW i \in Ids, Callable(t, i)
  PROVE  calls[t] = None /\ Works(i) = {} /\ AtRest(i) /\ Refused(i) /\ workspaces[i] # None
BY DEF Callable, IInv, Rest, Registered

LEMMA Begins ==
  ASSUME IInv, NEW t \in Tasks, calls[t] = None, NEW i \in Ids, Works(i) = {},
         NEW d \in CallOf, calls' = [calls EXCEPT ![t] = d], d.id = i, Fits(d),
         UNCHANGED <<workspaces, state_file, datasets, vms, excused>>
  PROVE  IInv'
<1>1. Changes(i) /\ Same(i) /\ d # None
  BY NothingChanges, SnapshotsAssumption
<1>2. Fits(d)'
  BY <1>1, SameFits
<1>3. QED
  BY <1>1, <1>2, StepOf

LEMMA SnapshotCreateKeeps ==
  ASSUME IInv, OneCallAtATime, NEW t \in Tasks, NEW i \in Ids, NEW name \in Names,
         SnapshotCreate(t, i, name)
  PROVE  IInv'
<1> DEFINE d == [op |-> "create", at |-> "sync", id |-> i, name |-> name,
                 snaps |-> {}, data |-> None]
<1>1. calls[t] = None /\ Works(i) = {} /\ AtRest(i)
  BY CallableAtRest DEF SnapshotCreate
<1>2. d \in CallOf
  BY DEF CallOf
<1>3. Fits(d)
  BY <1>1 DEF Fits, SnapshotCreate
<1>4. QED
  BY <1>1, <1>2, <1>3, Begins DEF SnapshotCreate, Call

-----------------------------------------------------------------------------
(* snapshot_restore *)

LEMMA SnapshotRestoreKeeps ==
  ASSUME IInv, OneCallAtATime, NEW t \in Tasks, NEW i \in Ids, NEW name \in Names,
         SnapshotRestore(t, i, name)
  PROVE  IInv'
<1> DEFINE tree == workspaces[i].tree
           n == UpTo(tree, name)
           keep == SubSeq(tree, 1, n)
           d == [op |-> "restore", at |-> "stopForRestore", id |-> i, name |-> name,
                 snaps |-> ToSet(keep), data |-> Last(keep).data]
<1>1. /\ calls[t] = None /\ Works(i) = {} /\ AtRest(i) /\ tree \in Seq(Snapshot)
      /\ WellFormed(tree)
  BY CallableAtRest, RecordsAre DEF SnapshotRestore, AtRest, InStep
<1>2. n \in 1..Len(tree) /\ tree[n].name = name
  BY <1>1, NamesAre, PlaceOf DEF SnapshotRestore
<1>3. keep \in Seq(Snapshot) /\ Len(keep) = n /\ \A k \in 1..n : keep[k] = tree[k]
  BY <1>1, <1>2, TreeCut
<1>4. /\ ToSet(keep) = {tree[k] : k \in 1..n} /\ ToSet(keep) \subseteq Snapshot
      /\ Last(keep).data = tree[n].data /\ tree[n] \in Snapshot
  <2> HIDE DEF n, keep, tree
  <2>1. DOMAIN keep = 1..n /\ \A k \in 1..n : keep[k] \in Snapshot
    BY <1>3
  <2>2. ToSet(keep) = {tree[k] : k \in 1..n} /\ ToSet(keep) \subseteq Snapshot
    BY <1>3, <2>1 DEF ToSet
  <2>3. Last(keep).data = tree[n].data /\ tree[n] \in Snapshot
    BY <1>2, <1>3, <2>1 DEF Last
  <2>4. QED
    BY <2>2, <2>3
<1>5. d \in CallOf
  BY <1>4 DEF CallOf, Snapshot
<1>6. Target(d, n)
  BY <1>2, <1>4 DEF Target
<1>7. Fits(d)
  BY <1>1, <1>2, <1>6 DEF Fits
<1>8. calls' = [calls EXCEPT ![t] = d]
  BY DEF SnapshotRestore
<1> HIDE DEF d
<1>9. d.id = i
  BY DEF d
<1>10. QED
  BY <1>1, <1>5, <1>7, <1>8, <1>9, Begins DEF SnapshotRestore

LEMMA StopForRestoreKeeps == ASSUME IInv, NEW t \in Tasks, StopForRestore(t) PROVE IInv'
<1>1. PICK c \in CallOf : /\ calls[t] = c /\ c.at = "stopForRestore" /\ c.id \in Ids /\ Fits(c)
                          /\ Works(c.id) = {t} /\ Refused(c.id)
  BY AtWork DEF StopForRestore
<1> DEFINE i == c.id
           d == [c EXCEPT !.at = "rollback"]
<1>2. /\ AtRest(i) /\ workspaces[i] # None /\ c.op = "restore"
      /\ \E n \in 1..Len(workspaces[i].tree) : Target(c, n)
  BY <1>1 DEF Fits, AtRest, Here
<1>3. /\ UNCHANGED <<workspaces, state_file, datasets, excused>> /\ Goes(t, "rollback")
      /\ vms' = IF workspaces[i].state = "Running" THEN vms \ {i} ELSE vms
  BY <1>1, <1>2 DEF StopForRestore
<1>4. i \notin vms'
  BY <1>1, <1>2, <1>3 DEF Refused, AtRest, Settled
<1>5. Changes(i)
  BY <1>1, <1>3 DEF Changes, Same, Filed, Refused, IInv, TypeOK
<1>6. /\ d \in CallOf /\ d.at = "rollback" /\ d.id = i /\ d.op = c.op /\ d.name = c.name
      /\ d.snaps = c.snaps /\ d.data = c.data
  BY DEF CallOf
<1>7. Here(i)' /\ Filed(i)' /\ InStep(i)'
  BY <1>2, <1>3 DEF AtRest, Here, Filed, InStep
<1>8. \E n \in 1..Len(workspaces'[i].tree) : Target(d, n)'
  <2>1. PICK n \in 1..Len(workspaces[i].tree) : Target(c, n)
    BY <1>2
  <2>2. workspaces'[d.id].tree = workspaces[c.id].tree
    BY <1>3, <1>6
  <2> HIDE DEF d
  <2>3. Target(d, n)'
    BY <1>6, <2>1, <2>2 DEF Target
  <2>4. QED
    BY <1>6, <2>1, <2>2, <2>3
<1>9. Fits(d)'
  BY <1>2, <1>4, <1>6, <1>7, <1>8 DEF Fits
<1>10. calls' = [calls EXCEPT ![t] = d]
  BY <1>1, <1>3, Moved
<1>11. QED
  BY <1>1, <1>5, <1>6, <1>9, <1>10, GoesOn

LEMMA RollbackKeeps == ASSUME IInv, NEW t \in Tasks, Rollback(t) PROVE IInv'
<1>0. At(t, "rollback")
  BY DEF Rollback
<1>1. PICK c \in CallOf : /\ calls[t] = c /\ c.at = "rollback" /\ c.id \in Ids /\ Fits(c)
                          /\ Works(c.id) = {t} /\ Refused(c.id)
  BY <1>0, AtWork
<1> DEFINE i == c.id
           tree == workspaces[i].tree
           ds == datasets[i]
           d == [c EXCEPT !.at = "prune"]
           refused == IF workspaces[i].state = "Running" THEN excused \cup {<<"refused", i>>}
                      ELSE excused
<1>2. /\ Here(i) /\ i \notin vms /\ Filed(i) /\ InStep(i) /\ c.op = "restore"
      /\ \E m \in 1..Len(tree) : Target(c, m)
  BY <1>1 DEF Fits
<1>3. UNCHANGED <<workspaces, state_file, vms>>
  BY DEF Rollback
<1>4. CASE Returns(t) /\ UNCHANGED datasets /\ excused' = refused
  <2>1. UNCHANGED datasets /\ excused' = refused
    BY <1>4
  <2>2. Changes(i)
    BY <1>1, <1>3, <2>1 DEF Changes, Same, Filed, Refused, IInv, TypeOK
  <2>3. Settled(i)'
    BY <1>2, <1>3, <2>1 DEF Settled
  <2>4. Here(i)' /\ Filed(i)' /\ InStep(i)'
    BY <1>2, <1>3, <2>1 DEF Here, Filed, InStep
  <2>5. Rest(i)'
    BY <2>3, <2>4 DEF Rest, AtRest, Here
  <2>6. QED
    BY <1>1, <1>4, <2>2, <2>5, Ends
<1>5. CASE ~(Returns(t) /\ UNCHANGED datasets /\ excused' = refused)
  <2>0. PICK n : n = UpTo(ds.snaps, c.name)
    OBVIOUS
  <2>1. /\ n # 0 /\ UNCHANGED excused /\ Goes(t, "prune")
        /\ datasets' = [datasets EXCEPT ![i].snaps = SubSeq(@, 1, n),
                                        ![i].live = ds.snaps[n].data]
    BY <1>1, <1>2, <1>5, <2>0 DEF Rollback, Here
  <2>2. /\ ds \in Dataset /\ ds.snaps \in Seq([name : Names, data : Data])
        /\ tree \in Seq(Snapshot)
    BY <1>1, <1>2, RecordsAre DEF Here
  <2>3. n \in 1..Len(ds.snaps) /\ ds.snaps[n].name = c.name
    BY <2>0, <2>1, <2>2, PlaceOf
  <2>4. PICK m \in 1..Len(tree) : Target(c, m)
    BY <1>2
  <2>5. WellFormed(tree) /\ Len(tree) = Len(ds.snaps) /\ Paired(tree, ds.snaps, Len(tree))
    BY <1>2 DEF InStep
  <2>6. n = m
    BY <2>3, <2>4, <2>5 DEF Target, Paired, WellFormed, Distinct
  <2> DEFINE cut == SubSeq(ds.snaps, 1, n)
             shorter == [ds EXCEPT !.snaps = cut]
             new == [shorter EXCEPT !.live = ds.snaps[n].data]
  <2>7. /\ cut \in Seq([name : Names, data : Data]) /\ Len(cut) = n
        /\ \A k \in 1..n : cut[k] = ds.snaps[k]
    <3>1. \A k \in 1..n : ds.snaps[k] \in [name : Names, data : Data]
      <4>1. \A k \in 1..n : k \in 1..Len(ds.snaps)
        BY <2>3
      <4>2. QED
        BY <2>2, <4>1, ElementOfSeq
    <3>2. QED
      BY <2>2, <2>3, <3>1, SubSeqProperties
  <2>8. ds.snaps[n].data \in Data
    <3>1. ds.snaps[n] \in [name : Names, data : Data]
      BY <2>2, <2>3, ElementOfSeq
    <3>2. QED
      BY <3>1
  <2>9. /\ new \in Dataset /\ new # None /\ new.snaps = cut
        /\ new.live = ds.snaps[n].data
    <3>1. shorter \in Dataset /\ shorter.snaps = cut
      BY <2>2, <2>7, WithSnaps
    <3> HIDE DEF shorter, cut
    <3>2. QED
      BY <2>8, <3>1, WithLive
  <2>10. datasets' = [datasets EXCEPT ![i] = new]
    BY <1>1, <2>1, <2>2 DEF IInv, TypeOK, Dataset
  <2>11. /\ datasets' \in [Ids -> {None} \cup Dataset]
         /\ datasets'[i] = new /\ \A j \in Ids \ {i} : datasets'[j] = datasets[j]
    BY <1>1, <2>9, <2>10, OneDataset
  <2>12. Changes(i)
    BY <1>1, <1>3, <2>1, <2>11 DEF Changes, Same, Filed, Refused, IInv, TypeOK
  <2>13. /\ d \in CallOf /\ d.at = "prune" /\ d.id = i /\ d.op = c.op /\ d.name = c.name
         /\ d.snaps = c.snaps /\ d.data = c.data
    BY DEF CallOf
  <2>14. workspaces'[i].tree = tree /\ datasets'[i].snaps = cut /\ Len(cut) = n
         /\ datasets'[i].live = ds.snaps[n].data
    BY <1>3, <2>7, <2>9, <2>11
  <2>15. Paired(tree, cut, n)
    <3> HIDE DEF cut, tree
    <3>1. \A k \in 1..n : k \in 1..Len(tree)
      BY <2>3, <2>5
    <3>2. QED
      BY <2>5, <2>7, <3>1 DEF Paired
  <2>16. Target(d, n)'
    BY <1>3, <2>4, <2>6, <2>13 DEF Target
  <2>17. ds.snaps[n].data = d.data
    BY <2>3, <2>4, <2>5, <2>6, <2>13 DEF Target, Paired
  <2>18. RolledBack(d)'
    <3> HIDE DEF d
    <3>1. n <= Len(tree)
      BY <2>4, <2>6
    <3>2. QED
      BY <2>5, <2>13, <2>14, <2>15, <2>16, <2>17, <3>1 DEF RolledBack
  <2>19. Here(i)' /\ i \notin vms'
    BY <1>2, <1>3, <2>9, <2>11 DEF Here
  <2>20. Fits(d)'
    BY <1>2, <2>13, <2>18, <2>19 DEF Fits
  <2>21. calls' = [calls EXCEPT ![t] = d]
    BY <1>1, <2>1, Moved
  <2> HIDE DEF d
  <2>22. QED
    BY <1>1, <2>12, <2>13, <2>20, <2>21, GoesOn
<1>6. QED
  BY <1>4, <1>5

LEMMA PruneKeeps == ASSUME IInv, NEW t \in Tasks, Prune(t) PROVE IInv'
<1>0. At(t, "prune")
  BY DEF Prune
<1>1. PICK c \in CallOf : /\ calls[t] = c /\ c.at = "prune" /\ c.id \in Ids /\ Fits(c)
                          /\ Works(c.id) = {t}
  BY <1>0, AtWork
<1> DEFINE i == c.id
           tree == workspaces[i].tree
           ds == datasets[i]
           n == Len(ds.snaps)
           cut == SubSeq(tree, 1, n)
           shorter == [workspaces[i] EXCEPT !.tree = cut]
           new == [shorter EXCEPT !.state = "Stopped"]
           d == [c EXCEPT !.at = "launch"]
<1>2. Here(i) /\ i \notin vms /\ RolledBack(c) /\ c.op = "restore"
  BY <1>1 DEF Fits
<1>3. /\ UNCHANGED <<state_file, datasets, vms>> /\ Goes(t, "launch")
      /\ excused' = excused \ {<<"refused", i>>}
      /\ workspaces' = [workspaces EXCEPT ![i].state = "Stopped", ![i].tree = Kept(@, c.snaps)]
  BY <1>1, <1>2 DEF Prune, Here
<1>4. /\ workspaces[i] \in Workspace /\ tree \in Seq(Snapshot)
      /\ ds.snaps \in Seq([name : Names, data : Data])
  BY <1>1, <1>2, RecordsAre DEF Here
<1>5. /\ WellFormed(tree) /\ n \in 1..Len(tree) /\ Paired(tree, ds.snaps, n)
      /\ c.snaps = {tree[k] : k \in 1..n} /\ ds.live = c.data
  BY <1>2, <1>4 DEF RolledBack, Target
<1>6. Kept(tree, c.snaps) = cut
  <2>1. ASSUME NEW k \in 1..Len(tree) PROVE tree[k] \in c.snaps <=> k <= n
    <3>1. k <= n => k \in 1..n
      OBVIOUS
    <3>2. ASSUME NEW j \in 1..n, tree[k] = tree[j] PROVE k <= n
      <4> HIDE DEF n, tree
      <4>1. j \in 1..Len(tree) /\ j <= n
        BY <1>5
      <4>2. j = k
        BY <1>5, <3>2, <4>1 DEF WellFormed, Distinct
      <4>3. QED
        BY <4>1, <4>2
    <3>3. QED
      BY <1>5, <3>1, <3>2
  <2>2. n \in 0..Len(tree)
    BY <1>5
  <2>3. QED
    BY <1>4, <2>1, <2>2, KeptPrefix
<1>7. /\ cut \in Seq(Snapshot) /\ WellFormed(cut) /\ Len(cut) = n
      /\ \A k \in 1..n : cut[k] = tree[k]
  <2>1. n \in 0..Len(tree)
    BY <1>5
  <2>2. QED
    BY <1>4, <1>5, <2>1, TreeCut
<1>8. /\ new \in Workspace /\ new # None /\ new.tree = cut /\ new.state = "Stopped"
  <2>1. shorter \in Workspace /\ shorter.tree = cut
    BY <1>4, <1>7, WithTree
  <2> HIDE DEF shorter, cut
  <2>2. QED
    BY <2>1, WithState
<1>9. workspaces' = [workspaces EXCEPT ![i] = new]
  <2>1. workspaces' = [workspaces EXCEPT ![i] = [[workspaces[i] EXCEPT !.state = "Stopped"]
                                                   EXCEPT !.tree = cut]]
    BY <1>1, <1>3, <1>6 DEF IInv, TypeOK
  <2>2. [[workspaces[i] EXCEPT !.state = "Stopped"] EXCEPT !.tree = cut] = new
    BY <1>4 DEF Workspace
  <2>3. QED
    BY <2>1, <2>2
<1>10. /\ workspaces' \in [Ids -> {None} \cup Workspace]
       /\ workspaces'[i] = new /\ \A j \in Ids \ {i} : workspaces'[j] = workspaces[j]
  BY <1>1, <1>8, <1>9, OneWorkspace
<1>11. Changes(i)
  <2> HIDE DEF new
  <2>1. excused' \subseteq excused /\ \A e \in excused : e # <<"refused", i>> => e \in excused'
    BY <1>3
  <2>2. Refused(i)'
    BY <1>3 DEF Refused
  <2>3. \A j \in Ids \ {i} : Same(j)
    BY <1>3, <1>10 DEF Same, Filed
  <2>4. QED
    BY <1>3, <1>10, <2>1, <2>2, <2>3 DEF Changes, IInv, TypeOK
<1>12. d \in CallOf /\ d.at = "launch" /\ d.id = i /\ d.op = "restore" /\ d.data = c.data
  BY <1>2 DEF CallOf
<1>13. InStep(i)'
  <2>1. Paired(cut, ds.snaps, n)
    BY <1>5, <1>7 DEF Paired
  <2>2. workspaces'[i].tree = cut /\ datasets'[i].snaps = ds.snaps
    BY <1>3, <1>8, <1>10
  <2> HIDE DEF cut
  <2>3. WellFormed(cut) /\ Len(cut) = Len(ds.snaps) /\ Paired(cut, ds.snaps, Len(cut))
    BY <1>7, <2>1
  <2>4. QED
    BY <2>2, <2>3 DEF InStep
<1>14. Here(i)' /\ i \notin vms' /\ workspaces'[i].state = "Stopped" /\ datasets'[i].live = d.data
  BY <1>2, <1>3, <1>5, <1>8, <1>10, <1>12 DEF Here
<1>15. Fits(d)'
  BY <1>12, <1>13, <1>14 DEF Fits
<1>16. calls' = [calls EXCEPT ![t] = d]
  BY <1>1, <1>3, Moved
<1>17. QED
  BY <1>1, <1>11, <1>12, <1>15, <1>16, GoesOn

-----------------------------------------------------------------------------
(* snapshot_delete *)

LEMMA SnapshotDeleteKeeps ==
  ASSUME IInv, OneCallAtATime, NEW t \in Tasks, NEW i \in Ids, NEW name \in Names,
         SnapshotDelete(t, i, name)
  PROVE  IInv'
<1> DEFINE tree == workspaces[i].tree
           d == [op |-> "delete", at |-> "clones", id |-> i, name |-> name,
                 snaps |-> {tree[UpTo(tree, name)]}, data |-> None]
<1>1. /\ calls[t] = None /\ Works(i) = {} /\ AtRest(i) /\ tree \in Seq(Snapshot)
      /\ WellFormed(tree)
  BY CallableAtRest, RecordsAre DEF SnapshotDelete, AtRest, InStep
<1>2. tree # <<>> /\ UpTo(tree, name) = Len(tree) /\ tree[Len(tree)].name = name
  BY <1>1, ChildlessIsLatest DEF SnapshotDelete
<1>3. tree[Len(tree)] \in Snapshot
  BY <1>1, <1>2
<1>4. d \in CallOf
  BY <1>2, <1>3 DEF CallOf
<1>5. Latest(d)
  BY <1>2 DEF Latest
<1>6. Fits(d)
  BY <1>1, <1>5 DEF Fits
<1>7. calls' = [calls EXCEPT ![t] = d]
  BY DEF SnapshotDelete
<1> HIDE DEF d
<1>8. d.id = i
  BY DEF d
<1>9. QED
  BY <1>1, <1>4, <1>6, <1>7, <1>8, Begins DEF SnapshotDelete

LEMMA ListClonesKeeps == ASSUME IInv, NEW t \in Tasks, ListClones(t) PROVE IInv'
<1>1. PICK c \in CallOf : /\ calls[t] = c /\ c.at = "clones" /\ Fits(c) /\ Works(c.id) = {t}
  BY AtWork DEF ListClones
<1> DEFINE d == [c EXCEPT !.at = "zfsDestroy"]
<1>2. UNCHANGED <<workspaces, state_file, datasets, vms, excused>>
  BY DEF ListClones
<1>3. AtRest(c.id) /\ Latest(c)
  BY <1>1 DEF Fits
<1>4. CASE Goes(t, "zfsDestroy")
  <2>1. /\ d \in CallOf /\ d.at = "zfsDestroy" /\ d.id = c.id /\ d.name = c.name
        /\ d.snaps = c.snaps
    BY DEF CallOf
  <2>2. Fits(d)
    BY <1>3, <2>1 DEF Fits, Latest
  <2>3. calls' = [calls EXCEPT ![t] = d]
    BY <1>1, <1>4, Moved
  <2>4. QED
    BY <1>1, <1>2, <2>1, <2>2, <2>3, OnlyGoesOn
<1>5. CASE Returns(t)
  BY <1>1, <1>2, <1>3, <1>5, OnlyEnds DEF Rest, AtRest, Here
<1>6. QED
  BY <1>4, <1>5 DEF ListClones

LEMMA ZfsDestroyKeeps == ASSUME IInv, NEW t \in Tasks, ZfsDestroy(t) PROVE IInv'
<1>0. At(t, "zfsDestroy")
  BY DEF ZfsDestroy
<1>1. PICK c \in CallOf : /\ calls[t] = c /\ c.at = "zfsDestroy" /\ c.id \in Ids /\ Fits(c)
                          /\ Works(c.id) = {t} /\ Refused(c.id)
  BY <1>0, AtWork
<1> DEFINE i == c.id
           tree == workspaces[i].tree
           ds == datasets[i]
           others == {s \in ToSet(ds.snaps) : s.name # c.name}
           n == Len(ds.snaps) - 1
           cut == SubSeq(ds.snaps, 1, n)
           new == [ds EXCEPT !.snaps = cut]
           d == [c EXCEPT !.at = "remove"]
<1>2. AtRest(i) /\ Latest(c)
  BY <1>1 DEF Fits
<1>3. UNCHANGED <<workspaces, state_file, vms, excused>>
  BY DEF ZfsDestroy
<1>4. CASE Returns(t) /\ UNCHANGED datasets
  BY <1>1, <1>2, <1>3, <1>4, OnlyEnds DEF Rest, AtRest, Here
<1>5. CASE ~(Returns(t) /\ UNCHANGED datasets)
  <2>1. /\ Goes(t, "remove")
        /\ datasets' = [datasets EXCEPT ![i].snaps = Kept(@, {s \in ToSet(@) : s.name # c.name})]
    BY <1>1, <1>5 DEF ZfsDestroy
  <2>2. /\ ds \in Dataset /\ ds.snaps \in Seq([name : Names, data : Data])
        /\ tree \in Seq(Snapshot)
    BY <1>1, <1>2, RecordsAre DEF AtRest, Here
  <2>3. /\ WellFormed(tree) /\ Len(tree) = Len(ds.snaps) /\ Paired(tree, ds.snaps, Len(tree))
        /\ tree # <<>> /\ c.name = tree[Len(tree)].name
    BY <1>2 DEF AtRest, InStep, Latest
  <2>4. n \in 0..Len(ds.snaps) /\ n + 1 = Len(tree) /\ Len(tree) \in 1..Len(tree)
    <3>1. Len(tree) \in Nat \ {0}
      BY <2>2, <2>3, EmptySeq
    <3>2. QED
      BY <2>3, <3>1
  <2>5. ASSUME NEW k \in 1..Len(ds.snaps) PROVE ds.snaps[k] \in others <=> k <= n
    <3> HIDE DEF n
    <3>0. ds.snaps[k] \in ToSet(ds.snaps)
      <4>1. DOMAIN ds.snaps = 1..Len(ds.snaps)
        BY <2>2
      <4>2. QED
        BY <4>1 DEF ToSet
    <3>1. ds.snaps[k] \in ToSet(ds.snaps) /\ ds.snaps[k].name = tree[k].name
      BY <2>3, <3>0 DEF Paired
    <3>2. tree[k].name = c.name <=> k = Len(tree)
      BY <2>3, <2>4 DEF WellFormed, Distinct
    <3>3. k = Len(tree) <=> ~(k <= n)
      BY <2>3, <2>4
    <3> HIDE DEF n
    <3>4. QED
      BY <3>1, <3>2, <3>3
  <2>6. Kept(ds.snaps, others) = cut
    BY <2>2, <2>4, <2>5, KeptPrefix
  <2>7. /\ cut \in Seq([name : Names, data : Data]) /\ Len(cut) = n
        /\ \A k \in 1..n : cut[k] = ds.snaps[k]
    <3>1. \A k \in 1..n : ds.snaps[k] \in [name : Names, data : Data]
      <4>1. \A k \in 1..n : k \in 1..Len(ds.snaps)
        BY <2>4
      <4>2. QED
        BY <2>2, <4>1, ElementOfSeq
    <3>2. QED
      BY <2>2, <2>4, <3>1, SubSeqProperties
  <2>8. new \in Dataset /\ new # None /\ new.snaps = cut
    BY <2>2, <2>7, WithSnaps
  <2>9. datasets' = [datasets EXCEPT ![i] = new]
    BY <1>1, <2>1, <2>6 DEF IInv, TypeOK
  <2>10. /\ datasets' \in [Ids -> {None} \cup Dataset]
         /\ datasets'[i] = new /\ \A j \in Ids \ {i} : datasets'[j] = datasets[j]
    BY <1>1, <2>8, <2>9, OneDataset
  <2>11. Changes(i)
    BY <1>1, <1>3, <2>10 DEF Changes, Same, Filed, Refused, IInv, TypeOK
  <2>12. d \in CallOf /\ d.at = "remove" /\ d.id = i /\ d.name = c.name /\ d.snaps = c.snaps
    BY DEF CallOf
  <2>13. Destroyed(d)'
    <3>1. Paired(tree, cut, n)
      <4>1. \A k \in 1..n : k \in 1..Len(tree)
        BY <2>3, <2>4
      <4> HIDE DEF cut, n
      <4>2. QED
        BY <2>3, <2>7, <4>1 DEF Paired
    <3>2. workspaces'[d.id].tree = tree /\ datasets'[d.id].snaps = cut
      BY <1>3, <2>8, <2>10, <2>12
    <3> HIDE DEF d, cut
    <3>3. WellFormed(tree) /\ Len(tree) = Len(cut) + 1 /\ Paired(tree, cut, Len(cut))
      BY <2>3, <2>4, <2>7, <3>1
    <3>4. QED
      BY <3>2, <3>3 DEF Destroyed
  <2>14. Latest(d)'
    BY <1>2, <1>3, <2>12 DEF Latest
  <2>15. Here(i)' /\ Settled(i)'
    BY <1>2, <1>3, <2>8, <2>10 DEF AtRest, Here, Settled
  <2>16. Fits(d)'
    BY <2>12, <2>13, <2>14, <2>15 DEF Fits
  <2>17. calls' = [calls EXCEPT ![t] = d]
    BY <1>1, <2>1, Moved
  <2> HIDE DEF d
  <2>18. QED
    BY <1>1, <2>11, <2>12, <2>16, <2>17, GoesOn
<1>6. QED
  BY <1>4, <1>5

LEMMA RemoveFromTreeKeeps == ASSUME IInv, NEW t \in Tasks, RemoveFromTree(t) PROVE IInv'
<1>0. At(t, "remove")
  BY DEF RemoveFromTree
<1>1. PICK c \in CallOf : /\ calls[t] = c /\ c.at = "remove" /\ c.id \in Ids /\ Fits(c)
                          /\ Works(c.id) = {t} /\ Refused(c.id)
  BY <1>0, AtWork
<1> DEFINE i == c.id
           tree == workspaces[i].tree
           ds == datasets[i]
           others == ToSet(tree) \ c.snaps
           n == Len(tree) - 1
           cut == SubSeq(tree, 1, n)
           new == [workspaces[i] EXCEPT !.tree = cut]
           d == [c EXCEPT !.at = "save"]
<1>2. Here(i) /\ Settled(i) /\ Latest(c) /\ Destroyed(c)
  BY <1>1 DEF Fits
<1>3. /\ UNCHANGED <<state_file, datasets, vms, excused>> /\ Goes(t, "save")
      /\ workspaces' = [workspaces EXCEPT ![i].tree = Kept(@, ToSet(@) \ c.snaps)]
  BY <1>1, <1>2 DEF RemoveFromTree, Here
<1>4. /\ workspaces[i] \in Workspace /\ tree \in Seq(Snapshot)
      /\ ds.snaps \in Seq([name : Names, data : Data])
  BY <1>1, <1>2, RecordsAre DEF Here
<1>5. /\ WellFormed(tree) /\ Len(tree) = Len(ds.snaps) + 1 /\ Paired(tree, ds.snaps, n)
      /\ tree # <<>> /\ c.snaps = {tree[Len(tree)]}
  <2>1. /\ WellFormed(tree) /\ Len(tree) = Len(ds.snaps) + 1
        /\ Paired(tree, ds.snaps, Len(ds.snaps))
    BY <1>2 DEF Destroyed
  <2>2. Len(ds.snaps) = n
    BY <1>4, <2>1
  <2>3. QED
    BY <1>2, <2>1, <2>2 DEF Latest
<1>6. n \in 0..Len(tree) /\ n = Len(ds.snaps) /\ Len(tree) \in 1..Len(tree)
  <2>1. Len(tree) \in Nat \ {0} /\ Len(ds.snaps) \in Nat
    BY <1>4, <1>5, EmptySeq
  <2> HIDE DEF tree
  <2>2. QED
    BY <1>5, <2>1
<1>7. Kept(tree, others) = cut
  <2>1. ASSUME NEW k \in 1..Len(tree) PROVE tree[k] \in others <=> k <= n
    <3>1. tree[k] \in ToSet(tree)
      BY DEF ToSet
    <3>2. tree[k] = tree[Len(tree)] <=> k = Len(tree)
      BY <1>5, <1>6 DEF WellFormed, Distinct
    <3>3. k = Len(tree) <=> ~(k <= n)
      BY <1>5, <1>6
    <3> HIDE DEF n
    <3>4. QED
      BY <1>5, <3>1, <3>2, <3>3
  <2>2. QED
    BY <1>4, <1>6, <2>1, KeptPrefix
<1>8. /\ cut \in Seq(Snapshot) /\ WellFormed(cut) /\ Len(cut) = n
      /\ \A k \in 1..n : cut[k] = tree[k]
  BY <1>4, <1>5, <1>6, TreeCut
<1>9. new \in Workspace /\ new # None /\ new.tree = cut /\ new.state = workspaces[i].state
  BY <1>4, <1>8, WithTree
<1>10. workspaces' = [workspaces EXCEPT ![i] = new]
  BY <1>1, <1>3, <1>7 DEF IInv, TypeOK
<1>11. /\ workspaces' \in [Ids -> {None} \cup Workspace]
       /\ workspaces'[i] = new /\ \A j \in Ids \ {i} : workspaces'[j] = workspaces[j]
  BY <1>1, <1>9, <1>10, OneWorkspace
<1>12. Changes(i)
  BY <1>1, <1>2, <1>3, <1>9, <1>11 DEF Changes, Same, Filed, Refused, Here, IInv, TypeOK
<1>13. d \in CallOf /\ d.at = "save" /\ d.id = i
  BY DEF CallOf
<1>14. InStep(i)'
  <2>1. Paired(cut, ds.snaps, n)
    BY <1>5, <1>8 DEF Paired
  <2>2. workspaces'[i].tree = cut /\ datasets'[i].snaps = ds.snaps
    BY <1>3, <1>9, <1>11
  <2> HIDE DEF cut
  <2>3. WellFormed(cut) /\ Len(cut) = Len(ds.snaps) /\ Paired(cut, ds.snaps, Len(cut))
    BY <1>6, <1>8, <2>1
  <2>4. QED
    BY <2>2, <2>3 DEF InStep
<1>15. Here(i)' /\ Settled(i)'
  BY <1>2, <1>3, <1>9, <1>11 DEF Here, Settled
<1>16. Fits(d)'
  BY <1>13, <1>14, <1>15 DEF Fits, Here
<1>17. calls' = [calls EXCEPT ![t] = d]
  BY <1>1, <1>3, Moved
<1>18. QED
  BY <1>1, <1>12, <1>13, <1>16, <1>17, GoesOn

-----------------------------------------------------------------------------
(* start and stop *)

LEMMA StartKeeps ==
  ASSUME IInv, OneCallAtATime, NEW t \in Tasks, NEW i \in Ids, Start(t, i)
  PROVE  IInv'
<1> DEFINE d == [op |-> "start", at |-> "launch", id |-> i, name |-> None,
                 snaps |-> {}, data |-> None]
<1>1. /\ calls[t] = None /\ Works(i) = {} /\ AtRest(i) /\ Refused(i)
      /\ workspaces[i] # None /\ workspaces[i].state = "Stopped"
  BY CallableAtRest DEF Start
<1>2. i \notin vms
  BY <1>1 DEF Refused, AtRest, Settled
<1>3. d \in CallOf
  BY DEF CallOf
<1>4. Fits(d)
  BY <1>1, <1>2 DEF Fits, AtRest
<1>5. QED
  BY <1>1, <1>3, <1>4, Begins DEF Start, Call

LEMMA LaunchKeeps == ASSUME IInv, NEW t \in Tasks, Launch(t) PROVE IInv'
<1>0. At(t, "launch")
  BY DEF Launch
<1>1. PICK c \in CallOf : /\ calls[t] = c /\ c.at = "launch" /\ c.id \in Ids /\ Fits(c)
                          /\ Works(c.id) = {t} /\ Refused(c.id)
  BY <1>0, AtWork
<1> DEFINE i == c.id
           d == [c EXCEPT !.at = "markRunning"]
           unsaved == IF c.op = "restore" THEN excused \cup {<<"unsaved", i>>} ELSE excused
<1>2. /\ Here(i) /\ InStep(i) /\ i \notin vms /\ workspaces[i].state = "Stopped"
      /\ IF c.op = "restore" THEN datasets[i].live = c.data ELSE Filed(i)
  BY <1>1 DEF Fits
<1>3. UNCHANGED <<workspaces, state_file, datasets>>
  BY DEF Launch
<1>4. CASE Returns(t) /\ UNCHANGED vms /\ excused' = unsaved
  <2>1. Changes(i)
    BY <1>1, <1>3, <1>4 DEF Changes, Same, Filed, Refused, IInv, TypeOK
  <2>2. Filed(i)'
    BY <1>2, <1>3, <1>4 DEF Filed
  <2>3. Here(i)' /\ InStep(i)' /\ Settled(i)'
    BY <1>2, <1>3, <1>4 DEF Here, InStep, Settled
  <2>4. Rest(i)'
    BY <2>2, <2>3 DEF Rest, AtRest, Here
  <2>5. QED
    BY <1>1, <1>4, <2>1, <2>4, Ends
<1>5. CASE ~(Returns(t) /\ UNCHANGED vms /\ excused' = unsaved)
  <2>1. vms' = vms \cup {i} /\ Goes(t, "markRunning") /\ UNCHANGED excused
    BY <1>1, <1>5 DEF Launch
  <2>2. Changes(i)
    BY <1>1, <1>3, <2>1 DEF Changes, Same, Filed, Refused, IInv, TypeOK
  <2>3. d \in CallOf /\ d.at = "markRunning" /\ d.id = i
    BY DEF CallOf
  <2>4. Here(i)' /\ InStep(i)' /\ i \in vms'
    BY <1>2, <1>3, <2>1 DEF Here, InStep
  <2>5. Fits(d)'
    BY <2>3, <2>4 DEF Fits
  <2>6. calls' = [calls EXCEPT ![t] = d]
    BY <1>1, <2>1, Moved
  <2>7. QED
    BY <1>1, <2>2, <2>3, <2>5, <2>6, GoesOn
<1>6. QED
  BY <1>4, <1>5

\* What marking a workspace leaves.
LEMMA MarkLeaves ==
  ASSUME IInv, NEW i \in Ids, NEW state \in {"Running", "Stopped"}, Here(i), InStep(i),
         Mark(i, state), UNCHANGED datasets
  PROVE  /\ workspaces' \in [Ids -> {None} \cup Workspace]
         /\ \A j \in Ids \ {i} : workspaces'[j] = workspaces[j]
         /\ Here(i)' /\ InStep(i)' /\ workspaces'[i].state = state
<1> DEFINE new == [workspaces[i] EXCEPT !.state = state]
<1>1. workspaces[i] \in Workspace
  BY RecordsAre DEF Here
<1>2. new \in Workspace /\ new # None /\ new.tree = workspaces[i].tree /\ new.state = state
  BY <1>1, WithState
<1>3. workspaces' = [workspaces EXCEPT ![i] = new]
  BY DEF Mark, Here, IInv, TypeOK
<1>4. /\ workspaces' \in [Ids -> {None} \cup Workspace]
      /\ workspaces'[i] = new /\ \A j \in Ids \ {i} : workspaces'[j] = workspaces[j]
  BY <1>2, <1>3, OneWorkspace
<1>5. Here(i)' /\ InStep(i)'
  BY <1>2, <1>4 DEF Here, InStep
<1>6. QED
  BY <1>2, <1>4, <1>5

LEMMA MarkRunningKeeps == ASSUME IInv, NEW t \in Tasks, MarkRunning(t) PROVE IInv'
<1>1. PICK c \in CallOf : /\ calls[t] = c /\ c.at = "markRunning" /\ c.id \in Ids /\ Fits(c)
                          /\ Works(c.id) = {t}
  BY AtWork DEF MarkRunning
<1> DEFINE i == c.id
           d == [c EXCEPT !.at = "save"]
<1>2. Here(i) /\ InStep(i) /\ i \in vms
  BY <1>1 DEF Fits
<1>3. /\ UNCHANGED <<state_file, datasets, vms, excused>> /\ Goes(t, "save")
      /\ Mark(i, "Running")
  BY <1>1 DEF MarkRunning
<1>4. /\ workspaces' \in [Ids -> {None} \cup Workspace]
      /\ \A j \in Ids \ {i} : workspaces'[j] = workspaces[j]
      /\ Here(i)' /\ InStep(i)' /\ workspaces'[i].state = "Running"
  BY <1>1, <1>2, <1>3, MarkLeaves
<1>5. Changes(i)
  BY <1>1, <1>3, <1>4 DEF Changes, Same, Filed, Refused, IInv, TypeOK
<1>6. d \in CallOf /\ d.at = "save" /\ d.id = i
  BY DEF CallOf
<1>7. Settled(i)'
  BY <1>2, <1>3, <1>4 DEF Settled
<1>8. Fits(d)'
  BY <1>4, <1>6, <1>7 DEF Fits, Here
<1>9. calls' = [calls EXCEPT ![t] = d]
  BY <1>1, <1>3, Moved
<1>10. QED
  BY <1>1, <1>5, <1>6, <1>8, <1>9, GoesOn

LEMMA StopKeeps ==
  ASSUME IInv, OneCallAtATime, NEW t \in Tasks, NEW i \in Ids, Stop(t, i)
  PROVE  IInv'
<1> DEFINE d == [op |-> "stop", at |-> "stopVm", id |-> i, name |-> None,
                 snaps |-> {}, data |-> None]
<1>1. calls[t] = None /\ Works(i) = {} /\ AtRest(i)
  BY CallableAtRest DEF Stop
<1>2. d \in CallOf
  BY DEF CallOf
<1>3. Fits(d)
  BY <1>1 DEF Fits, AtRest
<1>4. QED
  BY <1>1, <1>2, <1>3, Begins DEF Stop, Call

LEMMA StopVmKeeps == ASSUME IInv, NEW t \in Tasks, StopVm(t) PROVE IInv'
<1>1. PICK c \in CallOf : /\ calls[t] = c /\ c.at = "stopVm" /\ c.id \in Ids /\ Fits(c)
                          /\ Works(c.id) = {t} /\ Refused(c.id)
  BY AtWork DEF StopVm
<1> DEFINE i == c.id
           d == [c EXCEPT !.at = "markStopped"]
<1>2. Here(i) /\ InStep(i)
  BY <1>1 DEF Fits
<1>3. /\ UNCHANGED <<workspaces, state_file, datasets, excused>> /\ Goes(t, "markStopped")
      /\ vms' = vms \ {i}
  BY <1>1 DEF StopVm
<1>4. Changes(i)
  BY <1>1, <1>3 DEF Changes, Same, Filed, Refused, IInv, TypeOK
<1>5. d \in CallOf /\ d.at = "markStopped" /\ d.id = i
  BY DEF CallOf
<1>6. Here(i)' /\ InStep(i)' /\ i \notin vms'
  BY <1>2, <1>3 DEF Here, InStep
<1>7. Fits(d)'
  BY <1>5, <1>6 DEF Fits
<1>8. calls' = [calls EXCEPT ![t] = d]
  BY <1>1, <1>3, Moved
<1>9. QED
  BY <1>1, <1>4, <1>5, <1>7, <1>8, GoesOn

LEMMA MarkStoppedKeeps == ASSUME IInv, NEW t \in Tasks, MarkStopped(t) PROVE IInv'
<1>1. PICK c \in CallOf : /\ calls[t] = c /\ c.at = "markStopped" /\ c.id \in Ids /\ Fits(c)
                          /\ Works(c.id) = {t}
  BY AtWork DEF MarkStopped
<1> DEFINE i == c.id
           d == [c EXCEPT !.at = "save"]
<1>2. Here(i) /\ InStep(i) /\ i \notin vms
  BY <1>1 DEF Fits
<1>3. /\ UNCHANGED <<state_file, datasets, vms>> /\ Goes(t, "save")
      /\ excused' = excused \ {<<"refused", i>>} /\ Mark(i, "Stopped")
  BY <1>1 DEF MarkStopped
<1>4. /\ workspaces' \in [Ids -> {None} \cup Workspace]
      /\ \A j \in Ids \ {i} : workspaces'[j] = workspaces[j]
      /\ Here(i)' /\ InStep(i)' /\ workspaces'[i].state = "Stopped"
  BY <1>1, <1>2, <1>3, MarkLeaves
<1>5. Changes(i)
  <2>1. Refused(i)' /\ \A j \in Ids \ {i} : Same(j)
    BY <1>3, <1>4 DEF Refused, Same, Filed
  <2>2. QED
    BY <1>3, <1>4, <2>1 DEF Changes, IInv, TypeOK
<1>6. d \in CallOf /\ d.at = "save" /\ d.id = i
  BY DEF CallOf
<1>7. Settled(i)'
  BY <1>2, <1>3, <1>4 DEF Settled
<1>8. Fits(d)'
  BY <1>4, <1>6, <1>7 DEF Fits, Here
<1>9. calls' = [calls EXCEPT ![t] = d]
  BY <1>1, <1>3, Moved
<1>10. QED
  BY <1>1, <1>5, <1>6, <1>8, <1>9, GoesOn

-----------------------------------------------------------------------------
(* fork *)

LEMMA ForkKeeps ==
  ASSUME IInv, NEW t \in Tasks, NEW i \in Ids, NEW name \in Names, NEW new \in Ids,
         Fork(t, i, name, new)
  PROVE  IInv'
<1> DEFINE d == [op |-> "fork", at |-> "clone", id |-> new, name |-> <<i, name>>,
                 snaps |-> {}, data |-> None]
<1>1. /\ calls[t] = None /\ Works(new) = {}
      /\ workspaces[new] = None /\ datasets[new] = None
      /\ calls' = [calls EXCEPT ![t] = d]
      /\ UNCHANGED <<workspaces, state_file, datasets, vms, excused>>
  BY DEF Fork, Fresh, Registered
<1>2. new \notin vms
  BY <1>1 DEF IInv, Rest, Gone
<1>3. d \in CallOf /\ d.at = "clone" /\ d.id = new /\ d.name \in Ids \X Names
  BY DEF CallOf
<1>4. Fits(d)
  BY <1>1, <1>2, <1>3 DEF Fits
<1> HIDE DEF d
<1>5. QED
  BY <1>1, <1>3, <1>4, Begins

LEMMA CloneKeeps == ASSUME IInv, NEW t \in Tasks, Clone(t) PROVE IInv'
<1>0. At(t, "clone")
  BY DEF Clone
<1>1. PICK c \in CallOf : /\ calls[t] = c /\ c.at = "clone" /\ c.id \in Ids /\ Fits(c)
                          /\ Works(c.id) = {t} /\ Refused(c.id)
  BY <1>0, AtWork
<1> DEFINE i == c.id
           source == datasets[c.name[1]]
           place == UpTo(source.snaps, c.name[2])
           new == [snaps |-> <<>>, live |-> source.snaps[place].data, origin |-> c.name]
           d == [c EXCEPT !.at = "boot"]
<1>2. /\ workspaces[i] = None /\ c.name \in Ids \X Names /\ i \notin vms /\ datasets[i] = None
  BY <1>1 DEF Fits
<1>3. UNCHANGED <<workspaces, state_file, vms, excused>>
  BY DEF Clone
<1>4. CASE Returns(t) /\ UNCHANGED datasets
  BY <1>1, <1>2, <1>3, <1>4, OnlyEnds DEF Rest, Gone
<1>5. CASE ~(Returns(t) /\ UNCHANGED datasets)
  <2>1. /\ source # None /\ c.name[2] \in NamesOf(source.snaps) /\ Goes(t, "boot")
        /\ datasets' = [datasets EXCEPT ![i] = new]
    BY <1>1, <1>5 DEF Clone
  <2>2. source.snaps \in Seq([name : Names, data : Data])
    BY <1>2, <2>1, RecordsAre
  <2>3. place \in 1..Len(source.snaps)
    BY <2>1, <2>2, NamesAre, PlaceOf
  <2>4. source.snaps[place].data \in Data
    <3>1. source.snaps[place] \in [name : Names, data : Data]
      BY <2>2, <2>3, ElementOfSeq
    <3>2. QED
      BY <3>1
  <2>5. new \in Dataset /\ new # None /\ new.snaps = <<>>
    <3>1. <<>> \in Seq([name : Names, data : Data])
      OBVIOUS
    <3>2. new \in Dataset
      BY <1>2, <2>4, <3>1 DEF Dataset
    <3>3. QED
      BY <3>2, SnapshotsAssumption
  <2>6. /\ datasets' \in [Ids -> {None} \cup Dataset]
        /\ datasets'[i] = new /\ \A j \in Ids \ {i} : datasets'[j] = datasets[j]
    BY <1>1, <2>1, <2>5, OneDataset
  <2>7. Changes(i)
    BY <1>1, <1>3, <2>6 DEF Changes, Same, Filed, Refused, IInv, TypeOK
  <2>8. d \in CallOf /\ d.at = "boot" /\ d.id = i /\ d.name = c.name
    BY DEF CallOf
  <2>9. Fits(d)'
    <3>1. datasets'[i] # None /\ datasets'[i].snaps = <<>>
      BY <2>5, <2>6
    <3> HIDE DEF d, new
    <3>2. QED
      BY <1>2, <1>3, <2>8, <3>1 DEF Fits
  <2>10. calls' = [calls EXCEPT ![t] = d]
    BY <1>1, <2>1, Moved
  <2>11. QED
    BY <1>1, <2>7, <2>8, <2>9, <2>10, GoesOn
<1>6. QED
  BY <1>4, <1>5

LEMMA BootForkKeeps == ASSUME IInv, NEW t \in Tasks, BootFork(t) PROVE IInv'
<1>1. PICK c \in CallOf : /\ calls[t] = c /\ c.at = "boot" /\ c.id \in Ids /\ Fits(c)
                          /\ Works(c.id) = {t} /\ Refused(c.id)
  BY AtWork DEF BootFork
<1> DEFINE i == c.id
           d == [c EXCEPT !.at = "register"]
<1>2. /\ workspaces[i] = None /\ c.name \in Ids \X Names /\ i \notin vms
      /\ datasets[i] # None /\ datasets[i].snaps = <<>>
  BY <1>1 DEF Fits
<1>3. UNCHANGED <<workspaces, state_file, excused>>
  BY DEF BootFork
<1>4. CASE vms' = vms \cup {i} /\ Goes(t, "register") /\ UNCHANGED datasets
  <2>1. Changes(i)
    BY <1>1, <1>3, <1>4 DEF Changes, Same, Filed, Refused, IInv, TypeOK
  <2>2. d \in CallOf /\ d.at = "register" /\ d.id = i /\ d.name = c.name
    BY DEF CallOf
  <2>3. Fits(d)'
    BY <1>2, <1>3, <1>4, <2>2 DEF Fits
  <2>4. calls' = [calls EXCEPT ![t] = d]
    BY <1>1, <1>4, Moved
  <2>5. QED
    BY <1>1, <2>1, <2>2, <2>3, <2>4, GoesOn
<1>5. CASE datasets' = [datasets EXCEPT ![i] = None] /\ Returns(t) /\ UNCHANGED vms
  <2>1. /\ datasets' \in [Ids -> {None} \cup Dataset]
        /\ datasets'[i] = None /\ \A j \in Ids \ {i} : datasets'[j] = datasets[j]
    BY <1>1, <1>5, OneDataset
  <2>2. Changes(i)
    BY <1>1, <1>3, <1>5, <2>1 DEF Changes, Same, Filed, Refused, IInv, TypeOK
  <2>3. Rest(i)'
    BY <1>2, <1>3, <1>5, <2>1 DEF Rest, Gone
  <2>4. QED
    BY <1>1, <1>5, <2>2, <2>3, Ends
<1>6. QED
  BY <1>1, <1>4, <1>5 DEF BootFork

LEMMA RegisterKeeps == ASSUME IInv, NEW t \in Tasks, Register(t) PROVE IInv'
<1>1. PICK c \in CallOf : /\ calls[t] = c /\ c.at = "register" /\ c.id \in Ids /\ Fits(c)
                          /\ Works(c.id) = {t} /\ Refused(c.id)
  BY AtWork DEF Register
<1> DEFINE i == c.id
           new == [state |-> "Running", tree |-> <<>>]
           d == [c EXCEPT !.at = "save"]
<1>2. /\ workspaces[i] = None /\ i \in vms /\ datasets[i] # None /\ datasets[i].snaps = <<>>
  BY <1>1 DEF Fits
<1>3. UNCHANGED <<state_file, excused>>
  BY DEF Register
<1>4. CASE /\ workspaces' = [workspaces EXCEPT ![i] = new]
           /\ Goes(t, "save") /\ UNCHANGED <<datasets, vms>>
  <2>1. new \in Workspace /\ new # None /\ new.state = "Running" /\ new.tree = <<>>
    <3>1. <<>> \in Seq(Snapshot)
      OBVIOUS
    <3>2. new \in Workspace
      BY <3>1 DEF Workspace
    <3>3. QED
      BY <3>2, SnapshotsAssumption
  <2>2. /\ workspaces' \in [Ids -> {None} \cup Workspace]
        /\ workspaces'[i] = new /\ \A j \in Ids \ {i} : workspaces'[j] = workspaces[j]
    BY <1>1, <1>4, <2>1, OneWorkspace
  <2>3. Changes(i)
    BY <1>1, <1>3, <1>4, <2>1, <2>2 DEF Changes, Same, Filed, Refused, IInv, TypeOK
  <2>4. d \in CallOf /\ d.at = "save" /\ d.id = i
    BY DEF CallOf
  <2>5. InStep(i)'
    <3>1. WellFormed(<<>>) /\ Paired(<<>>, <<>>, 0) /\ Len(<<>>) = 0
      BY SnapshotsAssumption DEF WellFormed, Chained, Distinct, Paired
    <3>2. workspaces'[i].tree = <<>> /\ datasets'[i].snaps = <<>>
      BY <1>2, <1>4, <2>1, <2>2
    <3>3. QED
      BY <3>1, <3>2 DEF InStep
  <2>6. Here(i)' /\ Settled(i)'
    BY <1>2, <1>4, <2>1, <2>2 DEF Here, Settled
  <2>7. Fits(d)'
    BY <2>4, <2>5, <2>6 DEF Fits, Here
  <2>8. calls' = [calls EXCEPT ![t] = d]
    BY <1>1, <1>4, Moved
  <2>9. QED
    BY <1>1, <2>3, <2>4, <2>7, <2>8, GoesOn
<1>5. CASE /\ vms' = vms \ {i} /\ datasets' = [datasets EXCEPT ![i] = None]
           /\ Returns(t) /\ UNCHANGED workspaces
  <2>1. /\ datasets' \in [Ids -> {None} \cup Dataset]
        /\ datasets'[i] = None /\ \A j \in Ids \ {i} : datasets'[j] = datasets[j]
    BY <1>1, <1>5, OneDataset
  <2>2. Changes(i)
    BY <1>1, <1>3, <1>5, <2>1 DEF Changes, Same, Filed, Refused, IInv, TypeOK
  <2>3. Rest(i)'
    BY <1>2, <1>5, <2>1 DEF Rest, Gone
  <2>4. QED
    BY <1>1, <1>5, <2>2, <2>3, Ends
<1>6. QED
  BY <1>1, <1>4, <1>5 DEF Register

-----------------------------------------------------------------------------
(* destroy *)

LEMMA DestroyKeeps ==
  ASSUME IInv, OneCallAtATime, NEW t \in Tasks, NEW i \in Ids, Destroy(t, i)
  PROVE  IInv'
<1> DEFINE d == [op |-> "destroy", at |-> "destroyVm", id |-> i, name |-> None,
                 snaps |-> {}, data |-> None]
<1>1. calls[t] = None /\ Works(i) = {}
  BY CallableAtRest DEF Destroy
<1>2. d \in CallOf
  BY DEF CallOf
<1>3. Fits(d)
  BY DEF Fits
<1>4. QED
  BY <1>1, <1>2, <1>3, Begins DEF Destroy, Call

LEMMA DestroyVmKeeps == ASSUME IInv, NEW t \in Tasks, DestroyVm(t) PROVE IInv'
<1>1. PICK c \in CallOf : /\ calls[t] = c /\ c.at = "destroyVm" /\ c.id \in Ids
                          /\ Works(c.id) = {t} /\ Refused(c.id)
  BY AtWork DEF DestroyVm
<1> DEFINE i == c.id
           d == [c EXCEPT !.at = "destroyDataset"]
<1>2. /\ UNCHANGED <<workspaces, state_file, datasets, excused>> /\ Goes(t, "destroyDataset")
      /\ vms' = vms \ {i}
  BY <1>1 DEF DestroyVm
<1>3. Changes(i)
  BY <1>1, <1>2 DEF Changes, Same, Filed, Refused, IInv, TypeOK
<1>4. d \in CallOf /\ d.at = "destroyDataset" /\ d.id = i
  BY DEF CallOf
<1>5. Fits(d)'
  BY <1>2, <1>4 DEF Fits
<1>6. calls' = [calls EXCEPT ![t] = d]
  BY <1>1, <1>2, Moved
<1>7. QED
  BY <1>1, <1>3, <1>4, <1>5, <1>6, GoesOn

LEMMA DestroyDatasetKeeps == ASSUME IInv, NEW t \in Tasks, DestroyDataset(t) PROVE IInv'
<1>0. At(t, "destroyDataset")
  BY DEF DestroyDataset
<1>1. PICK c \in CallOf : /\ calls[t] = c /\ c.at = "destroyDataset" /\ c.id \in Ids /\ Fits(c)
                          /\ Works(c.id) = {t} /\ Refused(c.id)
  BY <1>0, AtWork
<1> DEFINE i == c.id
           d == [c EXCEPT !.at = "forget"]
<1>2. i \notin vms
  BY <1>1 DEF Fits
<1>3. UNCHANGED <<workspaces, state_file, vms>> /\ Goes(t, "forget")
  BY DEF DestroyDataset
<1>4. /\ datasets' \in [Ids -> {None} \cup Dataset]
      /\ \A j \in Ids \ {i} : datasets'[j] = datasets[j]
      /\ excused' \in {excused, excused \cup {<<"orphaned", i>>}}
      /\ datasets'[i] # None => <<"orphaned", i>> \in excused'
  <2>1. CASE datasets' = [datasets EXCEPT ![i] = None] /\ UNCHANGED excused
    BY <1>1, <2>1, OneDataset
  <2>2. CASE excused' = excused \cup {<<"orphaned", i>>} /\ UNCHANGED datasets
    BY <2>2 DEF IInv, TypeOK
  <2>3. QED
    BY <1>1, <2>1, <2>2 DEF DestroyDataset
<1>5. Changes(i)
  <2>1. Refused(i)' /\ \A j \in Ids \ {i} : Same(j)
    BY <1>1, <1>3, <1>4 DEF Same, Filed, Refused
  <2>2. excused' \subseteq {"refused", "orphaned", "unsaved"} \X Ids
    BY <1>1, <1>4 DEF IInv, TypeOK
  <2>3. QED
    BY <1>3, <1>4, <2>1, <2>2 DEF Changes, IInv, TypeOK
<1>6. d \in CallOf /\ d.at = "forget" /\ d.id = i
  BY DEF CallOf
<1>7. Fits(d)'
  BY <1>2, <1>3, <1>4, <1>6 DEF Fits
<1>8. calls' = [calls EXCEPT ![t] = d]
  BY <1>1, <1>3, Moved
<1>9. QED
  BY <1>1, <1>5, <1>6, <1>7, <1>8, GoesOn

LEMMA ForgetKeeps == ASSUME IInv, NEW t \in Tasks, Forget(t) PROVE IInv'
<1>1. PICK c \in CallOf : /\ calls[t] = c /\ c.at = "forget" /\ c.id \in Ids /\ Fits(c)
                          /\ Works(c.id) = {t}
  BY AtWork DEF Forget
<1> DEFINE i == c.id
           d == [c EXCEPT !.at = "save"]
<1>2. i \notin vms /\ (datasets[i] # None => <<"orphaned", i>> \in excused)
  BY <1>1 DEF Fits
<1>3. /\ UNCHANGED <<state_file, datasets, vms, excused>> /\ Goes(t, "save")
      /\ workspaces' = [workspaces EXCEPT ![i] = None]
  BY <1>1 DEF Forget
<1>4. /\ workspaces' \in [Ids -> {None} \cup Workspace]
      /\ workspaces'[i] = None /\ \A j \in Ids \ {i} : workspaces'[j] = workspaces[j]
  BY <1>1, <1>3, OneWorkspace
<1>5. Changes(i)
  BY <1>1, <1>3, <1>4 DEF Changes, Same, Filed, Refused, IInv, TypeOK
<1>6. d \in CallOf /\ d.at = "save" /\ d.id = i
  BY DEF CallOf
<1>7. Gone(i)'
  BY <1>2, <1>3, <1>4 DEF Gone
<1>8. Fits(d)'
  BY <1>4, <1>6, <1>7 DEF Fits
<1>9. calls' = [calls EXCEPT ![t] = d]
  BY <1>1, <1>3, Moved
<1>10. QED
  BY <1>1, <1>5, <1>6, <1>8, <1>9, GoesOn

-----------------------------------------------------------------------------
(* Saving, and the guest *)

LEMMA SaveStateKeeps == ASSUME IInv, NEW t \in Tasks, SaveState(t) PROVE IInv'
<1>0. At(t, "save")
  BY DEF SaveState
<1>1. PICK c \in CallOf : /\ calls[t] = c /\ c.at = "save" /\ c.id \in Ids /\ Fits(c)
                          /\ Works(c.id) = {t} /\ Refused(c.id)
  BY <1>0, AtWork
<1> DEFINE i == c.id
<1>2. IF workspaces[i] = None THEN Gone(i) ELSE Here(i) /\ Settled(i) /\ InStep(i)
  BY <1>1 DEF Fits
<1>3. UNCHANGED <<workspaces, datasets, vms>> /\ Returns(t)
  BY DEF SaveState
<1>4. /\ state_file' \in [Ids -> {None} \cup Workspace]
      /\ excused' \subseteq {"refused", "orphaned", "unsaved"} \X Ids
      /\ \A j \in Ids : /\ Filed(j)'
                        /\ <<"refused", j>> \in excused' <=> <<"refused", j>> \in excused
                        /\ <<"orphaned", j>> \in excused' <=> <<"orphaned", j>> \in excused
  <2>1. CASE state_file' = workspaces /\ excused' = {e \in excused : e[1] # "unsaved"}
    <3>1. \A j \in Ids : Filed(j)'
      BY <1>3, <2>1 DEF Filed
    <3>2. QED
      BY <2>1, <3>1 DEF IInv, TypeOK
  <2>2. CASE UNCHANGED state_file /\ excused' = excused \cup {<<"unsaved", j>> : j \in Unsaved}
    <3>1. \A j \in Ids : Filed(j)'
      BY <1>3, <2>2 DEF Filed, Unsaved
    <3>2. \A j \in Ids : /\ <<"refused", j>> \in excused' <=> <<"refused", j>> \in excused
                         /\ <<"orphaned", j>> \in excused' <=> <<"orphaned", j>> \in excused
      BY <2>2
    <3>3. excused' \subseteq {"refused", "orphaned", "unsaved"} \X Ids
      BY <2>2 DEF Unsaved, IInv, TypeOK
    <3>4. QED
      BY <2>2, <3>1, <3>2, <3>3 DEF IInv, TypeOK
  <2>3. QED
    BY <2>1, <2>2 DEF SaveState
<1>5. Changes(i)
  <2>1. Refused(i)' /\ \A j \in Ids \ {i} : Same(j)
    BY <1>1, <1>3, <1>4 DEF Refused, Same
  <2>2. QED
    BY <1>3, <1>4, <2>1 DEF Changes, IInv, TypeOK
<1>6. Rest(i)'
  BY <1>1, <1>2, <1>3, <1>4 DEF Rest, Gone, AtRest, Here, Settled, InStep
<1>7. QED
  BY <1>1, <1>3, <1>5, <1>6, Ends

\* A guest writes to the disk of a VM that runs, and no restore is then between
\* its rollback and its launch.
LEMMA GuestWritesKeeps ==
  ASSUME IInv, NEW i \in Ids, NEW live \in Data, GuestWrites(i, live)
  PROVE  IInv'
<1> DEFINE new == [datasets[i] EXCEPT !.live = live]
<1>1. /\ i \in vms /\ datasets[i] # None /\ datasets' = [datasets EXCEPT ![i] = new]
      /\ UNCHANGED <<workspaces, state_file, vms, calls, excused>>
  BY DEF GuestWrites, IInv, TypeOK
<1>2. new \in Dataset /\ new # None /\ new.snaps = datasets[i].snaps
  BY <1>1, RecordsAre, WithLive
<1>3. /\ datasets' \in [Ids -> {None} \cup Dataset]
      /\ datasets'[i] = new /\ \A j \in Ids \ {i} : datasets'[j] = datasets[j]
  BY <1>1, <1>2, OneDataset
<1> HIDE DEF new
<1>4. TypeOK' /\ OneEach'
  BY <1>1, <1>3 DEF IInv, TypeOK, OneEach
<1>5. \A j \in Ids \ {i} : Same(j)
  BY <1>1, <1>3 DEF Same, Filed
<1>6. Refused(i)' /\ (Rest(i) => Rest(i)')
  BY <1>1, <1>2, <1>3 DEF IInv, Refused, Rest, Gone, AtRest, Here, Settled, Filed, InStep
<1>7. ASSUME NEW c \in CallOf, Fits(c) PROVE Fits(c)'
  <2>1. CASE c.id # i
    <3>1. c.id \in Ids
      BY DEF CallOf
    <3>2. Same(c.id)
      BY <1>5, <2>1, <3>1
    <3>3. QED
      BY <1>7, <3>2, SameFits
  <2>2. CASE c.id = i
    <3>1. /\ InStep(i)' <=> InStep(i)
          /\ Here(i)' <=> Here(i)
          /\ Gone(i)' <=> Gone(i)
          /\ Settled(i)' <=> Settled(i)
          /\ Filed(i)' <=> Filed(i)
      BY <1>1, <1>2, <1>3 DEF InStep, Here, Gone, Settled, Filed
    <3>2. AtRest(i)' <=> AtRest(i)
      BY <3>1 DEF AtRest
    <3>3. /\ Taken(c)' <=> Taken(c)
          /\ Latest(c)' <=> Latest(c)
          /\ Destroyed(c)' <=> Destroyed(c)
          /\ \A n : Target(c, n)' <=> Target(c, n)
      BY <1>1, <1>2, <1>3, <2>2 DEF Taken, Latest, Destroyed, Target
    <3>4. c.at \notin {"rollback", "prune", "launch", "markStopped", "clone", "boot",
                       "destroyDataset", "forget"}
      BY <1>1, <1>7, <2>2 DEF Fits
    <3>5. QED
      BY <1>1, <1>2, <1>3, <1>7, <2>2, <3>1, <3>2, <3>3, <3>4 DEF Fits
  <2>3. QED
    BY <2>1, <2>2
<1>8. ASSUME NEW j \in Ids PROVE Refused(j)' /\ (Works(j)' = {} => Rest(j)')
  <2>1. Works(j)' = Works(j)
    BY <1>1 DEF Works
  <2>2. Refused(j) /\ (Works(j) = {} => Rest(j))
    BY DEF IInv
  <2>3. j # i => Same(j)
    BY <1>5
  <2>4. QED
    BY <1>6, <2>1, <2>2, <2>3, SameRest
<1>9. QED
  BY <1>1, <1>4, <1>7, <1>8 DEF IInv

-----------------------------------------------------------------------------
(* The theorems *)

LEMMA InitHolds == Init => IInv
<1> SUFFICES ASSUME Init PROVE IInv
  OBVIOUS
<1> DEFINE root == [state |-> "Running", tree |-> <<>>]
<1>1. /\ workspaces = [i \in Ids |-> IF i = Root THEN root ELSE None]
      /\ state_file = workspaces /\ vms = {Root} /\ calls = [t \in Tasks |-> None]
      /\ excused = {}
  BY DEF Init
<1>2. PICK live \in Data : datasets = [i \in Ids |->
        IF i # Root THEN None ELSE [snaps |-> <<>>, live |-> live, origin |-> None]]
  BY DEF Init
<1> DEFINE dataset == [snaps |-> <<>>, live |-> live, origin |-> None]
<1>3. root \in Workspace /\ root # None
  <2>1. <<>> \in Seq(Snapshot)
    OBVIOUS
  <2>2. root \in Workspace
    BY <2>1 DEF Workspace
  <2>3. QED
    BY <2>2, SnapshotsAssumption
<1>4. dataset \in Dataset /\ dataset # None
  <2>1. <<>> \in Seq([name : Names, data : Data])
    OBVIOUS
  <2>2. dataset \in Dataset
    BY <2>1 DEF Dataset
  <2>3. QED
    BY <2>2, SnapshotsAssumption
<1>5. TypeOK
  BY <1>1, <1>2, <1>3, <1>4, SnapshotsAssumption DEF TypeOK
<1>6. OneEach /\ \A t \in Tasks : calls[t] = None
  BY <1>1 DEF OneEach
<1>7. ASSUME NEW i \in Ids PROVE Refused(i) /\ Rest(i)
  <2>1. CASE i = Root
    <3>1. workspaces[i] = root /\ datasets[i] = dataset
      BY <1>1, <1>2, <2>1
    <3>2. WellFormed(<<>>) /\ Paired(<<>>, <<>>, 0) /\ Len(<<>>) = 0
      BY SnapshotsAssumption DEF WellFormed, Chained, Distinct, Paired
    <3>3. InStep(i)
      BY <3>1, <3>2 DEF InStep
    <3>4. Here(i) /\ Settled(i) /\ Filed(i) /\ Refused(i)
      BY <1>1, <1>3, <1>4, <2>1, <3>1 DEF Here, Settled, Filed, Refused
    <3>5. QED
      BY <3>3, <3>4 DEF Rest, AtRest, Here
  <2>2. CASE i # Root
    BY <1>1, <1>2, <2>2 DEF Refused, Rest, Gone
  <2>3. QED
    BY <2>1, <2>2
<1>8. QED
  BY <1>5, <1>6, <1>7, SnapshotsAssumption DEF IInv

LEMMA StepKeeps == ASSUME IInv, NEW t \in Tasks, Step(t) PROVE IInv'
<1>1. CASE Sync(t) \/ ZfsSnapshot(t) \/ FindParent(t) \/ AddToTree(t)
  BY <1>1, SyncKeeps, ZfsSnapshotKeeps, FindParentKeeps, AddToTreeKeeps
<1>2. CASE StopForRestore(t) \/ Rollback(t) \/ Prune(t)
  BY <1>2, StopForRestoreKeeps, RollbackKeeps, PruneKeeps
<1>3. CASE ListClones(t) \/ ZfsDestroy(t) \/ RemoveFromTree(t)
  BY <1>3, ListClonesKeeps, ZfsDestroyKeeps, RemoveFromTreeKeeps
<1>4. CASE Launch(t) \/ MarkRunning(t) \/ StopVm(t) \/ MarkStopped(t)
  BY <1>4, LaunchKeeps, MarkRunningKeeps, StopVmKeeps, MarkStoppedKeeps
<1>5. CASE Clone(t) \/ BootFork(t) \/ Register(t)
  BY <1>5, CloneKeeps, BootForkKeeps, RegisterKeeps
<1>6. CASE DestroyVm(t) \/ DestroyDataset(t) \/ Forget(t) \/ SaveState(t)
  BY <1>6, DestroyVmKeeps, DestroyDatasetKeeps, ForgetKeeps, SaveStateKeeps
<1>7. QED
  BY <1>1, <1>2, <1>3, <1>4, <1>5, <1>6 DEF Step

LEMMA NextKeeps == ASSUME OneCallAtATime, IInv, [Next]_vars PROVE IInv'
<1>1. CASE UNCHANGED vars
  <2>1. UNCHANGED <<workspaces, state_file, datasets, vms, calls, excused>>
    BY <1>1 DEF vars
  <2>2. \A i \in Ids : Same(i) /\ Works(i)' = Works(i)
    BY <2>1, NothingChanges DEF Works
  <2>3. TypeOK' /\ OneEach'
    BY <2>1 DEF IInv, TypeOK, OneEach
  <2>4. \A i \in Ids : Refused(i)' /\ (Works(i)' = {} => Rest(i)')
    BY <2>2, SameRest DEF IInv
  <2>5. ASSUME NEW t \in Tasks, NEW c \in CallOf, calls'[t] = c PROVE Fits(c)'
    <3>1. c.id \in Ids /\ Fits(c)
      BY <2>1, <2>5 DEF IInv, CallOf
    <3>2. QED
      BY <2>2, <3>1, SameFits
  <2>6. QED
    BY <2>3, <2>4, <2>5 DEF IInv
<1>2. ASSUME NEW t \in Tasks, Step(t) PROVE IInv'
  BY <1>2, StepKeeps
<1>3. ASSUME NEW t \in Tasks, NEW i \in Ids, Start(t, i) \/ Stop(t, i) \/ Destroy(t, i)
      PROVE  IInv'
  BY <1>3, StartKeeps, StopKeeps, DestroyKeeps
<1>4. ASSUME NEW t \in Tasks, NEW i \in Ids, NEW name \in Names,
             \/ SnapshotCreate(t, i, name) \/ SnapshotRestore(t, i, name)
             \/ SnapshotDelete(t, i, name)
      PROVE  IInv'
  BY <1>4, SnapshotCreateKeeps, SnapshotRestoreKeeps, SnapshotDeleteKeeps
<1>5. ASSUME NEW t \in Tasks, NEW i \in Ids, NEW name \in Names, NEW new \in Ids,
             Fork(t, i, name, new)
      PROVE  IInv'
  BY <1>5, ForkKeeps
<1>6. ASSUME NEW i \in Ids, NEW live \in Data, GuestWrites(i, live) PROVE IInv'
  BY <1>6, GuestWritesKeeps
<1>7. QED
  BY <1>1, <1>2, <1>3, <1>4, <1>5, <1>6 DEF Next

\* In every state the workspaces at rest are in order, and those that are
\* worked on are as far out of step as their call has come: what snapshot_*,
\* start, stop, fork and destroy rely on when they go on.
THEOREM SnapshotsInvariant ==
  ASSUME OneCallAtATime
  PROVE  Spec => []IInv
<1>1. Init => IInv
  BY InitHolds
<1>2. IInv /\ [Next]_vars => IInv'
  BY NextKeeps
<1>3. QED
  BY <1>1, <1>2, PTL DEF Spec

LEMMA InvMatches == IInv => TreeMatchesZfs
<1> SUFFICES ASSUME IInv, NEW i \in Ids, Quiet(i)
             PROVE  LET tree == workspaces[i].tree  snaps == datasets[i].snaps
                    IN /\ Len(tree) = Len(snaps) /\ Len(tree) <= MaxSnapshots
                       /\ \A k \in DOMAIN tree :
                            /\ tree[k].name = snaps[k].name /\ tree[k].data = snaps[k].data
                            /\ tree[k].parent = IF k = 1 THEN {} ELSE {tree[k-1].name}
                       /\ <<"unsaved", i>> \notin excused => state_file[i] = workspaces[i]
  BY DEF TreeMatchesZfs
<1> DEFINE tree == workspaces[i].tree
<1>1. AtRest(i) /\ workspaces[i] # None
  BY DEF Quiet, Registered, IInv, Rest
<1>2. tree \in Seq(Snapshot)
  BY <1>1, RecordsAre
<1>3. DOMAIN tree = 1..Len(tree)
  BY <1>2
<1> HIDE DEF tree
<1>4. QED
  BY <1>1, <1>3 DEF tree, AtRest, Filed, InStep, WellFormed, Chained, Paired

LEMMA InvForgetsNothing == IInv => NothingForgotten
<1> SUFFICES ASSUME IInv PROVE NothingForgotten
  OBVIOUS
<1>1. ASSUME NEW i \in Ids, Quiet(i)
      PROVE  /\ datasets[i] # None
             /\ <<"refused", i>> \notin excused => (workspaces[i].state = "Running" <=> i \in vms)
  BY <1>1 DEF Quiet, Registered, IInv, Rest, AtRest, Here, Settled
<1>2. ASSUME NEW i \in Ids \ Registered, Works(i) = {}
      PROVE  i \notin vms /\ (datasets[i] # None => <<"orphaned", i>> \in excused)
  BY <1>2 DEF Registered, IInv, Rest, Gone
<1>3. QED
  BY <1>1, <1>2 DEF NothingForgotten

LEMMA InvGivesBack ==
  IInv => \A t \in Tasks :
    LET c == calls[t]
    IN /\ At(t, "rollback") => c.id \notin vms
       /\ At(t, "launch") /\ c.op = "restore" => datasets[c.id].live = c.data
<1> SUFFICES ASSUME IInv, NEW t \in Tasks
             PROVE  LET c == calls[t]
                    IN /\ At(t, "rollback") => c.id \notin vms
                       /\ At(t, "launch") /\ c.op = "restore" => datasets[c.id].live = c.data
  OBVIOUS
<1>1. ASSUME At(t, "rollback") PROVE calls[t].id \notin vms
  <2>1. PICK c \in CallOf : calls[t] = c /\ c.at = "rollback" /\ Fits(c)
    BY <1>1, AtWork
  <2>2. QED
    BY <2>1 DEF Fits
<1>2. ASSUME At(t, "launch"), calls[t].op = "restore"
      PROVE  datasets[calls[t].id].live = calls[t].data
  <2>1. PICK c \in CallOf : calls[t] = c /\ c.at = "launch" /\ Fits(c)
    BY <1>2, AtWork
  <2>2. QED
    BY <1>2, <2>1 DEF Fits
<1>3. QED
  BY <1>1, <1>2

\* snapshot_create, snapshot_restore and snapshot_delete, each in steps that can
\* fail, leave the tree of a workspace the list of its dataset's snapshots.
THEOREM TreeTheorem ==
  ASSUME OneCallAtATime
  PROVE  Spec => []TreeMatchesZfs
<1>1. Spec => []IInv
  BY SnapshotsInvariant
<1>2. IInv => TreeMatchesZfs
  BY InvMatches
<1>3. QED
  BY <1>1, <1>2, PTL

\* start, stop, fork, restore and destroy leave no VM and no dataset without a
\* workspace, and no workspace that is wrong about its VM, but for the refusals
\* of ZFS.
THEOREM ForgetsNothing ==
  ASSUME OneCallAtATime
  PROVE  Spec => []NothingForgotten
<1>1. Spec => []IInv
  BY SnapshotsInvariant
<1>2. IInv => NothingForgotten
  BY InvForgetsNothing
<1>3. QED
  BY <1>1, <1>2, PTL

\* snapshot_restore rolls no disk back under a VM that runs, and boots the VM on
\* the contents the snapshot was made of.
THEOREM RestoreTheorem ==
  ASSUME OneCallAtATime
  PROVE  Spec => RestoreGivesBack
<1> DEFINE Gives == \A t \in Tasks :
             LET c == calls[t]
             IN /\ At(t, "rollback") /\ At(t, "prune")' => c.id \notin vms
                /\ At(t, "launch") /\ At(t, "markRunning")' /\ c.op = "restore" =>
                     datasets[c.id].live = c.data
<1>1. Spec => []IInv
  BY SnapshotsInvariant
<1>2. IInv => [Gives]_vars
  BY InvGivesBack
<1>3. Spec => [][Gives]_vars
  BY <1>1, <1>2, PTL
<1>4. QED
  BY <1>3 DEF RestoreGivesBack
=============================================================================
