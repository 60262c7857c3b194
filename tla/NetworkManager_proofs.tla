----------------------- MODULE NetworkManager_proofs -----------------------
(***************************************************************************)
(* Proofs about IpAllocator and NetworkManager, for any subnet size and    *)
(* gateway, any workspaces, callers, policies, ports and faults.  First    *)
(* the allocator alone: its inductive invariant, and that it implements    *)
(* IpPool; then that the same holds of it as its callers use it.           *)
(* Termination of a scan is left to the model checker.                     *)
(***************************************************************************)
EXTENDS NetworkManager, TLAPS

(* The allocator *)

\* An iteration looks at an address a guest may have (or the gateway) and moves
\* on to the next one, back to the first after the last: the wrap-around of
\* the u16 arithmetic in allocate().
LEMMA ScanArithmetic ==
  ASSUME TypeOK
  PROVE  /\ Probed \in 2..MaxOffset
         /\ Following \in 3..Last
         /\ Succ(Probed) = Probed + 1 /\ Following = Probed + 1
         /\ offset # Last => Probed = offset
         /\ offset = Last => Probed = 2
BY LastAssumption DEF TypeOK, Probed, Following, Succ, MaxOffset

\* A fresh allocator: nothing but the reserved addresses is taken.
LEMMA InitEstablishesInv == Init => Inv
<1> SUFFICES ASSUME Init PROVE Inv
  OBVIOUS
<1>1. TypeOK
  <2>1. allocated \subseteq {0, Gateway} \cup Usable
    BY DEF Init
  <2>2. 2 \in 2..Last
    BY LastAssumption
  <2>3. scanning \in BOOLEAN /\ reply \in 2..MaxOffset \cup {NoReply, Exhausted}
    BY DEF Init
  <2> QED BY <2>1, <2>2, <2>3 DEF Init, TypeOK
<1>2. ReservedHeld
  BY DEF Init, ReservedHeld
<1>3. StartsAtAFreeTwo
  BY LastAssumption, GatewayAssumption DEF Init, StartsAtAFreeTwo, MaxOffset
<1>4. PassedAreTaken
  BY DEF Init, PassedAreTaken
<1> QED BY <1>1, <1>2, <1>3, <1>4 DEF Inv

\* TakeFree: the address found goes to the caller.
LEMMA TakeFreeKeepsInv == Inv /\ TakeFree => Inv'
<1> SUFFICES ASSUME Inv, TakeFree PROVE Inv'
  OBVIOUS
<1> USE LastAssumption, GatewayAssumption
<1>1. /\ Probed \in 2..MaxOffset
      /\ Succ(Probed) = Probed + 1
  BY ScanArithmetic DEF Inv
<1>2. Probed # Gateway
  BY DEF Inv, ReservedHeld, TakeFree
<1>3. TypeOK'
  <2>1. allocated' \subseteq {0, Gateway} \cup Usable
    BY <1>1, <1>2 DEF Inv, TypeOK, TakeFree, Usable
  <2>2. next_candidate' \in 2..Last /\ reply' \in 2..MaxOffset
    BY <1>1 DEF TakeFree, MaxOffset
  <2>3. scanning' \in BOOLEAN
    BY DEF TakeFree
  <2> QED BY <2>1, <2>2, <2>3 DEF Inv, TypeOK, TakeFree, Usable, MaxOffset
<1>4. ReservedHeld'
  BY DEF Inv, ReservedHeld, TakeFree
<1>5. StartsAtAFreeTwo'
  BY <1>1 DEF StartsAtAFreeTwo, TakeFree, MaxOffset
<1>6. PassedAreTaken'
  BY DEF PassedAreTaken, TakeFree
<1> QED BY <1>3, <1>4, <1>5, <1>6 DEF Inv

\* MoveOn: the address looked at joins those known to be taken.
LEMMA MoveOnKeepsInv == Inv /\ MoveOn => Inv'
<1> SUFFICES ASSUME Inv, MoveOn PROVE Inv'
  OBVIOUS
<1> USE LastAssumption, GatewayAssumption
<1>1. /\ Probed \in 2..MaxOffset
      /\ Following = Probed + 1
      /\ offset # Last => Probed = offset
      /\ offset = Last => Probed = 2
  BY ScanArithmetic DEF Inv
<1>2. /\ start = next_candidate /\ start' = next_candidate'
      /\ start \in 2..Last /\ offset \in 2..Last
      /\ offset' = Probed + 1 /\ start' = start /\ offset' # start
      /\ allocated' = allocated /\ Probed \in allocated
  BY <1>1 DEF Inv, TypeOK, PassedAreTaken, MoveOn
<1>3. TypeOK'
  BY <1>1, <1>2 DEF Inv, TypeOK, MoveOn, Usable, MaxOffset
<1>4. ReservedHeld' /\ StartsAtAFreeTwo'
  BY <1>2 DEF Inv, ReservedHeld, StartsAtAFreeTwo, MoveOn, MaxOffset
<1>5. PassedAreTaken'
  <2>1. /\ offset > start => start..(offset - 1) \subseteq allocated
        /\ offset < start => (start..MaxOffset) \cup (2..(offset - 1)) \subseteq allocated
    BY DEF Inv, PassedAreTaken, MoveOn
  <2>2. offset' > start => start..(offset' - 1) \subseteq allocated
    BY <1>1, <1>2, <2>1 DEF MaxOffset
  <2>3. offset' < start => (start..MaxOffset) \cup (2..(offset' - 1)) \subseteq allocated
    BY <1>1, <1>2, <2>1 DEF MaxOffset
  <2> QED BY <1>2, <2>2, <2>3 DEF PassedAreTaken, MaxOffset
<1> QED BY <1>3, <1>4, <1>5 DEF Inv

\* GiveUp changes no lease.
LEMMA GiveUpKeepsInv == Inv /\ GiveUp => Inv'
<1> SUFFICES ASSUME Inv, GiveUp PROVE Inv'
  OBVIOUS
<1>1. TypeOK'
  <2>1. start' \in 2..Last /\ offset' \in 2..Last
    BY LastAssumption DEF GiveUp
  <2> QED BY <2>1 DEF Inv, TypeOK, GiveUp, Usable, MaxOffset
<1>2. ReservedHeld' /\ StartsAtAFreeTwo'
  BY DEF Inv, ReservedHeld, StartsAtAFreeTwo, GiveUp, MaxOffset
<1>3. PassedAreTaken'
  BY DEF PassedAreTaken, GiveUp
<1> QED BY <1>1, <1>2, <1>3 DEF Inv

\* Release: an address below next_candidate becomes the next candidate, so a
\* scan starts at 2 only when 2 is free.
LEMMA ReleaseKeepsInv == \A o \in 0..Last : Inv /\ Release(o) => Inv'
<1> SUFFICES ASSUME NEW o \in 0..Last, Inv, Release(o) PROVE Inv'
  OBVIOUS
<1> USE LastAssumption, GatewayAssumption
<1>1. o \in Usable /\ o \in 2..MaxOffset
  BY DEF Inv, TypeOK, Release, Releasable, Usable
<1>2. TypeOK'
  BY <1>1 DEF Inv, TypeOK, Release, Usable, MaxOffset
<1>3. ReservedHeld'
  BY DEF Inv, ReservedHeld, Release, Releasable
<1>4. StartsAtAFreeTwo'
  BY <1>1 DEF Inv, StartsAtAFreeTwo, Release, MaxOffset
<1>5. PassedAreTaken'
  BY DEF PassedAreTaken, Release
<1> QED BY <1>2, <1>3, <1>4, <1>5 DEF Inv

\* MarkAllocated: restoring 2 moves a candidate of 2 on.
LEMMA MarkAllocatedKeepsInv == \A o \in 2..MaxOffset : Inv /\ MarkAllocated(o) => Inv'
<1> SUFFICES ASSUME NEW o \in 2..MaxOffset, Inv, MarkAllocated(o) PROVE Inv'
  OBVIOUS
<1> USE LastAssumption, GatewayAssumption
<1>1. Succ(o) = o + 1
  BY DEF Succ, MaxOffset
<1>2. TypeOK'
  BY <1>1 DEF Inv, TypeOK, MarkAllocated, Usable, MaxOffset
<1>3. ReservedHeld'
  BY DEF Inv, ReservedHeld, MarkAllocated
<1>4. StartsAtAFreeTwo'
  BY <1>1 DEF Inv, TypeOK, StartsAtAFreeTwo, MarkAllocated, MaxOffset
<1>5. PassedAreTaken'
  BY DEF PassedAreTaken, MarkAllocated
<1> QED BY <1>2, <1>3, <1>4, <1>5 DEF Inv

\* Inv is inductive: one lemma per action.
LEMMA StepKeepsInv == Inv /\ [Next]_vars => Inv'
<1> SUFFICES ASSUME Inv, [Next]_vars PROVE Inv'
  OBVIOUS
<1>1. CASE Allocate
  <2>1. TypeOK'
    BY <1>1 DEF Inv, TypeOK, Allocate, Usable, MaxOffset
  <2>2. ReservedHeld' /\ StartsAtAFreeTwo'
    BY <1>1 DEF Inv, ReservedHeld, StartsAtAFreeTwo, Allocate, MaxOffset
  <2>3. PassedAreTaken'
    BY <1>1, LastAssumption DEF Inv, TypeOK, PassedAreTaken, Allocate
  <2> QED BY <2>1, <2>2, <2>3 DEF Inv
<1>2. CASE Scan
  BY <1>2, TakeFreeKeepsInv, MoveOnKeepsInv, GiveUpKeepsInv DEF Scan
<1>3. CASE \E o \in 0..Last : Release(o)
  BY <1>3, ReleaseKeepsInv
<1>4. CASE \E o \in 2..MaxOffset : MarkAllocated(o)
  BY <1>4, MarkAllocatedKeepsInv
<1>5. CASE UNCHANGED vars
  BY <1>5 DEF vars, Inv, TypeOK, ReservedHeld, StartsAtAFreeTwo, PassedAreTaken, Usable, MaxOffset
<1> QED BY <1>1, <1>2, <1>3, <1>4, <1>5 DEF Next

\* Every reachable state of the allocator satisfies Inv: the reserved addresses
\* are never leased, and a scan skips no free address.
THEOREM AllocatorInvariant == Spec => []Inv
BY InitEstablishesInv, StepKeepsInv, PTL DEF Spec

-----------------------------------------------------------------------------
(* The allocator implements IpPool *)

\* The addresses a guest holds.
Leased == allocated \ {0, Gateway}

\* The answer "exhausted" is true: when the scan is back at its start, every
\* usable address is leased.
LEMMA RefusesOnlyWhenFull == Inv /\ GiveUp => Leased = Usable
<1> SUFFICES ASSUME Inv, GiveUp PROVE Leased = Usable
  OBVIOUS
<1> USE LastAssumption, GatewayAssumption
<1>1. /\ Probed \in 2..MaxOffset /\ Probed \in allocated
      /\ start = Probed + 1
      /\ offset # Last => Probed = offset
      /\ offset = Last => Probed = 2
      /\ start \in 2..Last /\ offset \in 2..Last
  BY ScanArithmetic DEF Inv, TypeOK, GiveUp
<1>2. 2..MaxOffset \subseteq allocated
  BY <1>1 DEF Inv, PassedAreTaken, GiveUp, MaxOffset
<1>3. Usable \subseteq Leased
  BY <1>2 DEF Leased, Usable, MaxOffset
<1>4. Leased \subseteq Usable
  BY DEF Inv, TypeOK, Leased
<1> QED BY <1>3, <1>4

\* A step of the allocator is a step of the pool or changes nothing it sees.
LEMMA StepRefines == Inv /\ [Next]_vars => [Pool!Next]_(Pool!vars)
<1> SUFFICES ASSUME Inv, [Next]_vars PROVE [Pool!Next]_(Pool!vars)
  OBVIOUS
<1> USE LastAssumption, GatewayAssumption
<1>1. CASE Allocate \/ MoveOn \/ UNCHANGED vars
  BY <1>1 DEF Allocate, MoveOn, vars, Pool!vars
<1>2. CASE TakeFree
  <2>1. Probed \in Usable
    BY <1>2, ScanArithmetic DEF Inv, ReservedHeld, TakeFree, Usable
  <2>2. Probed \notin {0, Gateway}
    BY <1>2 DEF Inv, ReservedHeld, TakeFree
  <2>3. Pool!Lease(Probed)
    BY <1>2, <2>2 DEF TakeFree, Pool!Lease
  <2> QED BY <2>1, <2>3 DEF Pool!Next
<1>3. CASE GiveUp
  <2>1. Pool!Refuse
    BY <1>3, RefusesOnlyWhenFull DEF GiveUp, Leased, Pool!Refuse
  <2> QED BY <2>1 DEF Pool!Next
<1>4. CASE \E o \in 0..Last : Release(o)
  <2> PICK o \in 0..Last : Release(o)
    BY <1>4
  <2>1. o \in Usable
    BY DEF Inv, TypeOK, Release, Releasable, Usable
  <2>2. Pool!Release(o)
    BY DEF Release, Pool!Release
  <2> QED BY <2>1, <2>2 DEF Pool!Next
<1>5. CASE \E o \in 2..MaxOffset : MarkAllocated(o)
  <2> PICK o \in 2..MaxOffset : MarkAllocated(o)
    BY <1>5
  <2>1. CASE o = Gateway
    BY <2>1 DEF Inv, ReservedHeld, MarkAllocated, Pool!vars
  <2>2. CASE o # Gateway
    <3>1. o \in Usable
      BY <2>2 DEF Usable
    <3>2. Pool!Restore(o)
      BY <2>2 DEF MarkAllocated, Pool!Restore, MaxOffset
    <3> QED BY <3>1, <3>2 DEF Pool!Next
  <2> QED BY <2>1, <2>2
<1> QED BY <1>1, <1>2, <1>3, <1>4, <1>5 DEF Next, Scan

\* No address is leased twice, and a request is refused only when all are
\* leased: the allocator implements IpPool.
THEOREM AllocatorImplementsPool == Spec => PoolSpec
<1>1. Init => Pool!Init
  BY DEF Init, Pool!Init
<1> QED BY <1>1, StepRefines, AllocatorInvariant, PTL DEF Spec, PoolSpec, Pool!Spec

-----------------------------------------------------------------------------
(* The allocator with its callers *)

\* While addresses are restored nobody calls, and they are addresses that an
\* allocator handed out: load_state runs before the server listens.
Restoring ==
  /\ loading # {} => \A t \in Tasks : calls[t] = None
  /\ \A i \in loading : i \in Ids /\ entries[i] # None /\ entries[i].ip \in Usable

\* What the file holds is in order.
LEMMA InitRestoring == NetInit => Restoring
<1> SUFFICES ASSUME NetInit PROVE Restoring
  OBVIOUS
<1>1. PICK saved \in SUBSET Ids : \E ip \in [saved -> Usable], policy \in [saved -> Policies] :
        /\ \A i, j \in saved : ip[i] = ip[j] => i = j
        /\ entries = [i \in Ids |-> IF i \in saved THEN Entry(ip[i], FALSE, policy[i], {}) ELSE None]
        /\ loading = saved
        /\ taps \in SUBSET saved
  BY Zenon DEF NetInit
<1>2. PICK ip \in [saved -> Usable], policy \in [saved -> Policies] :
        /\ \A i, j \in saved : ip[i] = ip[j] => i = j
        /\ entries = [i \in Ids |-> IF i \in saved THEN Entry(ip[i], FALSE, policy[i], {}) ELSE None]
        /\ loading = saved
        /\ taps \in SUBSET saved
  BY <1>1, Zenon
<1>3. ASSUME NEW i \in loading
      PROVE  i \in Ids /\ entries[i] # None /\ entries[i].ip \in Usable
  <2>1. /\ entries[i] = Entry(ip[i], FALSE, policy[i], {}) /\ i \in Ids
        /\ ip[i] \in Usable /\ policy[i] \in Policies
    BY <1>2, <1>3
  <2>2. \A a \in Usable, p \in Policies : Entry(a, FALSE, p, {}) \in EntryRecords
    BY DEF Entry, EntryRecords
  <2> QED BY <2>1, <2>2, NetworkAssumption DEF Entry
<1>4. \A t \in Tasks : calls[t] = None
  BY DEF NetInit
<1> QED BY <1>3, <1>4 DEF Restoring

\* A task only works once loading is over, and then it stays over.
LEMMA StepsAfterLoading ==
  ASSUME Restoring, NEW t \in Tasks, calls[t] # None, loading' = loading
  PROVE  Restoring'
BY DEF Restoring

\* Every step keeps it: addresses are restored before anybody calls.
LEMMA RestoringStep == Restoring /\ [NetNext]_allVars => Restoring'
<1> SUFFICES ASSUME Restoring, [NetNext]_allVars PROVE Restoring'
  OBVIOUS
<1>1. CASE UNCHANGED netVars
  BY <1>1 DEF netVars, Restoring
<1>2. ASSUME NEW i \in Ids, RestoreIp(i) PROVE Restoring'
  BY <1>2 DEF RestoreIp, Restoring
<1>3. ASSUME NEW t \in Tasks, Step(t) PROVE Restoring'
  <2>1. calls[t] # None /\ loading' = loading
    BY <1>3 DEF Step, At, SetupAddress, SetupTap, SetupRules, Boot, SweepForward,
       SweepPostrouting, SweepPrerouting, Apply, StopVm, Cleanup, TakeDown, Forget,
       BeginReading, EnsureTap, ForwardPort, UnforwardPort, Record
  <2> QED BY <2>1, StepsAfterLoading
<1>4. ASSUME NEW t \in Tasks, NEW i \in Ids, NEW x,
             Stop(t, i) \/ Start(t, i) \/ Destroy(t, i) \/ Setup(t, i, x)
             \/ UpdatePolicy(t, i, x) \/ AddForward(t, i, x) \/ RemoveForward(t, i, x)
      PROVE  Restoring'
  <2>1. loading = {} /\ loading' = loading
    BY <1>4 DEF Callable, Stop, Start, Destroy, Setup, UpdatePolicy, AddForward, RemoveForward
  <2> QED BY <2>1 DEF Restoring
<1> QED BY <1>1, <1>2, <1>3, <1>4 DEF NetNext, allVars

\* To the allocator every step of its callers is one of the operations that
\* IpAllocator has, or none: the preconditions of those hold at every call.
LEMMA CallersUseAllocator == Inv /\ Restoring /\ [NetNext]_allVars => [Next]_vars
<1> SUFFICES ASSUME Inv, Restoring, [NetNext]_allVars PROVE [Next]_vars
  OBVIOUS
<1>1. CASE UNCHANGED allVars
  BY <1>1 DEF allVars
<1>2. CASE Scan /\ UNCHANGED netVars
  BY <1>2 DEF Next
<1>3. ASSUME NEW i \in Ids, RestoreIp(i) PROVE [Next]_vars
  <2>1. entries[i].ip \in 2..MaxOffset /\ MarkAllocated(entries[i].ip)
    BY <1>3 DEF RestoreIp, Restoring, Usable
  <2> QED BY <2>1 DEF Next
<1>4. ASSUME NEW o, Release(o) PROVE [Next]_vars
  <2>1. o \in 0..Last
    BY <1>4, LastAssumption, GatewayAssumption DEF Inv, TypeOK, Release, Usable, MaxOffset
  <2> QED BY <1>4, <2>1 DEF Next
<1>5. ASSUME NEW t \in Tasks, Step(t) PROVE [Next]_vars
  <2>1. UNCHANGED vars \/ Release(calls[t].ip)
    BY <1>5 DEF Step, SetupAddress, SetupTap, SetupRules, Boot, SweepForward,
       SweepPostrouting, SweepPrerouting, Apply, StopVm, Cleanup, TakeDown, Forget,
       BeginReading, EnsureTap, ForwardPort, UnforwardPort, Record
  <2> QED BY <2>1, <1>4
<1>6. ASSUME NEW t \in Tasks, NEW i \in Ids, NEW x,
             Stop(t, i) \/ Start(t, i) \/ Destroy(t, i) \/ Setup(t, i, x)
             \/ UpdatePolicy(t, i, x) \/ AddForward(t, i, x) \/ RemoveForward(t, i, x)
      PROVE  [Next]_vars
  <2>1. UNCHANGED vars \/ Allocate
    BY <1>6 DEF Stop, Start, Destroy, Setup, UpdatePolicy, AddForward, RemoveForward
  <2> QED BY <2>1 DEF Next
<1> QED BY <1>1, <1>2, <1>3, <1>5, <1>6 DEF NetNext

\* The invariant of the allocator, under its callers.
THEOREM NetworkInvariant == NetSpec => []Inv
<1>1. NetInit => Inv
  BY InitEstablishesInv DEF NetInit
<1>2. Inv /\ Restoring /\ [NetNext]_allVars => Inv'
  BY CallersUseAllocator, StepKeepsInv
<1> QED BY <1>1, <1>2, InitRestoring, RestoringStep, PTL DEF NetSpec

\* No address is leased to two, and a create is refused one only when none is
\* left, however creates, destroys, failures and restored addresses interleave.
THEOREM NetworkImplementsPool == NetSpec => PoolSpec
<1>1. NetInit => Pool!Init
  BY DEF NetInit, Init, Pool!Init
<1>2. Inv /\ Restoring /\ [NetNext]_allVars => [Pool!Next]_(Pool!vars)
  BY CallersUseAllocator, StepRefines
<1>3. NetSpec => []Restoring
  BY InitRestoring, RestoringStep, PTL DEF NetSpec
<1> QED BY <1>1, <1>2, <1>3, NetworkInvariant, PTL DEF NetSpec, PoolSpec, Pool!Spec
-----------------------------------------------------------------------------
(* The invariant behind NothingLeft and PolicyHolds.  All of it but the       *)
(* addresses and the scan is about one workspace i: its entry e, the call c   *)
(* that works on it (or None), the rules R that carry its name.               *)

\* The call at work on a workspace; there is one at a time.
CallOn(i) ==
  IF \E t \in Tasks : calls[t] # None /\ calls[t].id = i
  THEN calls[CHOOSE t \in Tasks : calls[t] # None /\ calls[t].id = i] ELSE None
OneCallEach ==
  \A t, u \in Tasks : calls[t] # None /\ calls[u] # None /\ calls[t].id = calls[u].id => t = u

NetTypeOK ==
  /\ entries \in [Ids -> EntryRecords \cup {None}]
  /\ calls \in [Tasks -> CallRecords \cup {None}]
  /\ lock \in [writer : Tasks \cup {None}, readers : SUBSET Tasks]
  /\ taps \subseteq Ids /\ \A r \in rules : r.owner \in Ids

\* Where the operations can stand.
WellFormed(c) ==
  \/ /\ c.op = "create" /\ c.arg \in Policies
     /\ c.at \in {"scan", "tap", "applyNew", "boot", "cleanup", "sweepForward",
                  "sweepPostrouting", "sweepPrerouting", "takeDown"}
     /\ c.at # "scan" => c.ip \in Usable
  \/ /\ c.op = "destroy"
     /\ c.at \in {"stopVm", "cleanup", "sweepForward", "sweepPostrouting", "sweepPrerouting",
                  "takeDown", "forget"}
  \/ /\ c.op \in {"start", "update"} /\ c.arg \in Policies
     /\ c.at \in {"readLock", "ensureTap", "sweepForward", "sweepPostrouting",
                  "sweepPrerouting", "apply", "record"}
  \/ c.op = "add" /\ c.arg \in Ports \X Ports /\ c.at \in {"readLock", "forward", "record"}
  \/ c.op = "remove" /\ c.arg \in Ports /\ c.at \in {"readLock", "unforward", "record"}

\* A call has a workspace, unless it makes one, and knows its address.
CallFits(i, e, c) ==
  c # None =>
    /\ c.id = i /\ WellFormed(c)
    /\ c.op = "create" <=> e = None
    /\ c.op # "create" => c.ip = e.ip
    /\ c.op = "start" => ~e.up /\ c.arg = e.policy
    /\ c.op = "destroy" /\ c.at # "stopVm" => ~e.up

\* When there may be a device.
TapFits(e, c) == IF c = None THEN e # None ELSE c.at \notin {"scan", "tap", "forget"}

\* The rules that are not there yet or any more.
Gone(c, r) ==
  \/ c.at \in {"scan", "tap", "applyNew", "takeDown", "apply", "forget"}
  \/ c.at = "sweepPostrouting" /\ ChainOf(r) = "forward"
  \/ c.at = "sweepPrerouting" /\ ChainOf(r) \in {"forward", "postrouting"}
RulesFit(e, c, R) ==
  \A r \in R : IF c = None THEN e # None /\ r.ip = e.ip ELSE r.ip = c.ip /\ ~Gone(c, r)

Forwarding(r) == r.kind \in {"dnat", "fwd"}
ForwardsFit(e, c, R) ==
  \A r \in R : Forwarding(r) =>
    /\ e # None
    /\ \/ r.port \in e.forwards
       \/ c # None /\ c.op = "add" /\ c.at = "record" /\ r.port = c.arg
    /\ c # None /\ c.op = "remove" /\ c.at = "record" => r.port[2] # c.arg

\* The rules of a policy are there as a whole, and those of no other.  Between
\* the rules and the record it is the policy of the call.
PolicyFits(i, e, c, R, ruled) ==
  LET P == {r \in R : ~Forwarding(r)}
  IN IF c # None /\ (c.at = "boot" \/ (c.at = "record" /\ c.op \in {"start", "update"}))
     THEN P = RulesOf(i, c.ip, c.arg)
     ELSE /\ c # None /\ c.at \in {"sweepPostrouting", "sweepPrerouting", "apply", "takeDown"}
               => ~ruled
          /\ e # None /\ e.up /\ ruled => P = RulesOf(i, e.ip, e.policy)

Fits(i, e, c, R, tap, ruled) ==
  /\ CallFits(i, e, c)
  /\ tap => TapFits(e, c)
  /\ RulesFit(e, c, R) /\ ForwardsFit(e, c, R) /\ PolicyFits(i, e, c, R, ruled)

OwnRules(i) == {r \in rules : r.owner = i}
AllFit ==
  \A i \in Ids : Fits(i, entries[i], CallOn(i), OwnRules(i), i \in taps, i \notin unruled)

\* A scan is that of the one create that has the write lock.
OneScan ==
  /\ scanning => \E t \in Tasks : At(t, "scan")
  /\ \A t \in Tasks : At(t, "scan") =>
       lock.writer = t /\ (~scanning => reply \in Usable \cup {Exhausted})

\* The address a workspace has, or has been given by now.
AddressOf(e, c) ==
  IF c = None THEN (IF e = None THEN None ELSE e.ip)
  ELSE CASE c.at = "scan" -> (IF scanning THEN None ELSE reply)
         [] c.at = "forget" -> None
         [] OTHER -> c.ip
Address(i) == AddressOf(entries[i], CallOn(i))
AddressesOwned ==
  /\ \A i, j \in Ids : Address(i) \in Usable /\ Address(i) = Address(j) => i = j
  /\ \A i \in Ids \ loading : Address(i) \in Usable => Address(i) \in allocated
  /\ \A a \in Usable \cap allocated : \E i \in Ids : Address(i) = a

WorkspacesInv == NetTypeOK /\ OneCallEach /\ AllFit /\ OneScan /\ AddressesOwned
NetIInv == Inv /\ Restoring /\ WorkspacesInv

\* With one call for each workspace, CallOn finds it.
LEMMA CallOnIs ==
  ASSUME OneCallEach, NEW t \in Tasks, calls[t] # None
  PROVE  CallOn(calls[t].id) = calls[t]
<1> DEFINE Mine(u) == calls[u] # None /\ calls[u].id = calls[t].id
<1> DEFINE chosen == CHOOSE u \in Tasks : Mine(u)
<1>1. \E u \in Tasks : Mine(u)
  OBVIOUS
<1>2. chosen \in Tasks /\ Mine(chosen)
  BY <1>1
<1>3. chosen = t
  BY <1>2 DEF OneCallEach
<1> QED BY <1>1, <1>3 DEF CallOn

\* Where nobody is at work CallOn finds nothing.
LEMMA CallOnNone ==
  ASSUME NEW i, \A t \in Tasks : calls[t] # None => calls[t].id # i
  PROVE  CallOn(i) = None
BY DEF CallOn

\* What is known of a workspace when a call of task t is at work on it.
LEMMA AtWork ==
  ASSUME WorkspacesInv, NEW t \in Tasks, calls[t] # None
  PROVE  LET c == calls[t]
             i == c.id
         IN /\ c \in CallRecords /\ i \in Ids /\ entries[i] \in EntryRecords \cup {None}
            /\ CallOn(i) = c
            /\ Fits(i, entries[i], c, OwnRules(i), i \in taps, i \notin unruled)
<1>1. calls[t] \in CallRecords
  BY DEF WorkspacesInv, NetTypeOK
<1>2. calls[t].id \in Ids
  BY <1>1 DEF CallRecords
<1>3. CallOn(calls[t].id) = calls[t]
  BY CallOnIs DEF WorkspacesInv
<1> QED BY <1>1, <1>2, <1>3 DEF WorkspacesInv, AllFit, NetTypeOK

\* The calls when task t goes on with its call on i, begins it or ends it.
Moves(t, i, d) ==
  /\ t \in Tasks /\ i \in Ids
  /\ IF calls[t] = None THEN \A u \in Tasks : calls[u] # None => calls[u].id # i
     ELSE calls[t].id = i
  /\ d # None => d \in CallRecords /\ d.id = i
  /\ calls' = [calls EXCEPT ![t] = d]

\* The call on one workspace moves, and those on the others do not.
LEMMA MovesOne ==
  ASSUME NetTypeOK, OneCallEach, NEW t, NEW i, NEW d, Moves(t, i, d)
  PROVE  /\ calls' \in [Tasks -> CallRecords \cup {None}] /\ OneCallEach'
         /\ CallOn(i) = calls[t] /\ CallOn(i)' = d
         /\ \A j \in Ids \ {i} : CallOn(j)' = CallOn(j)
<1>1. t \in Tasks /\ i \in Ids /\ calls' = [calls EXCEPT ![t] = d]
      /\ (d # None => d \in CallRecords /\ d.id = i)
  BY DEF Moves
<1>2. calls \in [Tasks -> CallRecords \cup {None}]
  BY DEF NetTypeOK
<1>3. calls' \in [Tasks -> CallRecords \cup {None}]
  BY <1>1, <1>2
<1>4. calls'[t] = d /\ \A u \in Tasks \ {t} : calls'[u] = calls[u]
  BY <1>1, <1>2
<1>5. \A u \in Tasks \ {t} : calls[u] # None => calls[u].id # i
  BY <1>1 DEF Moves, OneCallEach
<1>6. OneCallEach'
  BY <1>1, <1>4, <1>5 DEF OneCallEach
<1>7. CallOn(i) = calls[t]
  <2>1. CASE calls[t] = None
    BY <2>1, CallOnNone DEF Moves
  <2>2. CASE calls[t] # None
    BY <1>1, <2>2, CallOnIs DEF Moves
  <2> QED BY <2>1, <2>2
<1>8. CallOn(i)' = d
  <2>1. CASE d = None
    <3>1. \A u \in Tasks : calls'[u] # None => calls'[u].id # i
      BY <1>4, <1>5, <2>1
    <3> QED BY <2>1, <3>1 DEF CallOn
  <2>2. CASE d # None
    <3> DEFINE Mine(u) == calls'[u] # None /\ calls'[u].id = i
    <3> DEFINE chosen == CHOOSE u \in Tasks : Mine(u)
    <3>1. \E u \in Tasks : Mine(u)
      BY <1>1, <1>4, <2>2
    <3>2. chosen \in Tasks /\ Mine(chosen)
      BY <3>1
    <3>3. chosen = t
      BY <1>4, <1>5, <3>2
    <3> QED BY <1>4, <3>1, <3>3 DEF CallOn
  <2> QED BY <2>1, <2>2
<1>9. ASSUME NEW j \in Ids \ {i} PROVE CallOn(j)' = CallOn(j)
  <2> DEFINE Mine(u) == calls[u] # None /\ calls[u].id = j
  <2> DEFINE MineNext(u) == calls'[u] # None /\ calls'[u].id = j
  <2>1. ~Mine(t) /\ ~MineNext(t)
    BY <1>1, <1>4 DEF Moves
  <2>2. \A u \in Tasks : Mine(u) <=> MineNext(u)
    BY <1>4, <2>1
  <2>3. (CHOOSE u \in Tasks : Mine(u)) = (CHOOSE u \in Tasks : MineNext(u))
    BY <2>2
  <2>4. CASE \E u \in Tasks : Mine(u)
    <3> DEFINE chosen == CHOOSE u \in Tasks : Mine(u)
    <3>1. chosen \in Tasks /\ Mine(chosen)
      BY <2>4
    <3>2. calls'[chosen] = calls[chosen]
      BY <1>4, <2>1, <3>1
    <3> QED BY <2>2, <2>3, <2>4, <3>2 DEF CallOn
  <2>5. CASE ~\E u \in Tasks : Mine(u)
    BY <2>2, <2>5 DEF CallOn
  <2> QED BY <2>4, <2>5
<1> QED BY <1>3, <1>6, <1>7, <1>8, <1>9

\* What one step of a call changes: its workspace, and its own place.
Changes(t, i, e, d) ==
  /\ Moves(t, i, d)
  /\ e \in EntryRecords \cup {None} /\ entries' = [entries EXCEPT ![i] = e]
  /\ taps' \subseteq Ids /\ taps' \ {i} = taps \ {i}
  /\ unruled' \ {i} = unruled \ {i}
  /\ {r \in rules' : r.owner # i} = {r \in rules : r.owner # i}
  /\ lock' \in [writer : Tasks \cup {None}, readers : SUBSET Tasks]

\* The other workspaces then go on fitting.
LEMMA OthersFit ==
  ASSUME NetTypeOK, OneCallEach, AllFit, NEW t, NEW i, NEW e, NEW d, Changes(t, i, e, d),
         Fits(i, e, d, OwnRules(i)', i \in taps', i \notin unruled')
  PROVE  NetTypeOK' /\ OneCallEach' /\ AllFit'
<1>1. /\ calls' \in [Tasks -> CallRecords \cup {None}] /\ OneCallEach'
      /\ CallOn(i) = calls[t] /\ CallOn(i)' = d
      /\ \A j \in Ids \ {i} : CallOn(j)' = CallOn(j)
  BY MovesOne DEF Changes
<1>2. i \in Ids
  BY DEF Changes, Moves
<1>3. /\ entries' \in [Ids -> EntryRecords \cup {None}]
      /\ entries'[i] = e /\ \A j \in Ids \ {i} : entries'[j] = entries[j]
  BY <1>2 DEF Changes, NetTypeOK
<1>4. ASSUME NEW r \in rules' PROVE r.owner \in Ids
  <2>1. r.owner # i => r \in rules
    BY <1>4 DEF Changes
  <2> QED BY <1>2, <2>1 DEF NetTypeOK
<1>5. NetTypeOK'
  BY <1>1, <1>3, <1>4 DEF NetTypeOK, Changes
<1>6. ASSUME NEW j \in Ids \ {i}
      PROVE  Fits(j, entries[j], CallOn(j), OwnRules(j), j \in taps, j \notin unruled)'
  <2>1. OwnRules(j)' = OwnRules(j)
    <3>1. OwnRules(j)' = {r \in {x \in rules' : x.owner # i} : r.owner = j}
      BY <1>6 DEF OwnRules
    <3>2. OwnRules(j) = {r \in {x \in rules : x.owner # i} : r.owner = j}
      BY <1>6 DEF OwnRules
    <3> QED BY <3>1, <3>2 DEF Changes
  <2>2. (j \in taps' <=> j \in taps) /\ (j \notin unruled' <=> j \notin unruled)
    BY <1>6 DEF Changes
  <2>3. Fits(j, entries[j], CallOn(j), OwnRules(j), j \in taps, j \notin unruled)
    BY DEF AllFit
  <2>4. entries'[j] = entries[j] /\ CallOn(j)' = CallOn(j)
    BY <1>1, <1>3
  <2>5. Fits(j, entries'[j], CallOn(j)', OwnRules(j)', j \in taps', j \notin unruled')
    BY <2>1, <2>2, <2>3, <2>4
  <2> QED BY <2>5
<1>7. Fits(i, entries'[i], CallOn(i)', OwnRules(i)', i \in taps', i \notin unruled')
  BY <1>1, <1>3
<1>8. AllFit'
  BY <1>6, <1>7 DEF AllFit
<1> QED BY <1>1, <1>5, <1>8

\* The scan does not notice what others do.
LEMMA OthersScan ==
  ASSUME OneScan, NEW t \in Tasks, ~At(t, "scan"), ~At(t, "scan")',
         \A u \in Tasks \ {t} : calls'[u] = calls[u], UNCHANGED <<scanning, reply>>,
         lock.writer \notin {t, None} => lock'.writer = lock.writer, None \notin Tasks
  PROVE  OneScan'
<1>1. \A u \in Tasks : At(u, "scan")' <=> At(u, "scan")
  BY DEF At
<1>2. \A u \in Tasks : At(u, "scan") => lock.writer \notin {t, None}
  BY DEF OneScan
<1>3. (scanning => \E u \in Tasks : At(u, "scan"))'
  BY <1>1 DEF OneScan
<1>4. ASSUME NEW u \in Tasks, At(u, "scan")'
      PROVE  lock'.writer = u /\ (~scanning' => reply' \in Usable' \cup {Exhausted})
  <2>1. At(u, "scan") /\ lock'.writer = lock.writer /\ lock.writer = u
    BY <1>1, <1>2, <1>4 DEF OneScan
  <2>2. ~scanning => reply \in Usable \cup {Exhausted}
    BY <2>1 DEF OneScan
  <2> QED BY <2>1, <2>2 DEF Usable, MaxOffset
<1> QED BY <1>3, <1>4 DEF OneScan

\* Nothing happens to the addresses: each workspace keeps its own.
LEMMA AddressesKept ==
  ASSUME AddressesOwned, UNCHANGED <<allocated, loading>>,
         \A j \in Ids : Address(j)' = Address(j)
                        \/ (Address(j)' \notin Usable /\ Address(j) \notin Usable)
  PROVE  AddressesOwned'
<1>1. Usable' = Usable
  BY DEF Usable, MaxOffset
<1>2. \A i, j \in Ids : Address(i)' \in Usable /\ Address(i)' = Address(j)' => i = j
  BY DEF AddressesOwned
<1>3. \A i \in Ids \ loading : Address(i)' \in Usable => Address(i)' \in allocated
  BY DEF AddressesOwned
<1>4. \A a \in Usable \cap allocated : \E i \in Ids : Address(i)' = a
  BY DEF AddressesOwned
<1> QED BY <1>1, <1>2, <1>3, <1>4 DEF AddressesOwned

\* The address of the workspace is that of its entry and call; others keep theirs.
LEMMA OthersAddresses ==
  ASSUME NetTypeOK, OneCallEach, NEW t, NEW i, NEW e, NEW d, Changes(t, i, e, d),
         UNCHANGED <<scanning, reply>>
  PROVE  /\ Address(i) = AddressOf(entries[i], calls[t]) /\ Address(i)' = AddressOf(e, d)
         /\ \A j \in Ids \ {i} : Address(j)' = Address(j)
<1>1. /\ CallOn(i) = calls[t] /\ CallOn(i)' = d
      /\ \A j \in Ids \ {i} : CallOn(j)' = CallOn(j)
  BY MovesOne DEF Changes
<1>2. i \in Ids /\ entries'[i] = e /\ \A j \in Ids \ {i} : entries'[j] = entries[j]
  BY DEF Changes, Moves, NetTypeOK
<1> QED BY <1>1, <1>2 DEF Address, AddressOf

\* A step that leaves the allocator alone, and the workspace its address.
LEMMA PlainStep ==
  ASSUME WorkspacesInv, NEW t, NEW i, NEW e, NEW d, Changes(t, i, e, d),
         UNCHANGED <<vars, loading>>, ~At(t, "scan"), d # None => d.at # "scan",
         lock.writer \notin {t, None} => lock'.writer = lock.writer,
         AddressOf(e, d) = AddressOf(entries[i], calls[t])
           \/ (AddressOf(e, d) \notin Usable /\ AddressOf(entries[i], calls[t]) \notin Usable),
         Fits(i, e, d, OwnRules(i)', i \in taps', i \notin unruled')
  PROVE  WorkspacesInv'
<1>1. NetTypeOK /\ OneCallEach /\ AllFit /\ OneScan /\ AddressesOwned
  BY DEF WorkspacesInv
<1>2. NetTypeOK' /\ OneCallEach' /\ AllFit'
  BY <1>1, OthersFit
<1>3. t \in Tasks /\ i \in Ids /\ calls' = [calls EXCEPT ![t] = d]
  BY DEF Changes, Moves
<1>4. calls'[t] = d /\ \A u \in Tasks \ {t} : calls'[u] = calls[u]
  BY <1>1, <1>3 DEF NetTypeOK
<1>5. OneScan'
  <2>1. ~At(t, "scan")'
    BY <1>4 DEF At
  <2>2. UNCHANGED <<scanning, reply>> /\ None \notin Tasks
    BY NetworkAssumption DEF vars
  <2> QED BY <1>1, <1>3, <1>4, <2>1, <2>2, OthersScan
<1>6. AddressesOwned'
  <2>1. /\ Address(i) = AddressOf(entries[i], calls[t]) /\ Address(i)' = AddressOf(e, d)
        /\ \A j \in Ids \ {i} : Address(j)' = Address(j)
    BY <1>1, OthersAddresses DEF vars
  <2>2. UNCHANGED <<allocated, loading>>
    BY DEF vars
  <2> QED BY <1>1, <2>1, <2>2, AddressesKept
<1> QED BY <1>2, <1>5, <1>6 DEF WorkspacesInv

-----------------------------------------------------------------------------
(* Facts about the pieces of a step *)

\* Going on is a move.
LEMMA GoesMoves ==
  ASSUME WorkspacesInv, NEW t \in Tasks, calls[t] # None, NEW place \in Places, Goes(t, place)
  PROVE  LET c == calls[t]
             d == [c EXCEPT !.at = place]
         IN /\ Moves(t, c.id, d) /\ d # None /\ d.at = place
            /\ d.op = c.op /\ d.id = c.id /\ d.arg = c.arg /\ d.ip = c.ip
<1>1. calls[t] \in CallRecords /\ calls[t].id \in Ids
  BY AtWork
<1>2. [calls[t] EXCEPT !.at = place] \in CallRecords
  BY <1>1 DEF CallRecords
<1>3. calls' = [calls EXCEPT ![t] = [calls[t] EXCEPT !.at = place]]
  BY DEF Goes, WorkspacesInv, NetTypeOK
<1>4. LET c == calls[t]
          d == [c EXCEPT !.at = place]
      IN d.at = place /\ d.op = c.op /\ d.id = c.id /\ d.arg = c.arg /\ d.ip = c.ip
  BY <1>1 DEF CallRecords
<1> QED BY <1>1, <1>2, <1>3, <1>4, NetworkAssumption DEF Moves

\* Returning is a move to no call.
LEMMA ReturnsMoves ==
  ASSUME WorkspacesInv, NEW t \in Tasks, calls[t] # None, Returns(t)
  PROVE  Moves(t, calls[t].id, None)
BY AtWork DEF Moves, Returns

\* Taking or leaving the lock never takes it from another writer.
LEMMA LockMoves ==
  ASSUME NetTypeOK, NEW t \in Tasks,
         Unlock(t) \/ WriteLock(t) \/ ReadLock(t) \/ UNCHANGED lock
  PROVE  /\ lock' \in [writer : Tasks \cup {None}, readers : SUBSET Tasks]
         /\ lock.writer \notin {t, None} => lock'.writer = lock.writer
BY DEF NetTypeOK, Unlock, WriteLock, ReadLock, Unlocked

\* A step in which the entry stays, and one that changes it.
LEMMA KeepsEntry ==
  ASSUME NetTypeOK, NEW i \in Ids, UNCHANGED entries
  PROVE  entries[i] \in EntryRecords \cup {None} /\ entries' = [entries EXCEPT ![i] = entries[i]]
BY DEF NetTypeOK

\* The rules of a policy carry its workspace and its address.
LEMMA PolicyRulesNamed ==
  ASSUME NEW i, NEW ip, NEW policy, NEW r \in RulesOf(i, ip, policy)
  PROVE  r.owner = i /\ r.ip = ip /\ ~Forwarding(r)
BY DEF RulesOf, Rule, Forwarding

\* They are added to those of their workspace only.
LEMMA PolicyRulesAdded ==
  ASSUME NEW i, NEW ip, NEW policy, rules' = rules \cup RulesOf(i, ip, policy)
  PROVE  /\ OwnRules(i)' = OwnRules(i) \cup RulesOf(i, ip, policy)
         /\ {r \in rules' : r.owner # i} = {r \in rules : r.owner # i}
BY PolicyRulesNamed DEF OwnRules

\* A sweep takes the rules of one workspace in one chain.
LEMMA RulesSwept ==
  ASSUME NEW t, NEW i, i = calls[t].id, NEW chain, Sweep(t, chain)
  PROVE  /\ OwnRules(i)' = {r \in OwnRules(i) : ChainOf(r) # chain}
         /\ {r \in rules' : r.owner # i} = {r \in rules : r.owner # i}
BY DEF Sweep, OwnRules

\* The parts of what a call is known to fit.
LEMMA AtWorkFits ==
  ASSUME WorkspacesInv, NEW t \in Tasks, calls[t] # None
  PROVE  LET c == calls[t]
             i == c.id
             e == entries[i]
         IN /\ WellFormed(c) /\ (c.op = "create" <=> e = None)
            /\ c.op # "create" => c.ip = e.ip
            /\ c.op = "start" => ~e.up /\ c.arg = e.policy
            /\ c.op = "destroy" /\ c.at # "stopVm" => ~e.up
            /\ i \in taps => TapFits(e, c)
            /\ RulesFit(e, c, OwnRules(i)) /\ ForwardsFit(e, c, OwnRules(i))
            /\ PolicyFits(i, e, c, OwnRules(i), i \notin unruled)
BY AtWork DEF Fits, CallFits

\* The address of a call that is not asking for one.
LEMMA CallAddress ==
  ASSUME NEW e, NEW c, c # None, c.at \notin {"scan", "forget"}
  PROVE  AddressOf(e, c) = c.ip
BY DEF AddressOf
-----------------------------------------------------------------------------
(* One lemma per action: task t with its call c, which becomes d, on the       *)
(* workspace i, with entry e.                                                  *)

Here(t, c, i, e) == t \in Tasks /\ c = calls[t] /\ c # None /\ i = c.id /\ e = entries[i]
Later(c, d, place) == place \in Places /\ d = [c EXCEPT !.at = place]

\* What AtWork and AtWorkFits say, with names for call, workspace and entry.
LEMMA HereFits ==
  ASSUME WorkspacesInv, NEW t, NEW c, NEW i, NEW e, Here(t, c, i, e)
  PROVE  /\ t \in Tasks /\ c \in CallRecords /\ i \in Ids /\ e \in EntryRecords \cup {None}
         /\ WellFormed(c) /\ (c.op = "create" <=> e = None)
         /\ c.op # "create" => c.ip = e.ip
         /\ c.op = "start" => ~e.up /\ c.arg = e.policy
         /\ c.op = "destroy" /\ c.at # "stopVm" => ~e.up
         /\ i \in taps => TapFits(e, c)
         /\ RulesFit(e, c, OwnRules(i)) /\ ForwardsFit(e, c, OwnRules(i))
         /\ PolicyFits(i, e, c, OwnRules(i), i \notin unruled)
BY AtWork, AtWorkFits DEF Here

\* Only the place of a call that goes on is another.
LEMMA LaterCall ==
  ASSUME WorkspacesInv, NEW t, NEW c, NEW i, NEW e, Here(t, c, i, e),
         NEW place, NEW d, Later(c, d, place)
  PROVE  /\ d \in CallRecords /\ d # None /\ d.at = place
         /\ d.op = c.op /\ d.id = c.id /\ d.arg = c.arg /\ d.ip = c.ip
<1>1. c \in CallRecords
  BY HereFits
<1> QED BY <1>1, NetworkAssumption DEF Later, CallRecords

\* A call goes on to another place.
LEMMA GoingTo ==
  ASSUME WorkspacesInv, NEW t, NEW c, NEW i, NEW e, Here(t, c, i, e),
         NEW place, NEW d, Later(c, d, place), Goes(t, place),
         c.at \notin {"scan", "forget"}, place \notin {"scan", "forget"},
         UNCHANGED <<vars, loading>>,
         NEW f \in EntryRecords \cup {None}, entries' = [entries EXCEPT ![i] = f],
         Unlock(t) \/ WriteLock(t) \/ ReadLock(t) \/ UNCHANGED lock,
         taps' \subseteq Ids, taps' \ {i} = taps \ {i}, unruled' \ {i} = unruled \ {i},
         {r \in rules' : r.owner # i} = {r \in rules : r.owner # i},
         Fits(i, f, d, OwnRules(i)', i \in taps', i \notin unruled')
  PROVE  WorkspacesInv'
<1>1. t \in Tasks /\ i \in Ids /\ calls[t] # None
  BY HereFits DEF Here
<1>2. d # None /\ d.at = place /\ d.ip = c.ip
  BY LaterCall
<1>3. Moves(t, i, d)
  BY <1>1, GoesMoves DEF Here, Later
<1>4. /\ lock' \in [writer : Tasks \cup {None}, readers : SUBSET Tasks]
      /\ lock.writer \notin {t, None} => lock'.writer = lock.writer
  BY <1>1, LockMoves DEF WorkspacesInv
<1>5. Changes(t, i, f, d)
  BY <1>3, <1>4 DEF Changes
<1>6. AddressOf(f, d) = AddressOf(entries[i], calls[t])
  BY <1>1, <1>2, CallAddress DEF Here
<1>7. ~At(t, "scan")
  BY DEF At, Here
<1>8. UNCHANGED <<vars, loading>> /\ d.at # "scan"
  BY <1>2
<1> QED BY <1>4, <1>5, <1>6, <1>7, <1>8, PlainStep

\* The same while the entry stays.
LEMMA GoingOn ==
  ASSUME WorkspacesInv, NEW t, NEW c, NEW i, NEW e, Here(t, c, i, e),
         NEW place, NEW d, Later(c, d, place), Goes(t, place),
         c.at \notin {"scan", "forget"}, place \notin {"scan", "forget"},
         UNCHANGED <<vars, entries, loading>>,
         Unlock(t) \/ WriteLock(t) \/ ReadLock(t) \/ UNCHANGED lock,
         taps' \subseteq Ids, taps' \ {i} = taps \ {i}, unruled' \ {i} = unruled \ {i},
         {r \in rules' : r.owner # i} = {r \in rules : r.owner # i},
         Fits(i, e, d, OwnRules(i)', i \in taps', i \notin unruled')
  PROVE  WorkspacesInv'
<1>1. e \in EntryRecords \cup {None} /\ entries' = [entries EXCEPT ![i] = e]
  BY HereFits, KeepsEntry DEF WorkspacesInv, Here
<1>2. UNCHANGED <<vars, loading>>
  OBVIOUS
<1> QED BY <1>1, <1>2, GoingTo

\* A call ends, and leaves the entry f.
LEMMA Ending ==
  ASSUME WorkspacesInv, NEW t, NEW c, NEW i, NEW e, Here(t, c, i, e),
         c.at # "scan", Returns(t), UNCHANGED <<vars, loading>>,
         NEW f \in EntryRecords \cup {None}, entries' = [entries EXCEPT ![i] = f],
         Unlock(t) \/ UNCHANGED lock,
         taps' \subseteq Ids, taps' \ {i} = taps \ {i}, unruled' \ {i} = unruled \ {i},
         {r \in rules' : r.owner # i} = {r \in rules : r.owner # i},
         IF c.at = "forget" THEN f = None ELSE f # None /\ f.ip = c.ip,
         Fits(i, f, None, OwnRules(i)', i \in taps', i \notin unruled')
  PROVE  WorkspacesInv'
<1>1. t \in Tasks /\ i \in Ids /\ calls[t] # None
  BY HereFits DEF Here
<1>2. Moves(t, i, None)
  BY <1>1, ReturnsMoves DEF Here
<1>3. /\ lock' \in [writer : Tasks \cup {None}, readers : SUBSET Tasks]
      /\ lock.writer \notin {t, None} => lock'.writer = lock.writer
  BY <1>1, LockMoves DEF WorkspacesInv
<1>4. Changes(t, i, f, None)
  BY <1>2, <1>3 DEF Changes
<1>5. AddressOf(f, None) = AddressOf(entries[i], calls[t])
  BY <1>1 DEF AddressOf, Here
<1>6. ~At(t, "scan")
  BY DEF At, Here
<1>7. UNCHANGED <<vars, loading>>
  OBVIOUS
<1> QED BY <1>3, <1>4, <1>5, <1>6, <1>7, PlainStep

\* The call itself fits where it goes, if its operation goes there.
LEMMA GoingFits ==
  ASSUME WorkspacesInv, NEW t, NEW c, NEW i, NEW e, Here(t, c, i, e),
         NEW place, NEW d, Later(c, d, place), WellFormed(d),
         c.op = "destroy" => c.at # "stopVm"
  PROVE  CallFits(i, e, d)
<1>1. /\ d.at = place /\ d.op = c.op /\ d.id = c.id /\ d.arg = c.arg /\ d.ip = c.ip
  BY LaterCall
<1>2. c.id = i
  BY DEF Here
<1> QED BY <1>1, <1>2, HereFits DEF CallFits

\* setup_workspace goes on from the device to the rules.
LEMMA SetupTapMakes ==
  ASSUME WorkspacesInv, NEW t, NEW c, NEW i, NEW e, Here(t, c, i, e),
         NEW d, Later(c, d, "applyNew"), c.at = "tap", taps' = taps \cup {i},
         Goes(t, "applyNew"), UNCHANGED <<vars, lock, entries, rules, loading, unruled>>
  PROVE  WorkspacesInv'
<1>1. c.op = "create" /\ WellFormed(c) /\ i \in Ids /\ e = None
  BY HereFits DEF WellFormed
<1>2. d # None /\ d.at = "applyNew" /\ d.op = c.op /\ d.ip = c.ip /\ d.arg = c.arg
  BY LaterCall
<1>3. WellFormed(d)
  BY <1>1, <1>2 DEF WellFormed
<1>4. CallFits(i, e, d)
  BY <1>1, <1>3, GoingFits
<1>5. OwnRules(i)' = OwnRules(i)
  BY DEF OwnRules
<1>6. OwnRules(i)' = {}
  BY <1>5, HereFits DEF RulesFit, Gone, Here
<1>7. Fits(i, e, d, OwnRules(i)', i \in taps', i \notin unruled')
  BY <1>1, <1>2, <1>4, <1>6 DEF Fits, TapFits, RulesFit, ForwardsFit, PolicyFits
<1>8. taps' \subseteq Ids /\ taps' \ {i} = taps \ {i}
  BY <1>1 DEF WorkspacesInv, NetTypeOK
<1>9. /\ UNCHANGED <<vars, entries, loading>> /\ unruled' \ {i} = unruled \ {i}
      /\ {r \in rules' : r.owner # i} = {r \in rules : r.owner # i}
  OBVIOUS
<1> QED BY <1>7, <1>8, <1>9, GoingOn


\* A call that waits for a lock, gets one or finds a device: it goes on, and the
\* rules are as they were.
LEMMA Arriving ==
  ASSUME WorkspacesInv, NEW t, NEW c, NEW i, NEW e, Here(t, c, i, e),
         c.at \in {"boot", "cleanup", "readLock", "ensureTap"},
         NEW place \in {"cleanup", "sweepForward", "ensureTap", "forward", "unforward"},
         NEW d, Later(c, d, place), Goes(t, place), WellFormed(d),
         UNCHANGED <<vars, entries, rules, loading, unruled>>,
         Unlock(t) \/ WriteLock(t) \/ ReadLock(t) \/ UNCHANGED lock,
         taps' \subseteq Ids, taps' \ {i} = taps \ {i}
  PROVE  WorkspacesInv'
<1>1. /\ WellFormed(c) /\ (c.op = "create" <=> e = None)
      /\ RulesFit(e, c, OwnRules(i)) /\ ForwardsFit(e, c, OwnRules(i))
      /\ PolicyFits(i, e, c, OwnRules(i), i \notin unruled)
  BY HereFits
<1>2. d # None /\ d.at = place /\ d.op = c.op /\ d.ip = c.ip /\ d.arg = c.arg
  BY LaterCall
<1>3. c # None /\ OwnRules(i)' = OwnRules(i)
  BY DEF OwnRules, Here
<1>4. CallFits(i, e, d)
  BY GoingFits
<1>5. RulesFit(e, d, OwnRules(i))
  BY <1>1, <1>2, <1>3 DEF RulesFit, Gone
<1>6. ForwardsFit(e, d, OwnRules(i))
  BY <1>1, <1>2, <1>3 DEF ForwardsFit
<1>7. PolicyFits(i, e, d, OwnRules(i), i \notin unruled)
  BY <1>1, <1>2, <1>3 DEF PolicyFits, WellFormed
<1>8. Fits(i, e, d, OwnRules(i)', i \in taps', i \notin unruled')
  BY <1>2, <1>3, <1>4, <1>5, <1>6, <1>7 DEF Fits, TapFits
<1>9. /\ UNCHANGED <<vars, entries, loading>> /\ unruled' \ {i} = unruled \ {i}
      /\ {r \in rules' : r.owner # i} = {r \in rules : r.owner # i}
  OBVIOUS
<1> QED BY <1>8, <1>9, GoingOn

\* The VM is stopped, and then it is not up.
LEMMA Stopping ==
  ASSUME WorkspacesInv, NEW t, NEW c, NEW i, NEW e, Here(t, c, i, e), c.at = "stopVm",
         NEW d, Later(c, d, "cleanup"), Goes(t, "cleanup"),
         NEW f, f = [e EXCEPT !.up = FALSE], entries' = [entries EXCEPT ![i] = f],
         UNCHANGED <<vars, rules, taps, lock, loading, unruled>>
  PROVE  WorkspacesInv'
<1>1. /\ WellFormed(c) /\ (c.op = "create" <=> e = None) /\ c \in CallRecords
      /\ c.op # "create" => c.ip = e.ip
      /\ e \in EntryRecords \cup {None} /\ i \in Ids
      /\ i \in taps => TapFits(e, c)
      /\ RulesFit(e, c, OwnRules(i)) /\ ForwardsFit(e, c, OwnRules(i))
  BY HereFits
<1>2. d # None /\ d.at = "cleanup" /\ d.id = c.id /\ d.op = c.op /\ d.ip = c.ip /\ d.arg = c.arg
  BY LaterCall
<1>3. c.op = "destroy" /\ c # None /\ c.id = i
  BY <1>1 DEF WellFormed, Here
<1>4. e \in EntryRecords
  BY <1>1, <1>3
<1>5. f \in EntryRecords /\ ~f.up /\ f.ip = e.ip /\ f.forwards = e.forwards
  BY <1>4 DEF EntryRecords
<1>6. f # None
  BY <1>5, NetworkAssumption
<1>7. CallFits(i, f, d)
  BY <1>1, <1>2, <1>3, <1>5, <1>6 DEF CallFits, WellFormed
<1>8. OwnRules(i)' = OwnRules(i)
  BY DEF OwnRules
<1>9. RulesFit(f, d, OwnRules(i)) /\ ForwardsFit(f, d, OwnRules(i))
  BY <1>1, <1>2, <1>3, <1>5, <1>6 DEF RulesFit, Gone, ForwardsFit
<1>10. PolicyFits(i, f, d, OwnRules(i), i \notin unruled)
  BY <1>2, <1>5 DEF PolicyFits
<1>11. Fits(i, f, d, OwnRules(i)', i \in taps', i \notin unruled')
  BY <1>2, <1>7, <1>8, <1>9, <1>10 DEF Fits, TapFits
<1>12. taps' \subseteq Ids /\ taps' \ {i} = taps \ {i}
  BY DEF WorkspacesInv, NetTypeOK
<1>13. /\ UNCHANGED <<vars, loading>> /\ unruled' \ {i} = unruled \ {i}
       /\ {r \in rules' : r.owner # i} = {r \in rules : r.owner # i}
       /\ f \in EntryRecords \cup {None} /\ "cleanup" \in Places
  BY <1>5 DEF Places
<1> QED BY <1>11, <1>12, <1>13, GoingTo

\* The chains are swept one after the other.
LEMMA Sweeping ==
  ASSUME WorkspacesInv, NEW t, NEW c, NEW i, NEW e, Here(t, c, i, e), NEW chain, Sweep(t, chain),
         NEW place, NEW d, Later(c, d, place), Goes(t, place),
         \/ /\ c.at = "sweepForward" /\ chain = "forward" /\ place = "sweepPostrouting"
            /\ unruled' = unruled \cup {i}
         \/ /\ c.at = "sweepPostrouting" /\ chain = "postrouting" /\ place = "sweepPrerouting"
            /\ unruled' = unruled
         \/ /\ c.at = "sweepPrerouting" /\ chain = "prerouting"
            /\ place = IF c.op \in {"create", "destroy"} THEN "takeDown" ELSE "apply"
            /\ unruled' = unruled,
         UNCHANGED <<vars, entries, taps, lock, loading>>
  PROVE  WorkspacesInv'
<1> DEFINE R == OwnRules(i)
<1> DEFINE Left == {r \in R : ChainOf(r) # chain}
<1>1. /\ WellFormed(c) /\ (c.op = "create" <=> e = None)
      /\ i \in taps => TapFits(e, c)
      /\ RulesFit(e, c, R) /\ ForwardsFit(e, c, R) /\ PolicyFits(i, e, c, R, i \notin unruled)
  BY HereFits
<1>2. d # None /\ d.at = place /\ d.op = c.op /\ d.ip = c.ip /\ d.arg = c.arg
  BY LaterCall
<1>3. c # None /\ c.id = i /\ i = calls[t].id
  BY DEF Here
<1>4. R' = Left /\ {r \in rules' : r.owner # i} = {r \in rules : r.owner # i}
  BY <1>3, RulesSwept
<1>5. WellFormed(d)
  BY <1>1, <1>2 DEF WellFormed
<1>6. CallFits(i, e, d)
  BY <1>5, GoingFits
<1>7. RulesFit(e, d, Left)
  <2>1. \A r : ChainOf(r) \in {"forward", "postrouting", "prerouting"}
    BY DEF ChainOf
  <2> QED BY <1>1, <1>2, <1>3, <2>1 DEF RulesFit, Gone
<1>8. ForwardsFit(e, d, Left)
  BY <1>1, <1>2, <1>3 DEF ForwardsFit
<1>9. PolicyFits(i, e, d, Left, i \notin unruled')
  BY <1>1, <1>2, <1>3 DEF PolicyFits
<1>10. Fits(i, e, d, R', i \in taps', i \notin unruled')
  BY <1>2, <1>4, <1>6, <1>7, <1>8, <1>9 DEF Fits, TapFits
<1>11. taps' \subseteq Ids /\ taps' \ {i} = taps \ {i} /\ unruled' \ {i} = unruled \ {i}
  BY DEF WorkspacesInv, NetTypeOK
<1>12. UNCHANGED <<vars, entries, loading>> /\ UNCHANGED lock
  OBVIOUS
<1>13. c.at \notin {"scan", "forget"} /\ place \notin {"scan", "forget"}
  OBVIOUS
<1> QED BY <1>4, <1>10, <1>11, <1>12, <1>13, GoingOn

\* The rules of a policy are loaded, for a new workspace or after a sweep.
LEMMA Applying ==
  ASSUME WorkspacesInv, NEW t, NEW c, NEW i, NEW e, Here(t, c, i, e),
         NEW place, NEW d, Later(c, d, place), Goes(t, place), Unlock(t),
         \/ c.at = "applyNew" /\ place = "boot" /\ unruled' = unruled
         \/ c.at = "apply" /\ place = "record" /\ unruled' = unruled \ {i},
         rules' = rules \cup RulesOf(i, c.ip, c.arg),
         UNCHANGED <<vars, entries, taps, loading>>
  PROVE  WorkspacesInv'
<1> DEFINE New == RulesOf(i, c.ip, c.arg)
<1>1. /\ WellFormed(c) /\ (c.op = "create" <=> e = None) /\ RulesFit(e, c, OwnRules(i))
  BY HereFits
<1>2. d # None /\ d.at = place /\ d.op = c.op /\ d.ip = c.ip /\ d.arg = c.arg
  BY LaterCall
<1>3. OwnRules(i) = {} /\ c # None
  BY <1>1 DEF RulesFit, Gone, Here
<1>4. OwnRules(i)' = New /\ {r \in rules' : r.owner # i} = {r \in rules : r.owner # i}
  <2>1. /\ OwnRules(i)' = OwnRules(i) \cup RulesOf(i, c.ip, c.arg)
        /\ {r \in rules' : r.owner # i} = {r \in rules : r.owner # i}
    BY PolicyRulesAdded
  <2> QED BY <1>3, <2>1
<1>5. \A r \in New : r.ip = c.ip /\ ~Forwarding(r)
  BY PolicyRulesNamed
<1>6. WellFormed(d)
  BY <1>1, <1>2 DEF WellFormed
<1>7. CallFits(i, e, d)
  BY <1>1, <1>6, GoingFits DEF WellFormed
<1>8. RulesFit(e, d, New) /\ ForwardsFit(e, d, New)
  BY <1>2, <1>5 DEF RulesFit, ForwardsFit, Gone
<1>9. PolicyFits(i, e, d, New, i \notin unruled')
  <2>1. {r \in New : ~Forwarding(r)} = New
    BY <1>5
  <2>2. d.at = "boot" \/ (d.at = "record" /\ d.op \in {"start", "update"})
    BY <1>1, <1>2 DEF WellFormed
  <2> QED BY <1>2, <2>1, <2>2 DEF PolicyFits
<1>10. Fits(i, e, d, OwnRules(i)', i \in taps', i \notin unruled')
  BY <1>2, <1>4, <1>7, <1>8, <1>9 DEF Fits, TapFits
<1>11. taps' \subseteq Ids /\ taps' \ {i} = taps \ {i} /\ unruled' \ {i} = unruled \ {i}
  BY DEF WorkspacesInv, NetTypeOK
<1>12. UNCHANGED <<vars, entries, loading>>
  OBVIOUS
<1>13. c.at \notin {"scan", "forget"} /\ place \notin {"scan", "forget"}
  OBVIOUS
<1> QED BY <1>4, <1>10, <1>11, <1>12, <1>13, GoingOn

\* The rules of a port forward are made or removed; they are no policy's.
LEMMA ForwardRulesNamed ==
  ASSUME NEW i, NEW ip, NEW f, NEW r \in ForwardRules(i, ip, f)
  PROVE  r.owner = i /\ r.ip = ip /\ r.port = f /\ Forwarding(r)
BY DEF ForwardRules, Rule, Forwarding

\* port_forward_add and port_forward_remove have changed the rules, not the record.
LEMMA Forwarded ==
  ASSUME WorkspacesInv, NEW t, NEW c, NEW i, NEW e, Here(t, c, i, e),
         NEW d, Later(c, d, "record"), Goes(t, "record"), Unlock(t),
         \/ c.at = "forward" /\ rules' = rules \cup ForwardRules(i, c.ip, c.arg)
         \/ c.at = "unforward" /\ rules' = rules \ Unforwarded(c),
         UNCHANGED <<vars, entries, taps, loading, unruled>>
  PROVE  WorkspacesInv'
<1> DEFINE R == OwnRules(i)
<1>1. /\ WellFormed(c) /\ (c.op = "create" <=> e = None)
      /\ i \in taps => TapFits(e, c)
      /\ RulesFit(e, c, R) /\ ForwardsFit(e, c, R) /\ PolicyFits(i, e, c, R, i \notin unruled)
  BY HereFits
<1>2. d # None /\ d.at = "record" /\ d.op = c.op /\ d.ip = c.ip /\ d.arg = c.arg
  BY LaterCall
<1>3. c # None /\ c.id = i
  BY DEF Here
<1>4. CASE c.at = "forward"
  <2> DEFINE Made == ForwardRules(i, c.ip, c.arg)
  <2>1. \A r \in Made : r.owner = i /\ r.ip = c.ip /\ r.port = c.arg /\ Forwarding(r)
    BY ForwardRulesNamed
  <2>2. rules' = rules \cup Made
    BY <1>4
  <2>3. R' = R \cup Made /\ {r \in rules' : r.owner # i} = {r \in rules : r.owner # i}
    BY <2>1, <2>2 DEF OwnRules
  <2>4. c.op = "add" /\ e # None
    BY <1>1, <1>4 DEF WellFormed
  <2>5. WellFormed(d)
    BY <1>1, <1>2, <2>4 DEF WellFormed
  <2>6. CallFits(i, e, d)
    BY <2>4, <2>5, GoingFits
  <2>7. RulesFit(e, d, R \cup Made)
    BY <1>1, <1>2, <1>3, <2>1 DEF RulesFit, Gone
  <2>8. ForwardsFit(e, d, R \cup Made)
    BY <1>1, <1>2, <1>3, <1>4, <2>1, <2>4 DEF ForwardsFit
  <2>9. PolicyFits(i, e, d, R \cup Made, i \notin unruled)
    <3>1. {r \in R \cup Made : ~Forwarding(r)} = {r \in R : ~Forwarding(r)}
      BY <2>1
    <3> QED BY <1>1, <1>2, <1>4, <2>4, <3>1 DEF PolicyFits
  <2>10. Fits(i, e, d, R', i \in taps', i \notin unruled')
    BY <1>2, <2>3, <2>6, <2>7, <2>8, <2>9 DEF Fits, TapFits
  <2>11. taps' \subseteq Ids /\ taps' \ {i} = taps \ {i} /\ unruled' \ {i} = unruled \ {i}
    BY DEF WorkspacesInv, NetTypeOK
  <2> QED BY <1>4, <2>3, <2>10, <2>11, GoingOn
<1>5. CASE c.at = "unforward"
  <2> DEFINE Kept == R \ Unforwarded(c)
  <2>1. \A r \in Unforwarded(c) : r.owner = i /\ Forwarding(r)
    BY <1>3 DEF Unforwarded, Forwarding
  <2>2. rules' = rules \ Unforwarded(c)
    BY <1>4, <1>5
  <2>3. R' = Kept /\ {r \in rules' : r.owner # i} = {r \in rules : r.owner # i}
    BY <2>1, <2>2 DEF OwnRules
  <2>4. c.op = "remove" /\ e # None
    BY <1>1, <1>5 DEF WellFormed
  <2>5. WellFormed(d)
    BY <1>1, <1>2, <2>4 DEF WellFormed
  <2>6. CallFits(i, e, d)
    BY <2>4, <2>5, GoingFits
  <2>7. RulesFit(e, d, Kept)
    BY <1>1, <1>2, <1>3 DEF RulesFit, Gone
  <2>8. ForwardsFit(e, d, Kept)
    <3>1. \A r \in Kept : Forwarding(r) => r.port[2] # c.arg
      BY <1>3 DEF Unforwarded, Forwarding, OwnRules
    <3> QED BY <1>1, <1>2, <1>3, <2>4, <3>1 DEF ForwardsFit
  <2>9. PolicyFits(i, e, d, Kept, i \notin unruled)
    <3>1. {r \in Kept : ~Forwarding(r)} = {r \in R : ~Forwarding(r)}
      BY <2>1
    <3> QED BY <1>1, <1>2, <1>5, <2>4, <3>1 DEF PolicyFits
  <2>10. Fits(i, e, d, R', i \in taps', i \notin unruled')
    BY <1>2, <2>3, <2>6, <2>7, <2>8, <2>9 DEF Fits, TapFits
  <2>11. taps' \subseteq Ids /\ taps' \ {i} = taps \ {i} /\ unruled' \ {i} = unruled \ {i}
    BY DEF WorkspacesInv, NetTypeOK
  <2> QED BY <1>5, <2>3, <2>10, <2>11, GoingOn
<1> QED BY <1>4, <1>5

\* A create has booted its VM, and registers it with the policy asked for.
LEMMA Registers ==
  ASSUME WorkspacesInv, NEW t, NEW c, NEW i, NEW e, Here(t, c, i, e), c.at = "boot",
         Returns(t), NEW f, f = Entry(c.ip, TRUE, c.arg, {}),
         entries' = [entries EXCEPT ![i] = f],
         UNCHANGED <<vars, rules, taps, lock, loading, unruled>>
  PROVE  WorkspacesInv'
<1> DEFINE R == OwnRules(i)
<1>1. /\ WellFormed(c) /\ (c.op = "create" <=> e = None)
      /\ RulesFit(e, c, R) /\ ForwardsFit(e, c, R) /\ PolicyFits(i, e, c, R, i \notin unruled)
  BY HereFits
<1>2. c.op = "create" /\ c.arg \in Policies /\ c.ip \in Usable /\ c # None
  BY <1>1 DEF WellFormed, Here
<1>3. f \in EntryRecords /\ f.ip = c.ip /\ f.policy = c.arg /\ f.forwards = {} /\ f.up
  BY <1>2 DEF Entry, EntryRecords
<1>4. f # None
  BY <1>3, NetworkAssumption
<1>5. CallFits(i, f, None)
  BY DEF CallFits
<1>6. RulesFit(f, None, R) /\ ForwardsFit(f, None, R)
  BY <1>1, <1>2, <1>3, <1>4 DEF RulesFit, ForwardsFit
<1>7. PolicyFits(i, f, None, R, i \notin unruled)
  BY <1>1, <1>2, <1>3 DEF PolicyFits
<1>8. R' = R
  BY DEF OwnRules
<1>9. Fits(i, f, None, R', i \in taps', i \notin unruled')
  BY <1>4, <1>5, <1>6, <1>7, <1>8 DEF Fits, TapFits
<1>10. taps' \subseteq Ids /\ taps' \ {i} = taps \ {i} /\ unruled' \ {i} = unruled \ {i}
  BY DEF WorkspacesInv, NetTypeOK
<1>11. /\ UNCHANGED <<vars, loading>> /\ f \in EntryRecords \cup {None} /\ c.at # "scan"
       /\ {r \in rules' : r.owner # i} = {r \in rules : r.owner # i}
       /\ (IF c.at = "forget" THEN f = None ELSE f # None /\ f.ip = c.ip)
  BY <1>3, <1>4
<1> QED BY <1>9, <1>10, <1>11, Ending

\* A destroy is over: nothing is left of its workspace.
LEMMA Forgets ==
  ASSUME WorkspacesInv, NEW t, NEW c, NEW i, NEW e, Here(t, c, i, e), c.at = "forget",
         Returns(t), entries' = [entries EXCEPT ![i] = None],
         UNCHANGED <<vars, rules, taps, lock, loading, unruled>>
  PROVE  WorkspacesInv'
<1> DEFINE R == OwnRules(i)
<1>1. (i \in taps => TapFits(e, c)) /\ RulesFit(e, c, R) /\ c # None
  BY HereFits DEF Here
<1>2. i \notin taps /\ R = {}
  BY <1>1 DEF TapFits, RulesFit, Gone
<1>3. R' = R
  BY DEF OwnRules
<1>4. Fits(i, None, None, R', i \in taps', i \notin unruled')
  BY <1>2, <1>3 DEF Fits, CallFits, RulesFit, ForwardsFit, PolicyFits
<1>5. taps' \subseteq Ids /\ taps' \ {i} = taps \ {i} /\ unruled' \ {i} = unruled \ {i}
  BY DEF WorkspacesInv, NetTypeOK
<1>6. /\ UNCHANGED <<vars, loading>> /\ None \in EntryRecords \cup {None} /\ c.at # "scan"
      /\ {r \in rules' : r.owner # i} = {r \in rules : r.owner # i}
      /\ (IF c.at = "forget" THEN None = None ELSE None # None /\ None.ip = c.ip)
  OBVIOUS
<1> QED BY <1>4, <1>5, <1>6, Ending

\* A call fails, and leaves rules and entry as they were; the device may go.
LEMMA Failing ==
  ASSUME WorkspacesInv, NEW t, NEW c, NEW i, NEW e, Here(t, c, i, e),
         c.at \in {"apply", "ensureTap", "forward", "record"}, c.at = "record" => c.op = "start",
         Returns(t), Unlock(t) \/ UNCHANGED lock, taps' \subseteq taps, taps' \ {i} = taps \ {i},
         UNCHANGED <<vars, entries, rules, loading, unruled>>
  PROVE  WorkspacesInv'
<1> DEFINE R == OwnRules(i)
<1>1. /\ WellFormed(c) /\ (c.op = "create" <=> e = None)
      /\ c.op # "create" => c.ip = e.ip
      /\ c.op = "start" => ~e.up
      /\ RulesFit(e, c, R) /\ ForwardsFit(e, c, R) /\ PolicyFits(i, e, c, R, i \notin unruled)
      /\ i \in Ids
  BY HereFits
<1>2. c # None /\ e # None /\ c.ip = e.ip
  BY <1>1 DEF WellFormed, Here
<1>3. RulesFit(e, None, R)
  BY <1>1, <1>2 DEF RulesFit
<1>4. ForwardsFit(e, None, R)
  BY <1>1, <1>2 DEF ForwardsFit
<1>5. PolicyFits(i, e, None, R, i \notin unruled)
  BY <1>1, <1>2 DEF PolicyFits, WellFormed
<1>6. R' = R
  BY DEF OwnRules
<1>7. Fits(i, e, None, R', i \in taps', i \notin unruled')
  BY <1>2, <1>3, <1>4, <1>5, <1>6 DEF Fits, CallFits, TapFits
<1>8. e \in EntryRecords \cup {None} /\ entries' = [entries EXCEPT ![i] = e]
  BY HereFits, KeepsEntry DEF WorkspacesInv, Here
<1>9. taps' \subseteq Ids /\ unruled' \ {i} = unruled \ {i}
  BY DEF WorkspacesInv, NetTypeOK
<1>10. /\ UNCHANGED <<vars, loading>> /\ c.at # "scan"
       /\ {r \in rules' : r.owner # i} = {r \in rules : r.owner # i}
       /\ (IF c.at = "forget" THEN e = None ELSE e # None /\ e.ip = c.ip)
  BY <1>2
<1>11. PICK f \in EntryRecords \cup {None} : f = e
  BY <1>8
<1>12. /\ entries' = [entries EXCEPT ![i] = f]
       /\ Fits(i, f, None, OwnRules(i)', i \in taps', i \notin unruled')
       /\ (IF c.at = "forget" THEN f = None ELSE f # None /\ f.ip = c.ip)
  BY <1>7, <1>8, <1>10, <1>11
<1>13. Unlock(t) \/ UNCHANGED lock
  OBVIOUS
<1>14. UNCHANGED <<vars, loading>> /\ taps' \ {i} = taps \ {i}
  OBVIOUS
<1>15. Returns(t) /\ Here(t, c, i, e) /\ WorkspacesInv /\ c.at # "scan"
  BY <1>10
<1> HIDE DEF R
<1> QED BY ONLY <1>9, <1>10, <1>12, <1>13, <1>14, <1>15, Ending

\* A call records what it has done to the rules.
LEMMA Recording ==
  ASSUME WorkspacesInv, NEW t, NEW c, NEW i, NEW e, Here(t, c, i, e), c.at = "record",
         Returns(t), NEW f, f = Recorded(e, c), entries' = [entries EXCEPT ![i] = f],
         UNCHANGED <<vars, rules, taps, lock, loading, unruled>>
  PROVE  WorkspacesInv'
<1> DEFINE R == OwnRules(i)
<1>1. /\ WellFormed(c) /\ (c.op = "create" <=> e = None)
      /\ c.op # "create" => c.ip = e.ip
      /\ c.op = "start" => ~e.up /\ c.arg = e.policy
      /\ RulesFit(e, c, R) /\ ForwardsFit(e, c, R) /\ PolicyFits(i, e, c, R, i \notin unruled)
      /\ e \in EntryRecords \cup {None}
  BY HereFits
<1>2. c # None /\ e \in EntryRecords /\ c.ip = e.ip /\ c.op \in {"start", "update", "add", "remove"}
  BY <1>1 DEF WellFormed, Here
<1>3. f \in EntryRecords /\ f.ip = e.ip
  BY <1>1, <1>2 DEF Recorded, EntryRecords, WellFormed
<1>4. f # None /\ e # None
  BY <1>2, <1>3, NetworkAssumption
<1>5. RulesFit(f, None, R)
  BY <1>1, <1>2, <1>3, <1>4 DEF RulesFit
<1>6. ForwardsFit(f, None, R)
  BY <1>1, <1>2, <1>4 DEF ForwardsFit, Recorded, EntryRecords
<1>7. PolicyFits(i, f, None, R, i \notin unruled)
  BY <1>1, <1>2, <1>3, <1>4 DEF PolicyFits, Recorded, EntryRecords
<1>8. R' = R
  BY DEF OwnRules
<1>9. Fits(i, f, None, R', i \in taps', i \notin unruled')
  BY <1>4, <1>5, <1>6, <1>7, <1>8 DEF Fits, CallFits, TapFits
<1>10. taps' \subseteq Ids /\ taps' \ {i} = taps \ {i} /\ unruled' \ {i} = unruled \ {i}
  BY DEF WorkspacesInv, NetTypeOK
<1>11. /\ UNCHANGED <<vars, loading>> /\ f \in EntryRecords \cup {None} /\ c.at # "scan"
       /\ {r \in rules' : r.owner # i} = {r \in rules : r.owner # i}
       /\ (IF c.at = "forget" THEN f = None ELSE f # None /\ f.ip = c.ip)
  BY <1>2, <1>3, <1>4
<1> QED BY <1>9, <1>10, <1>11, Ending

\* A call at work has its address, which is leased.
LEMMA OwnAddress ==
  ASSUME Restoring, WorkspacesInv, NEW t, NEW c, NEW i, NEW e, Here(t, c, i, e),
         c.at \notin {"scan", "forget"}
  PROVE  Address(i) = c.ip /\ c.ip \in Usable /\ c.ip \in allocated
<1>1. c \in CallRecords /\ i \in Ids /\ e \in EntryRecords \cup {None} /\ WellFormed(c)
      /\ (c.op = "create" <=> e = None) /\ (c.op # "create" => c.ip = e.ip)
  BY HereFits
<1>2. c.ip \in Usable
  <2>1. CASE c.op = "create"
    BY <1>1, <2>1 DEF WellFormed
  <2>2. CASE c.op # "create"
    <3>1. e \in EntryRecords
      BY <1>1, <2>2
    <3> QED BY <1>1, <2>2, <3>1 DEF EntryRecords
  <2> QED BY <2>1, <2>2
<1>3. CallOn(i) = c
  BY AtWork DEF Here
<1>4. Address(i) = c.ip
  BY <1>3, CallAddress DEF Address, Here
<1>5. i \notin loading
  BY DEF Restoring, Here
<1> QED BY <1>1, <1>2, <1>4, <1>5 DEF WorkspacesInv, AddressesOwned

\* A workspace that is taken down, or never came up, gives its address back.
LEMMA GivesBack ==
  ASSUME Restoring, WorkspacesInv, NEW t, NEW c, NEW i, NEW e, Here(t, c, i, e),
         c.at \in {"tap", "applyNew", "takeDown"}, Release(c.ip),
         NEW d, Moves(t, i, d), d # None => d.at = "forget", d = None => e = None,
         UNCHANGED <<entries, rules, loading>>, Unlock(t),
         taps' \subseteq Ids, taps' \ {i} = taps \ {i}, unruled' \ {i} = unruled \ {i},
         Fits(i, e, d, OwnRules(i)', i \in taps', i \notin unruled')
  PROVE  WorkspacesInv'
<1>1. NetTypeOK /\ OneCallEach /\ AllFit /\ OneScan /\ AddressesOwned
  BY DEF WorkspacesInv
<1>2. /\ t \in Tasks /\ i \in Ids /\ calls[t] # None
      /\ e \in EntryRecords \cup {None} /\ entries' = [entries EXCEPT ![i] = e]
  BY <1>1, HereFits, KeepsEntry DEF Here
<1>3. /\ lock' \in [writer : Tasks \cup {None}, readers : SUBSET Tasks]
      /\ lock.writer \notin {t, None} => lock'.writer = lock.writer
  BY <1>1, <1>2, LockMoves
<1>4. Changes(t, i, e, d)
  BY <1>2, <1>3 DEF Changes
<1>5. NetTypeOK' /\ OneCallEach' /\ AllFit'
  BY <1>1, <1>4, OthersFit
<1>6. allocated' = allocated \ {c.ip} /\ UNCHANGED <<scanning, reply, loading>>
  BY DEF Release
<1>7. OneScan'
  <2>1. calls'[t] = d /\ \A u \in Tasks \ {t} : calls'[u] = calls[u]
    BY <1>1 DEF Moves, NetTypeOK
  <2>2. ~At(t, "scan") /\ ~At(t, "scan")'
    BY <2>1 DEF At, Here
  <2>3. None \notin Tasks
    BY NetworkAssumption
  <2> QED BY <1>1, <1>2, <1>3, <1>6, <2>1, <2>2, <2>3, OthersScan
<1>8. /\ Address(i)' = AddressOf(e, d)
      /\ \A j \in Ids \ {i} : Address(j)' = Address(j)
  BY <1>1, <1>4, <1>6, OthersAddresses
<1>9. Address(i) = c.ip /\ c.ip \in Usable
  BY OwnAddress
<1>10. Address(i)' = None /\ None \notin Usable
  BY <1>8, NetworkAssumption DEF AddressOf
<1>11. AddressesOwned'
  <2>1. Usable' = Usable
    BY DEF Usable, MaxOffset
  <2>2. \A j, k \in Ids : Address(j)' \in Usable /\ Address(j)' = Address(k)' => j = k
    BY <1>1, <1>8, <1>10 DEF AddressesOwned
  <2>3. ASSUME NEW j \in Ids \ loading, Address(j)' \in Usable PROVE Address(j)' \in allocated'
    <3>1. j # i /\ Address(j)' = Address(j)
      BY <1>8, <1>10, <2>3
    <3>2. Address(j) \in allocated /\ Address(j) # c.ip
      BY <1>1, <1>2, <1>9, <2>3, <3>1 DEF AddressesOwned
    <3> QED BY <1>6, <3>1, <3>2
  <2>4. ASSUME NEW a \in Usable \cap allocated' PROVE \E j \in Ids : Address(j)' = a
    <3>1. a \in allocated /\ a # c.ip
      BY <1>6
    <3>2. PICK j \in Ids : Address(j) = a
      BY <1>1, <3>1 DEF AddressesOwned
    <3> QED BY <1>8, <1>9, <3>1, <3>2
  <2> QED BY <1>6, <2>1, <2>2, <2>3, <2>4 DEF AddressesOwned
<1> QED BY <1>5, <1>7, <1>11 DEF WorkspacesInv

\* How the three ways to give back an address end.
LEMMA Releasing ==
  ASSUME Restoring, WorkspacesInv, NEW t, NEW c, NEW i, NEW e, Here(t, c, i, e),
         c.at \in {"tap", "applyNew", "takeDown"}, Release(c.ip), i \notin taps',
         NEW d, IF c.op = "create" THEN d = None /\ Returns(t)
                ELSE Later(c, d, "forget") /\ Goes(t, "forget"),
         UNCHANGED <<entries, rules, loading>>, Unlock(t),
         taps' \subseteq Ids, taps' \ {i} = taps \ {i}, unruled' \ {i} = unruled \ {i}
  PROVE  WorkspacesInv'
<1>1. /\ WellFormed(c) /\ (c.op = "create" <=> e = None) /\ c \in CallRecords
      /\ (c.op = "destroy" /\ c.at # "stopVm" => ~e.up) /\ RulesFit(e, c, OwnRules(i))
  BY HereFits
<1>2. t \in Tasks /\ calls[t] # None /\ i = calls[t].id /\ c = calls[t]
  BY HereFits DEF Here
<1>3. OwnRules(i)' = {}
  BY <1>1, <1>2 DEF OwnRules, RulesFit, Gone
<1>4. CASE c.op = "create"
  <2>1. d = None /\ Moves(t, i, d) /\ e = None
    BY <1>1, <1>2, <1>4, ReturnsMoves
  <2>2. Fits(i, e, d, OwnRules(i)', i \in taps', i \notin unruled')
    BY <1>3, <2>1 DEF Fits, CallFits, RulesFit, ForwardsFit, PolicyFits
  <2>3. d # None => d.at = "forget"
    BY <2>1
  <2> QED BY <2>1, <2>2, <2>3, GivesBack
<1>5. CASE c.op # "create"
  <2>1. Later(c, d, "forget") /\ Goes(t, "forget") /\ c.op = "destroy" /\ e # None
    BY <1>1, <1>5 DEF WellFormed
  <2>2. d # None /\ d.at = "forget" /\ d.op = c.op /\ d.id = c.id /\ d.ip = c.ip /\ d.arg = c.arg
    BY <2>1, LaterCall
  <2>3. Moves(t, i, d)
    BY <1>2, <2>1, GoesMoves DEF Later
  <2>4. WellFormed(d)
    BY <2>1, <2>2 DEF WellFormed
  <2>5. CallFits(i, e, d)
    BY <2>1, <2>4, GoingFits
  <2>6. Fits(i, e, d, OwnRules(i)', i \in taps', i \notin unruled')
    BY <1>1, <1>3, <2>1, <2>2, <2>5 DEF Fits, RulesFit, ForwardsFit, PolicyFits
  <2> QED BY <2>1, <2>2, <2>3, <2>6, GivesBack
<1> QED BY <1>4, <1>5

\* What a scan has found is the address of the create that asked for it.
LEMMA EndsScan ==
  ASSUME WorkspacesInv, NEW t, NEW c, NEW i, NEW e, Here(t, c, i, e), c.at = "scan", ~scanning,
         UNCHANGED <<vars, entries, rules, taps, loading, unruled>>,
         NEW d, IF reply = Exhausted THEN d = None /\ Unlock(t)
                ELSE d = [c EXCEPT !.at = "tap", !.ip = reply] /\ UNCHANGED lock,
         calls' = [calls EXCEPT ![t] = d]
  PROVE  WorkspacesInv'
<1>1. NetTypeOK /\ OneCallEach /\ AllFit /\ OneScan /\ AddressesOwned
  BY DEF WorkspacesInv
<1>2. /\ t \in Tasks /\ c \in CallRecords /\ i \in Ids /\ calls[t] = c /\ c # None /\ c.id = i
      /\ e \in EntryRecords \cup {None} /\ entries' = [entries EXCEPT ![i] = e]
  BY <1>1, HereFits, KeepsEntry DEF Here
<1>3. /\ WellFormed(c) /\ (c.op = "create" <=> e = None) /\ (i \in taps => TapFits(e, c))
      /\ RulesFit(e, c, OwnRules(i))
  BY HereFits
<1>4. c.op = "create" /\ e = None /\ c.arg \in Policies /\ i \notin taps /\ OwnRules(i) = {}
  BY <1>2, <1>3 DEF WellFormed, TapFits, RulesFit, Gone
<1>5. lock.writer = t /\ reply \in Usable \cup {Exhausted}
  BY <1>1, <1>2 DEF OneScan, At
<1>6. reply # Exhausted => /\ d \in CallRecords /\ d # None /\ d.op = "create" /\ d.at = "tap"
                           /\ d.id = i /\ d.arg = c.arg /\ d.ip = reply /\ reply \in Usable
  <2>1. reply # Exhausted => d = [c EXCEPT !.at = "tap", !.ip = reply] /\ reply \in Usable
    BY <1>5
  <2>2. "tap" \in Places
    BY DEF Places
  <2>3. reply # Exhausted => d \in CallRecords
    BY <1>2, <2>1, <2>2 DEF CallRecords
  <2>4. reply # Exhausted => /\ d.op = c.op /\ d.at = "tap" /\ d.id = c.id /\ d.arg = c.arg
                             /\ d.ip = reply
    BY <1>2, <2>1 DEF CallRecords
  <2>5. None \notin CallRecords
    BY NetworkAssumption DEF CallRecords
  <2> QED BY <1>2, <1>4, <2>1, <2>3, <2>4, <2>5
<1>7. Moves(t, i, d)
  BY <1>2, <1>6 DEF Moves
<1>8. lock' \in [writer : Tasks \cup {None}, readers : SUBSET Tasks]
  BY <1>1, <1>2, LockMoves
<1>9. taps' \subseteq Ids /\ taps' \ {i} = taps \ {i} /\ unruled' \ {i} = unruled \ {i}
  BY <1>1 DEF NetTypeOK
<1>10. Changes(t, i, e, d)
  BY <1>2, <1>7, <1>8, <1>9 DEF Changes
<1>11. OwnRules(i)' = {}
  BY <1>4 DEF OwnRules
<1>12. Fits(i, e, d, OwnRules(i)', i \in taps', i \notin unruled')
  <2>1. CallFits(i, e, d)
    BY <1>4, <1>6 DEF CallFits, WellFormed
  <2> QED BY <1>4, <1>6, <1>11, <2>1 DEF Fits, RulesFit, ForwardsFit, PolicyFits
<1>13. NetTypeOK' /\ OneCallEach' /\ AllFit'
  BY <1>1, <1>10, <1>12, OthersFit
<1>14. UNCHANGED <<allocated, scanning, reply, loading>>
  BY DEF vars
<1>15. OneScan'
  <2>1. calls'[t] = d /\ \A u \in Tasks \ {t} : calls'[u] = calls[u]
    BY <1>1, <1>2 DEF NetTypeOK
  <2>2. \A u \in Tasks \ {t} : ~At(u, "scan")
    BY <1>1, <1>5 DEF OneScan
  <2>3. \A u \in Tasks : ~At(u, "scan")'
    BY <1>6, <2>1, <2>2 DEF At
  <2> QED BY <1>14, <2>3 DEF OneScan
<1>16. AddressesOwned'
  <2>1. /\ Address(i) = AddressOf(e, c) /\ Address(i)' = AddressOf(e, d)
        /\ \A j \in Ids \ {i} : Address(j)' = Address(j)
    BY <1>1, <1>2, <1>10, <1>14, OthersAddresses DEF Here
  <2>2. Address(i) = reply
    BY <1>2, <2>1 DEF AddressOf
  <2>3. reply # Exhausted => Address(i)' = reply
    BY <1>6, <2>1 DEF AddressOf
  <2>4. reply = Exhausted => Address(i)' = None
    BY <1>4, <2>1 DEF AddressOf
  <2>5. None \notin Usable /\ Exhausted \notin Usable
    BY NetworkAssumption, ReplyAssumption, LastAssumption DEF Usable, MaxOffset
  <2> QED BY <1>1, <1>14, <2>1, <2>2, <2>3, <2>4, <2>5, AddressesKept
<1> QED BY <1>13, <1>15, <1>16 DEF WorkspacesInv
-----------------------------------------------------------------------------
(* Where calls begin, and what is nobody's call.                               *)

\* The beginning of a call on a workspace nobody is at work on, with what it
\* makes of the entry; a stop is a call that ends at once.
LEMMA Beginning ==
  ASSUME WorkspacesInv, OneCallAtATime, NEW t \in Tasks, NEW i \in Ids, Callable(t, i),
         NEW f \in EntryRecords, entries' = [entries EXCEPT ![i] = f],
         NEW d, calls' = [calls EXCEPT ![t] = d],
         d # None => /\ d \in CallRecords /\ WellFormed(d) /\ d.id = i /\ d.ip = f.ip
                     /\ d.at \in {"stopVm", "readLock"}
                     /\ d.op = "start" => ~f.up /\ d.arg = f.policy,
         f.ip = entries[i].ip, f.policy = entries[i].policy, f.forwards = entries[i].forwards,
         f.up => entries[i].up,
         UNCHANGED <<vars, rules, taps, lock, loading, unruled>>
  PROVE  WorkspacesInv'
<1> DEFINE R == OwnRules(i)
<1> DEFINE e == entries[i]
<1>1. NetTypeOK /\ OneCallEach /\ AllFit
  BY DEF WorkspacesInv
<1>2. calls[t] = None /\ e # None /\ \A u \in Tasks : calls[u] # None => calls[u].id # i
  BY DEF Callable, Works, Registered
<1>3. CallOn(i) = None
  BY <1>2, CallOnNone
<1>4. RulesFit(e, None, R) /\ ForwardsFit(e, None, R) /\ PolicyFits(i, e, None, R, i \notin unruled)
  BY <1>1, <1>3 DEF AllFit, Fits
<1>5. f # None
  BY NetworkAssumption
<1>6. R' = R
  BY DEF OwnRules
<1>7. CallFits(i, f, d)
  BY <1>5 DEF CallFits, WellFormed
<1>8. RulesFit(f, d, R)
  BY <1>2, <1>4, <1>5 DEF RulesFit, Gone
<1>9. ForwardsFit(f, d, R)
  BY <1>2, <1>4, <1>5 DEF ForwardsFit
<1>10. PolicyFits(i, f, d, R, i \notin unruled)
  BY <1>2, <1>4, <1>5 DEF PolicyFits
<1>11. Fits(i, f, d, R', i \in taps', i \notin unruled')
  BY <1>5, <1>6, <1>7, <1>8, <1>9, <1>10 DEF Fits, TapFits
<1>12. Moves(t, i, d)
  BY <1>2 DEF Moves
<1>13. /\ taps' \subseteq Ids /\ taps' \ {i} = taps \ {i} /\ unruled' \ {i} = unruled \ {i}
       /\ lock' \in [writer : Tasks \cup {None}, readers : SUBSET Tasks]
       /\ lock.writer \notin {t, None} => lock'.writer = lock.writer
  BY <1>1 DEF NetTypeOK
<1>14. Changes(t, i, f, d)
  BY <1>12, <1>13 DEF Changes
<1>15. AddressOf(f, d) = AddressOf(entries[i], calls[t])
  BY <1>2, <1>5 DEF AddressOf
<1>16. ~At(t, "scan") /\ (d # None => d.at # "scan") /\ UNCHANGED <<vars, loading>>
  BY <1>2 DEF At
<1> QED BY <1>11, <1>13, <1>14, <1>15, <1>16, PlainStep

\* The calls begin so: they read the entry and copy the address.
LEMMA CallBegins ==
  ASSUME WorkspacesInv, OneCallAtATime, NEW t \in Tasks, NEW i \in Ids, Callable(t, i),
         NEW op, NEW place, NEW arg, Call(t, op, place, i, arg),
         \/ op = "destroy" /\ place = "stopVm" /\ arg = None
         \/ op = "start" /\ place = "readLock" /\ arg = entries[i].policy /\ ~entries[i].up
         \/ op = "update" /\ place = "readLock" /\ arg \in Policies
         \/ op = "add" /\ place = "readLock" /\ arg \in Ports \X Ports
         \/ op = "remove" /\ place = "readLock" /\ arg \in Ports,
         UNCHANGED <<vars, entries, rules, taps, lock, loading, unruled>>
  PROVE  WorkspacesInv'
<1>1. NetTypeOK
  BY DEF WorkspacesInv
<1>2. i \in Registered /\ entries[i] \in EntryRecords
  BY <1>1 DEF Callable, Registered, NetTypeOK
<1>3. PICK f \in EntryRecords : f = entries[i]
  BY <1>2
<1>4. PICK d : d = [op |-> op, at |-> place, id |-> i, arg |-> arg, ip |-> f.ip]
  OBVIOUS
<1>5. calls' = [calls EXCEPT ![t] = d]
  BY <1>2, <1>3, <1>4 DEF Call
<1>6. entries' = [entries EXCEPT ![i] = f]
  BY <1>1, <1>3 DEF NetTypeOK
<1>7. f.ip \in Usable /\ f.policy \in Policies
  BY DEF EntryRecords
<1>8. d \in CallRecords
  <2>1. "stopVm" \in Places /\ "readLock" \in Places
    BY DEF Places
  <2>2. op \in {"create", "destroy", "start", "update", "add", "remove"} /\ place \in Places
    BY <2>1
  <2>3. arg \in Policies \cup (Ports \X Ports) \cup Ports \cup {None}
    BY <1>3, <1>7
  <2> QED BY <1>4, <1>7, <2>2, <2>3 DEF CallRecords
<1>9. WellFormed(d) /\ d.id = i /\ d.ip = f.ip /\ d.at \in {"stopVm", "readLock"}
      /\ (d.op = "start" => ~f.up /\ d.arg = f.policy)
  BY <1>3, <1>4, <1>7 DEF WellFormed
<1> QED BY <1>3, <1>5, <1>6, <1>8, <1>9, Beginning

\* A stop leaves the entry with its VM down.
LEMMA StopEnds ==
  ASSUME WorkspacesInv, OneCallAtATime, NEW t \in Tasks, NEW i \in Ids, Stop(t, i)
  PROVE  WorkspacesInv'
<1>1. NetTypeOK /\ Callable(t, i)
  BY DEF WorkspacesInv, Stop
<1>2. entries[i] \in EntryRecords /\ calls[t] = None /\ calls \in [Tasks -> CallRecords \cup {None}]
  BY <1>1 DEF Callable, Registered, NetTypeOK
<1>3. PICK f : f = [entries[i] EXCEPT !.up = FALSE]
  OBVIOUS
<1>4. /\ f \in EntryRecords /\ ~f.up
      /\ f.ip = entries[i].ip /\ f.policy = entries[i].policy /\ f.forwards = entries[i].forwards
  BY <1>2, <1>3 DEF EntryRecords
<1>5. entries' = [entries EXCEPT ![i] = f] /\ calls' = [calls EXCEPT ![t] = None]
  BY <1>2, <1>3 DEF Stop
<1>6. UNCHANGED <<vars, rules, taps, lock, loading, unruled>>
  BY DEF Stop
<1> QED BY <1>1, <1>4, <1>5, <1>6, Beginning

\* The call on a workspace is that of a task.
LEMMA CallOnOf ==
  ASSUME NEW i, CallOn(i) # None
  PROVE  \E u \in Tasks : calls[u] # None /\ calls[u].id = i /\ CallOn(i) = calls[u]
<1> DEFINE Mine(u) == calls[u] # None /\ calls[u].id = i
<1> DEFINE chosen == CHOOSE u \in Tasks : Mine(u)
<1>1. \E u \in Tasks : Mine(u)
  BY DEF CallOn
<1>2. chosen \in Tasks /\ Mine(chosen)
  BY <1>1
<1> QED BY <1>1, <1>2 DEF CallOn

\* A create takes the lock and asks for an address; it has none yet.
LEMMA SetupBegins ==
  ASSUME WorkspacesInv, NEW t \in Tasks, NEW i \in Ids, NEW policy \in Policies,
         Setup(t, i, policy)
  PROVE  WorkspacesInv'
<1>1. NetTypeOK /\ OneCallEach /\ AllFit /\ OneScan /\ AddressesOwned
  BY DEF WorkspacesInv
<1>2. /\ calls[t] = None /\ entries[i] = None /\ i \notin Registered
      /\ \A u \in Tasks : calls[u] # None => calls[u].id # i
      /\ lock.writer = None /\ lock' = [lock EXCEPT !.writer = t]
      /\ UNCHANGED <<entries, rules, taps, loading, unruled>>
  BY DEF Setup, Works, Registered, WriteLock, Unlocked
<1>3. PICK d : d = [op |-> "create", at |-> "scan", id |-> i, arg |-> policy, ip |-> None]
  OBVIOUS
<1>4. calls' = [calls EXCEPT ![t] = d]
  BY <1>2, <1>3 DEF Setup, Call
<1>5. d \in CallRecords /\ d.id = i /\ d.at = "scan" /\ d.op = "create" /\ d.arg = policy
  <2>1. "scan" \in Places
    BY DEF Places
  <2> QED BY <1>3, <2>1 DEF CallRecords
<1>6. d # None
  BY <1>5, NetworkAssumption
<1>7. scanning' /\ UNCHANGED <<allocated, reply>> /\ ~scanning
  BY DEF Setup, Allocate
<1>8. CallOn(i) = None
  BY <1>2, CallOnNone
<1>9. /\ i \notin taps /\ OwnRules(i) = {}
  <2>1. Fits(i, None, None, OwnRules(i), i \in taps, i \notin unruled)
    BY <1>1, <1>2, <1>8 DEF AllFit
  <2> QED BY <2>1 DEF Fits, TapFits, RulesFit
<1>10. OwnRules(i)' = {}
  BY <1>2, <1>9 DEF OwnRules
<1>11. Fits(i, None, d, OwnRules(i)', i \in taps', i \notin unruled')
  BY <1>2, <1>5, <1>9, <1>10
  DEF Fits, CallFits, WellFormed, RulesFit, ForwardsFit, PolicyFits
<1>12. Moves(t, i, d)
  BY <1>2, <1>4, <1>5 DEF Moves
<1>13. Changes(t, i, None, d)
  <2>1. entries' = [entries EXCEPT ![i] = None]
    BY <1>1, <1>2 DEF NetTypeOK
  <2>2. lock' \in [writer : Tasks \cup {None}, readers : SUBSET Tasks] /\ taps' \subseteq Ids
    BY <1>1, <1>2 DEF NetTypeOK
  <2> QED BY <1>2, <1>12, <2>1, <2>2 DEF Changes
<1>14. NetTypeOK' /\ OneCallEach' /\ AllFit'
  BY <1>1, <1>11, <1>13, OthersFit
<1>15. \A u \in Tasks : ~At(u, "scan")
  BY <1>1, <1>2, NetworkAssumption DEF OneScan
<1>16. OneScan'
  <2>1. calls'[t] = d /\ \A u \in Tasks \ {t} : calls'[u] = calls[u]
    BY <1>1, <1>4 DEF NetTypeOK
  <2>2. At(t, "scan")' /\ \A u \in Tasks \ {t} : ~At(u, "scan")'
    BY <1>5, <1>6, <1>15, <2>1 DEF At
  <2>3. lock'.writer = t
    BY <1>1, <1>2 DEF NetTypeOK
  <2> QED BY <1>7, <2>2, <2>3 DEF OneScan
<1>17. AddressesOwned'
  <2>1. CallOn(i)' = d /\ \A j \in Ids \ {i} : CallOn(j)' = CallOn(j)
    BY <1>1, <1>12, MovesOne
  <2>2. Address(i) \notin Usable /\ Address(i)' \notin Usable
    BY <1>2, <1>5, <1>6, <1>7, <1>8, <2>1, NetworkAssumption DEF Address, AddressOf
  <2>3. ASSUME NEW j \in Ids \ {i} PROVE Address(j)' = Address(j)
    <3>1. entries'[j] = entries[j] /\ CallOn(j)' = CallOn(j)
      BY <1>2, <2>1
    <3>2. CallOn(j) # None => CallOn(j).at # "scan"
      BY <1>15, CallOnOf DEF At
    <3> QED BY <3>1, <3>2 DEF Address, AddressOf
  <2>4. \A j \in Ids : Address(j)' = Address(j)
                       \/ (Address(j)' \notin Usable /\ Address(j) \notin Usable)
    BY <2>2, <2>3
  <2> QED BY <1>1, <1>2, <1>7, <2>4, AddressesKept
<1> QED BY <1>14, <1>16, <1>17 DEF WorkspacesInv

\* The workspaces do not notice what only the allocator does.
LEMMA QuietWorkspaces ==
  ASSUME NetTypeOK, OneCallEach, AllFit, UNCHANGED <<entries, rules, taps, lock, calls, unruled>>
  PROVE  NetTypeOK' /\ OneCallEach' /\ AllFit' /\ \A j \in Ids : CallOn(j)' = CallOn(j)
<1>1. NetTypeOK' /\ OneCallEach'
  BY DEF NetTypeOK, OneCallEach
<1>2. \A j : CallOn(j)' = CallOn(j) /\ OwnRules(j)' = OwnRules(j)
  BY DEF CallOn, OwnRules
<1>3. ASSUME NEW j \in Ids
      PROVE  Fits(j, entries[j], CallOn(j), OwnRules(j), j \in taps, j \notin unruled)'
  <2>1. Fits(j, entries[j], CallOn(j), OwnRules(j), j \in taps, j \notin unruled)
    BY DEF AllFit
  <2> QED BY <1>2, <2>1
<1> QED BY <1>1, <1>2, <1>3 DEF AllFit

\* The one call that may be asking for an address, while a scan is on.
LEMMA Scanner ==
  ASSUME Restoring, WorkspacesInv, scanning
  PROVE  /\ loading = {}
         /\ \E t \in Tasks : \E i \in Ids :
              /\ At(t, "scan") /\ lock.writer = t /\ CallOn(i) = calls[t]
              /\ CallOn(i) # None /\ CallOn(i).at = "scan"
              /\ \A j \in Ids \ {i} : CallOn(j) # None => CallOn(j).at # "scan"
<1>1. PICK t \in Tasks : At(t, "scan") /\ lock.writer = t
  BY DEF WorkspacesInv, OneScan
<1>2. PICK i \in Ids : i = calls[t].id
  BY <1>1, AtWork DEF At
<1>3. CallOn(i) = calls[t]
  BY <1>1, <1>2, AtWork DEF At
<1>4. ASSUME NEW j \in Ids \ {i}, CallOn(j) # None, CallOn(j).at = "scan" PROVE FALSE
  <2>1. PICK u \in Tasks : calls[u] # None /\ calls[u].id = j /\ CallOn(j) = calls[u]
    BY <1>4, CallOnOf
  <2>2. lock.writer = u
    BY <1>4, <2>1 DEF WorkspacesInv, OneScan, At
  <2> QED BY <1>1, <1>2, <1>4, <2>1, <2>2
<1>5. loading = {}
  BY <1>1 DEF Restoring, At
<1> QED BY <1>1, <1>3, <1>4, <1>5 DEF At

\* An iteration of the scan: what it finds nobody else has.
LEMMA ScanKeeps ==
  ASSUME Inv, Restoring, WorkspacesInv, Scan, UNCHANGED netVars
  PROVE  WorkspacesInv'
<1>1. NetTypeOK /\ OneCallEach /\ AllFit /\ OneScan /\ AddressesOwned
  BY DEF WorkspacesInv
<1>2. NetTypeOK' /\ OneCallEach' /\ AllFit' /\ \A j \in Ids : CallOn(j)' = CallOn(j)
  BY <1>1, QuietWorkspaces DEF netVars
<1>3. scanning
  BY DEF Scan, TakeFree, MoveOn, GiveUp
<1>4. loading = {} /\ loading' = {} /\ UNCHANGED <<entries, calls, lock>>
  BY <1>3, Scanner DEF netVars
<1>5. PICK t \in Tasks : \E i \in Ids :
        /\ At(t, "scan") /\ lock.writer = t /\ CallOn(i) = calls[t]
        /\ CallOn(i) # None /\ CallOn(i).at = "scan"
        /\ \A j \in Ids \ {i} : CallOn(j) # None => CallOn(j).at # "scan"
  BY <1>3, Scanner
<1>6. PICK i \in Ids :
        /\ CallOn(i) # None /\ CallOn(i).at = "scan"
        /\ \A j \in Ids \ {i} : CallOn(j) # None => CallOn(j).at # "scan"
  BY <1>5
<1>7. \A u \in Tasks : At(u, "scan")' <=> At(u, "scan")
  BY <1>4 DEF At
<1>8. \A j \in Ids \ {i} : Address(j)' = Address(j)
  BY <1>2, <1>4, <1>6 DEF Address, AddressOf
<1>9. Address(i) = None /\ Address(i)' = IF scanning' THEN None ELSE reply'
  BY <1>2, <1>3, <1>6 DEF Address, AddressOf
<1>10. Usable' = Usable /\ None \notin Usable /\ Exhausted \notin Usable
  BY NetworkAssumption, ReplyAssumption, LastAssumption DEF Usable, MaxOffset
<1>11. CASE TakeFree
  <2>1. /\ ~scanning' /\ reply' = Probed /\ Probed \notin allocated
        /\ allocated' = allocated \cup {Probed}
    BY <1>11 DEF TakeFree
  <2>2. Probed \in Usable
    <3>1. Probed \in 2..MaxOffset
      BY ScanArithmetic DEF Inv
    <3>2. Gateway \in allocated
      BY DEF Inv, ReservedHeld
    <3> QED BY <2>1, <3>1, <3>2 DEF Usable
  <2>3. OneScan'
    BY <1>1, <1>4, <1>7, <1>10, <2>1, <2>2 DEF OneScan
  <2>4. AddressesOwned'
    <3>1. Address(i)' = Probed
      BY <1>9, <2>1
    <3>2. \A j \in Ids \ {i} : Address(j) \in Usable => Address(j) \in allocated
      BY <1>1, <1>4 DEF AddressesOwned
    <3>3. \A j, k \in Ids : Address(j)' \in Usable /\ Address(j)' = Address(k)' => j = k
      BY <1>1, <1>8, <2>1, <2>2, <3>1, <3>2 DEF AddressesOwned
    <3>4. \A j \in Ids : Address(j)' \in Usable => Address(j)' \in allocated'
      BY <1>8, <2>1, <3>1, <3>2
    <3>5. ASSUME NEW a \in Usable \cap allocated' PROVE \E j \in Ids : Address(j)' = a
      <4>1. CASE a = Probed
        BY <1>6, <3>1, <4>1
      <4>2. CASE a # Probed
        <5>1. PICK j \in Ids : Address(j) = a
          BY <1>1, <2>1, <4>2 DEF AddressesOwned
        <5> QED BY <1>8, <1>9, <1>10, <5>1
      <4> QED BY <4>1, <4>2
    <3> QED BY <1>10, <3>3, <3>4, <3>5 DEF AddressesOwned
  <2> QED BY <1>2, <2>3, <2>4 DEF WorkspacesInv
<1>12. CASE MoveOn \/ GiveUp
  <2>1. /\ allocated' = allocated
        /\ \/ scanning' = scanning /\ reply' = reply
           \/ scanning' = FALSE /\ reply' = Exhausted
    BY <1>12 DEF MoveOn, GiveUp
  <2>2. OneScan'
    BY <1>1, <1>3, <1>4, <1>5, <1>7, <1>10, <2>1 DEF OneScan
  <2>3. Address(i)' \notin Usable /\ Address(i) \notin Usable
    BY <1>3, <1>9, <1>10, <2>1
  <2>4. \A j \in Ids : Address(j)' = Address(j)
                       \/ (Address(j)' \notin Usable /\ Address(j) \notin Usable)
    BY <1>8, <2>3
  <2>5. UNCHANGED <<allocated, loading>>
    BY <1>4, <2>1
  <2> QED BY <1>1, <1>2, <2>2, <2>4, <2>5, AddressesKept DEF WorkspacesInv
<1> QED BY <1>11, <1>12 DEF Scan

\* A restored address is that of its workspace.
LEMMA RestoreKeeps ==
  ASSUME Restoring, WorkspacesInv, NEW i \in Ids, RestoreIp(i)
  PROVE  WorkspacesInv'
<1>1. NetTypeOK /\ OneCallEach /\ AllFit /\ OneScan /\ AddressesOwned
  BY DEF WorkspacesInv
<1>2. /\ UNCHANGED <<entries, rules, taps, lock, calls, unruled, scanning, reply>>
      /\ i \in loading /\ loading' = loading \ {i}
      /\ allocated' = allocated \cup {entries[i].ip}
  BY DEF RestoreIp, MarkAllocated
<1>3. NetTypeOK' /\ OneCallEach' /\ AllFit' /\ \A j \in Ids : CallOn(j)' = CallOn(j)
  BY <1>1, <1>2, QuietWorkspaces
<1>4. /\ \A t \in Tasks : calls[t] = None
      /\ entries[i] # None
  BY <1>2 DEF Restoring
<1>5. Address(i) = entries[i].ip
  BY <1>4, CallOnNone DEF Address, AddressOf
<1>6. \A j \in Ids : Address(j)' = Address(j)
  BY <1>2, <1>3 DEF Address, AddressOf
<1>7. OneScan'
  <2>1. \A t \in Tasks : ~At(t, "scan")'
    BY <1>2, <1>4 DEF At
  <2>2. ~scanning
    BY DEF RestoreIp, MarkAllocated
  <2> QED BY <1>2, <2>1, <2>2 DEF OneScan
<1>8. Usable' = Usable
  BY DEF Usable, MaxOffset
<1>9. \A j, k \in Ids : Address(j)' \in Usable /\ Address(j)' = Address(k)' => j = k
  BY <1>1, <1>6 DEF AddressesOwned
<1>10. \A j \in Ids \ loading' : Address(j)' \in Usable => Address(j)' \in allocated'
  BY <1>1, <1>2, <1>5, <1>6 DEF AddressesOwned
<1>11. ASSUME NEW a \in Usable \cap allocated' PROVE \E j \in Ids : Address(j)' = a
  BY <1>1, <1>2, <1>5, <1>6 DEF AddressesOwned
<1> QED BY <1>3, <1>7, <1>8, <1>9, <1>10, <1>11 DEF WorkspacesInv, AddressesOwned

\* What the file holds is in order, and nothing else is there yet.
LEMMA InitWorkspaces == NetInit => WorkspacesInv
<1> SUFFICES ASSUME NetInit PROVE WorkspacesInv
  OBVIOUS
<1>1. PICK saved \in SUBSET Ids : \E ip \in [saved -> Usable], policy \in [saved -> Policies] :
        /\ \A i, j \in saved : ip[i] = ip[j] => i = j
        /\ entries = [i \in Ids |-> IF i \in saved THEN Entry(ip[i], FALSE, policy[i], {}) ELSE None]
        /\ loading = saved
        /\ taps \in SUBSET saved
  BY DEF NetInit
<1>2. PICK ip \in [saved -> Usable], policy \in [saved -> Policies] :
        /\ \A i, j \in saved : ip[i] = ip[j] => i = j
        /\ entries = [i \in Ids |-> IF i \in saved THEN Entry(ip[i], FALSE, policy[i], {}) ELSE None]
        /\ loading = saved
        /\ taps \in SUBSET saved
  BY <1>1
<1>3. /\ rules = {} /\ unruled = {} /\ lock = [writer |-> None, readers |-> {}]
      /\ calls = [t \in Tasks |-> None] /\ ~scanning /\ allocated = {0, Gateway}
  BY DEF NetInit, Init
<1>4. ASSUME NEW i \in saved
      PROVE  /\ i \in Ids /\ entries[i] \in EntryRecords /\ entries[i] # None
             /\ entries[i].ip = ip[i] /\ ~entries[i].up
  <2>1. entries[i] = Entry(ip[i], FALSE, policy[i], {}) /\ ip[i] \in Usable /\ policy[i] \in Policies
    BY <1>2, <1>4
  <2>2. \A a \in Usable, p \in Policies : Entry(a, FALSE, p, {}) \in EntryRecords
    BY DEF Entry, EntryRecords
  <2> QED BY <1>4, <2>1, <2>2, NetworkAssumption DEF Entry
<1>5. \A i \in Ids \ saved : entries[i] = None
  BY <1>2
<1>6. \A i : CallOn(i) = None
  BY <1>3 DEF CallOn
<1>7. NetTypeOK
  <2>1. entries = [i \in Ids |-> entries[i]]
    BY <1>2
  <2>2. entries \in [Ids -> EntryRecords \cup {None}]
    BY <1>4, <1>5, <2>1
  <2> QED BY <1>2, <1>3, <2>2 DEF NetTypeOK
<1>8. OneCallEach /\ OneScan
  BY <1>3 DEF OneCallEach, OneScan, At
<1>9. AllFit
  <2> SUFFICES ASSUME NEW i \in Ids
               PROVE  Fits(i, entries[i], None, {}, i \in taps, i \notin unruled)
    BY <1>3, <1>6 DEF AllFit, OwnRules
  <2>1. i \in taps => entries[i] # None
    BY <1>2, <1>4
  <2>2. entries[i] # None => ~entries[i].up
    BY <1>4, <1>5
  <2> QED BY <2>1, <2>2 DEF Fits, CallFits, TapFits, RulesFit, ForwardsFit, PolicyFits
<1>10. AddressesOwned
  <2>1. \A i \in Ids : Address(i) = IF i \in saved THEN ip[i] ELSE None
    BY <1>4, <1>5, <1>6 DEF Address, AddressOf
  <2>2. None \notin Usable /\ Usable \cap allocated = {}
    BY <1>3, NetworkAssumption, LastAssumption DEF Usable, MaxOffset
  <2> QED BY <1>2, <2>1, <2>2 DEF AddressesOwned
<1> QED BY <1>7, <1>8, <1>9, <1>10 DEF WorkspacesInv
-----------------------------------------------------------------------------
(* All steps, and what follows from the invariant.                             *)

\* Every step of a call keeps the invariant: the action gives the lemma.
LEMMA StepKeepsWorkspaces ==
  ASSUME Restoring, WorkspacesInv, NEW t \in Tasks, Step(t)
  PROVE  WorkspacesInv'
<1>1. calls[t] # None
  BY DEF Step, At, SetupAddress, SetupTap, SetupRules, Boot, SweepForward, SweepPostrouting,
     SweepPrerouting, Apply, StopVm, Cleanup, TakeDown, Forget, BeginReading, EnsureTap,
     ForwardPort, UnforwardPort, Record
<1>2. PICK c : c = calls[t]
  OBVIOUS
<1>3. PICK i : i = c.id
  OBVIOUS
<1>4. PICK e : e = entries[i]
  OBVIOUS
<1>5. Here(t, c, i, e)
  BY <1>1, <1>2, <1>3, <1>4 DEF Here
<1>6. /\ WellFormed(c) /\ (c.op = "create" <=> e = None) /\ i \in Ids
      /\ (c.op = "create" <=> i \notin Registered)
  BY <1>4, <1>5, HereFits DEF Registered
<1>7. /\ taps \subseteq Ids /\ taps \cup {i} \subseteq Ids
  BY <1>6 DEF WorkspacesInv, NetTypeOK
<1>8. /\ unruled' = unruled => unruled' \ {i} = unruled \ {i}
      /\ (taps \cup {i}) \ {i} = taps \ {i} /\ (taps \ {i}) \ {i} = taps \ {i}
      /\ i \notin taps \ {i} /\ taps \ {i} \subseteq taps
  OBVIOUS
<1>10. CASE SetupAddress(t)
  <2>1. PICK d : d = IF reply = Exhausted THEN None ELSE [c EXCEPT !.at = "tap", !.ip = reply]
    OBVIOUS
  <2>2. c.at = "scan" /\ ~scanning /\ UNCHANGED <<vars, entries, rules, taps, loading, unruled>>
    BY <1>2, <1>10 DEF SetupAddress, At
  <2>3. calls' = [calls EXCEPT ![t] = d]
    BY <1>2, <1>10, <2>1 DEF SetupAddress, Returns, WorkspacesInv, NetTypeOK
  <2>4. IF reply = Exhausted THEN d = None /\ Unlock(t)
        ELSE d = [c EXCEPT !.at = "tap", !.ip = reply] /\ UNCHANGED lock
    BY <1>10, <2>1 DEF SetupAddress
  <2> QED BY <1>5, <2>2, <2>3, <2>4, EndsScan
<1>11. CASE SetupTap(t)
  <2>1. c.at = "tap" /\ UNCHANGED <<entries, rules, loading, unruled>> /\ c.op = "create"
    BY <1>2, <1>6, <1>11 DEF SetupTap, At, WellFormed
  <2>2. CASE taps' = taps \cup {i} /\ Goes(t, "applyNew") /\ UNCHANGED <<vars, lock>>
    <3>1. PICK d : d = [c EXCEPT !.at = "applyNew"]
      OBVIOUS
    <3>2. Later(c, d, "applyNew")
      BY <3>1 DEF Later, Places
    <3> QED BY <1>5, <2>1, <2>2, <3>2, SetupTapMakes
  <2>3. CASE Release(c.ip) /\ Unlock(t) /\ Returns(t) /\ UNCHANGED taps
    <3>1. i \notin taps
      BY <1>5, <2>1, HereFits DEF TapFits, Here
    <3> QED BY <1>5, <1>7, <2>1, <2>3, <3>1, Releasing
  <2> QED BY <1>2, <1>3, <1>11, <2>2, <2>3 DEF SetupTap
<1>12. CASE SetupRules(t)
  <2>1. c.at = "applyNew" /\ UNCHANGED <<entries, loading, unruled>> /\ Unlock(t) /\ c.op = "create"
    BY <1>2, <1>6, <1>12 DEF SetupRules, At, WellFormed
  <2>2. CASE /\ rules' = rules \cup RulesOf(i, c.ip, c.arg) /\ Goes(t, "boot")
             /\ UNCHANGED <<vars, taps>>
    <3>1. PICK d : d = [c EXCEPT !.at = "boot"]
      OBVIOUS
    <3>2. Later(c, d, "boot")
      BY <3>1 DEF Later, Places
    <3> QED BY <1>5, <2>1, <2>2, <3>2, Applying
  <2>3. CASE Release(c.ip) /\ taps' = taps \ {i} /\ Returns(t) /\ UNCHANGED rules
    BY <1>5, <1>7, <1>8, <2>1, <2>3, Releasing
  <2> QED BY <1>2, <1>3, <1>12, <2>2, <2>3 DEF SetupRules
<1>13. CASE Boot(t)
  <2>1. c.at = "boot" /\ UNCHANGED <<vars, rules, taps, lock, loading, unruled>>
    BY <1>2, <1>13 DEF Boot, At
  <2>2. CASE entries' = [entries EXCEPT ![i] = Entry(c.ip, TRUE, c.arg, {})] /\ Returns(t)
    <3>1. PICK f : f = Entry(c.ip, TRUE, c.arg, {})
      OBVIOUS
    <3> QED BY <1>5, <2>1, <2>2, <3>1, Registers
  <2>3. CASE Goes(t, "cleanup") /\ UNCHANGED entries
    <3>1. PICK d : d = [c EXCEPT !.at = "cleanup"]
      OBVIOUS
    <3>2. Later(c, d, "cleanup")
      BY <3>1 DEF Later, Places
    <3>3. WellFormed(d)
      BY <1>5, <1>6, <2>1, <3>2, LaterCall DEF WellFormed
    <3> QED BY <1>5, <1>7, <2>1, <2>3, <3>2, <3>3, Arriving
  <2> QED BY <1>2, <1>3, <1>13, <2>2, <2>3 DEF Boot
<1>14. CASE SweepForward(t) \/ SweepPostrouting(t) \/ SweepPrerouting(t)
  <2>1. UNCHANGED <<vars, entries, taps, lock, loading>>
    BY <1>14 DEF SweepForward, SweepPostrouting, SweepPrerouting
  <2>2. PICK place \in Places, chain \in {"forward", "postrouting", "prerouting"} :
          /\ Sweep(t, chain) /\ Goes(t, place)
          /\ \/ /\ c.at = "sweepForward" /\ chain = "forward" /\ place = "sweepPostrouting"
                /\ unruled' = unruled \cup {i}
             \/ /\ c.at = "sweepPostrouting" /\ chain = "postrouting" /\ place = "sweepPrerouting"
                /\ unruled' = unruled
             \/ /\ c.at = "sweepPrerouting" /\ chain = "prerouting"
                /\ place = IF c.op \in {"create", "destroy"} THEN "takeDown" ELSE "apply"
                /\ unruled' = unruled
    BY <1>2, <1>3, <1>14 DEF SweepForward, SweepPostrouting, SweepPrerouting, At, Places
  <2>3. PICK d : d = [c EXCEPT !.at = place]
    OBVIOUS
  <2>4. Later(c, d, place)
    BY <2>3 DEF Later
  <2> QED BY <1>5, <2>1, <2>2, <2>4, Sweeping
<1>15. CASE Apply(t)
  <2>1. c.at = "apply" /\ UNCHANGED <<vars, entries, loading>> /\ Unlock(t)
    BY <1>2, <1>15 DEF Apply, At
  <2>2. CASE /\ rules' = rules \cup RulesOf(i, c.ip, c.arg) /\ unruled' = unruled \ {i}
             /\ Goes(t, "record") /\ UNCHANGED taps
    <3>1. PICK d : d = [c EXCEPT !.at = "record"]
      OBVIOUS
    <3>2. Later(c, d, "record")
      BY <3>1 DEF Later, Places
    <3> QED BY <1>5, <2>1, <2>2, <3>2, Applying
  <2>3. CASE /\ taps' = IF c.op = "start" THEN taps \ {i} ELSE taps
             /\ Returns(t) /\ UNCHANGED <<rules, unruled>>
    <3>1. taps' \subseteq taps /\ taps' \ {i} = taps \ {i}
      BY <2>3
    <3> QED BY <1>5, <2>1, <2>3, <3>1, Failing
  <2> QED BY <1>2, <1>3, <1>15, <2>2, <2>3 DEF Apply
<1>16. CASE StopVm(t)
  <2>1. /\ c.at = "stopVm" /\ Goes(t, "cleanup")
        /\ UNCHANGED <<vars, rules, taps, lock, loading, unruled>>
    BY <1>2, <1>16 DEF StopVm, At
  <2>2. i \in Registered
    BY <1>6, <2>1 DEF WellFormed
  <2>3. PICK f : f = [e EXCEPT !.up = FALSE]
    OBVIOUS
  <2>4. entries' = [entries EXCEPT ![i] = f]
    BY <1>2, <1>3, <1>4, <1>16, <2>2, <2>3 DEF StopVm
  <2>5. PICK d : d = [c EXCEPT !.at = "cleanup"]
    OBVIOUS
  <2>6. Later(c, d, "cleanup")
    BY <2>5 DEF Later, Places
  <2> QED BY <1>5, <2>1, <2>3, <2>4, <2>6, Stopping
<1>17. CASE Cleanup(t) \/ BeginReading(t)
  <2>1. /\ c.at \in {"cleanup", "readLock"} /\ (WriteLock(t) \/ ReadLock(t))
        /\ UNCHANGED <<vars, entries, rules, taps, loading, unruled>>
    BY <1>2, <1>17 DEF Cleanup, BeginReading, At
  <2>2. PICK place \in {"sweepForward", "ensureTap", "forward", "unforward"} :
          /\ Goes(t, place)
          /\ c.at = "cleanup" => place = "sweepForward"
          /\ c.at = "readLock" => place = AfterLock(c.op)
    BY <1>2, <1>6, <1>17, <2>1 DEF Cleanup, BeginReading, At, AfterLock, WellFormed
  <2>3. PICK d : d = [c EXCEPT !.at = place]
    OBVIOUS
  <2>4. Later(c, d, place)
    BY <2>3 DEF Later, Places
  <2>5. WellFormed(d)
    BY <1>5, <1>6, <2>1, <2>2, <2>4, LaterCall DEF WellFormed, AfterLock
  <2> QED BY <1>5, <1>7, <2>1, <2>2, <2>4, <2>5, Arriving
<1>18. CASE TakeDown(t)
  <2>1. c.at = "takeDown" /\ UNCHANGED <<entries, rules, loading>> /\ Unlock(t)
        /\ taps' = taps \ {i} /\ unruled' = unruled \ {i}
    BY <1>2, <1>3, <1>18 DEF TakeDown, At
  <2>2. Release(c.ip)
    <3>1. c.ip \in allocated
      BY <1>5, <2>1, OwnAddress
    <3> QED BY <1>2, <1>18, <3>1 DEF TakeDown
  <2>3. PICK d : d = IF c.op = "create" THEN None ELSE [c EXCEPT !.at = "forget"]
    OBVIOUS
  <2>4. IF c.op = "create" THEN d = None /\ Returns(t) ELSE Later(c, d, "forget") /\ Goes(t, "forget")
    BY <1>2, <1>18, <2>3 DEF TakeDown, Later, Places
  <2>5. i \notin taps' /\ taps' \subseteq Ids /\ taps' \ {i} = taps \ {i} /\ unruled' \ {i} = unruled \ {i}
    BY <1>7, <2>1
  <2> QED BY <1>5, <2>1, <2>2, <2>4, <2>5, Releasing
<1>19. CASE Forget(t)
  <2>1. /\ c.at = "forget" /\ Returns(t) /\ entries' = [entries EXCEPT ![i] = None]
        /\ UNCHANGED <<vars, rules, taps, lock, loading, unruled>>
    BY <1>2, <1>3, <1>19 DEF Forget, At
  <2> QED BY <1>5, <2>1, Forgets
<1>20. CASE EnsureTap(t)
  <2>1. c.at = "ensureTap" /\ UNCHANGED <<vars, entries, rules, loading, unruled>>
    BY <1>2, <1>20 DEF EnsureTap, At
  <2>2. CASE taps' = taps \cup {i} /\ Goes(t, "sweepForward") /\ UNCHANGED lock
    <3>1. PICK d : d = [c EXCEPT !.at = "sweepForward"]
      OBVIOUS
    <3>2. Later(c, d, "sweepForward")
      BY <3>1 DEF Later, Places
    <3>3. WellFormed(d)
      BY <1>5, <1>6, <2>1, <3>2, LaterCall DEF WellFormed
    <3> QED BY <1>5, <1>7, <1>8, <2>1, <2>2, <3>2, <3>3, Arriving
  <2>3. CASE taps' = taps \ {i} /\ Unlock(t) /\ Returns(t)
    BY <1>5, <1>8, <2>1, <2>3, Failing
  <2> QED BY <1>2, <1>3, <1>20, <2>2, <2>3 DEF EnsureTap
<1>21. CASE ForwardPort(t)
  <2>1. c.at = "forward" /\ UNCHANGED <<vars, entries, taps, loading, unruled>> /\ Unlock(t)
    BY <1>2, <1>21 DEF ForwardPort, At
  <2>2. CASE rules' = rules \cup ForwardRules(i, c.ip, c.arg) /\ Goes(t, "record")
    <3>1. PICK d : d = [c EXCEPT !.at = "record"]
      OBVIOUS
    <3>2. Later(c, d, "record")
      BY <3>1 DEF Later, Places
    <3> QED BY <1>5, <2>1, <2>2, <3>2, Forwarded
  <2>3. CASE Returns(t) /\ UNCHANGED rules
    BY <1>5, <2>1, <2>3, Failing
  <2> QED BY <1>2, <1>3, <1>21, <2>2, <2>3 DEF ForwardPort
<1>22. CASE UnforwardPort(t)
  <2>1. /\ c.at = "unforward" /\ UNCHANGED <<vars, entries, taps, loading, unruled>> /\ Unlock(t)
        /\ rules' = rules \ Unforwarded(c) /\ Goes(t, "record")
    BY <1>2, <1>22 DEF UnforwardPort, At
  <2>2. PICK d : d = [c EXCEPT !.at = "record"]
    OBVIOUS
  <2>3. Later(c, d, "record")
    BY <2>2 DEF Later, Places
  <2> QED BY <1>5, <2>1, <2>3, Forwarded
<1>23. CASE Record(t)
  <2>1. /\ c.at = "record" /\ Returns(t)
        /\ UNCHANGED <<vars, rules, taps, lock, loading, unruled>>
    BY <1>2, <1>23 DEF Record, At
  <2>2. i \in Registered
    BY <1>6, <2>1 DEF WellFormed
  <2>3. CASE entries' = [entries EXCEPT ![i] = Recorded(@, c)]
    <3>1. PICK f : f = Recorded(e, c)
      OBVIOUS
    <3>2. entries' = [entries EXCEPT ![i] = f]
      BY <1>4, <2>3, <3>1
    <3> QED BY <1>5, <2>1, <3>1, <3>2, Recording
  <2>4. CASE c.op = "start" /\ UNCHANGED entries
    BY <1>5, <2>1, <2>4, Failing
  <2> QED BY <1>2, <1>3, <1>23, <2>2, <2>3, <2>4 DEF Record
<1> QED
  BY <1>10, <1>11, <1>12, <1>13, <1>14, <1>15, <1>16, <1>17, <1>18, <1>19, <1>20, <1>21, <1>22,
     <1>23 DEF Step

\* Nothing happens.
LEMMA WorkspacesUnchanged == WorkspacesInv /\ UNCHANGED allVars => WorkspacesInv'
<1> SUFFICES ASSUME WorkspacesInv, UNCHANGED allVars PROVE WorkspacesInv'
  OBVIOUS
<1>1. NetTypeOK /\ OneCallEach /\ AllFit /\ OneScan /\ AddressesOwned
  BY DEF WorkspacesInv
<1>2. /\ UNCHANGED <<entries, rules, taps, lock, calls, loading, unruled>>
      /\ UNCHANGED <<allocated, scanning, reply>>
  BY DEF allVars, netVars, vars
<1>3. NetTypeOK' /\ OneCallEach' /\ AllFit' /\ \A j \in Ids : CallOn(j)' = CallOn(j)
  BY <1>1, <1>2, QuietWorkspaces
<1>4. \A j \in Ids : Address(j)' = Address(j)
  BY <1>2, <1>3 DEF Address, AddressOf
<1>5. AddressesOwned'
  BY <1>1, <1>2, <1>4, AddressesKept
<1>6. OneScan'
  BY <1>1, <1>2 DEF OneScan, At, Usable, MaxOffset
<1> QED BY <1>3, <1>5, <1>6 DEF WorkspacesInv

\* Every step keeps it, while calls on one workspace follow one another.
LEMMA NextKeepsWorkspaces ==
  ASSUME OneCallAtATime
  PROVE  NetIInv /\ [NetNext]_allVars => WorkspacesInv'
<1> SUFFICES ASSUME Inv, Restoring, WorkspacesInv, [NetNext]_allVars PROVE WorkspacesInv'
  BY DEF NetIInv
<1>1. CASE UNCHANGED allVars
  BY <1>1, WorkspacesUnchanged
<1>2. CASE Scan /\ UNCHANGED netVars
  BY <1>2, ScanKeeps
<1>3. ASSUME NEW i \in Ids, RestoreIp(i) PROVE WorkspacesInv'
  BY <1>3, RestoreKeeps
<1>4. ASSUME NEW t \in Tasks, Step(t) PROVE WorkspacesInv'
  BY <1>4, StepKeepsWorkspaces
<1>5. ASSUME NEW t \in Tasks, NEW i \in Ids, Stop(t, i) PROVE WorkspacesInv'
  BY <1>5, StopEnds
<1>6. ASSUME NEW t \in Tasks, NEW i \in Ids, NEW policy \in Policies, Setup(t, i, policy)
      PROVE  WorkspacesInv'
  BY <1>6, SetupBegins
<1>7. ASSUME NEW t \in Tasks, NEW i \in Ids, Start(t, i) \/ Destroy(t, i) PROVE WorkspacesInv'
  BY <1>7, CallBegins DEF Start, Destroy
<1>8. ASSUME NEW t \in Tasks, NEW i \in Ids, NEW policy \in Policies, UpdatePolicy(t, i, policy)
      PROVE  WorkspacesInv'
  BY <1>8, CallBegins DEF UpdatePolicy
<1>9. ASSUME NEW t \in Tasks, NEW i \in Ids, NEW h \in Ports, NEW g \in Ports,
             AddForward(t, i, <<h, g>>)
      PROVE  WorkspacesInv'
  BY <1>9, CallBegins DEF AddForward
<1>10. ASSUME NEW t \in Tasks, NEW i \in Ids, NEW g \in Ports, RemoveForward(t, i, g)
       PROVE  WorkspacesInv'
  BY <1>10, CallBegins DEF RemoveForward
<1> QED BY <1>1, <1>2, <1>3, <1>4, <1>5, <1>6, <1>7, <1>8, <1>9, <1>10 DEF NetNext

\* A registered workspace has the address that is recorded of it until it is
\* about to be forgotten, and every rule is for the address of its workspace.
LEMMA RecordedAddress ==
  ASSUME WorkspacesInv, NEW i \in Registered, \A t \in Works(i) : calls[t].at # "forget"
  PROVE  Address(i) = entries[i].ip /\ entries[i].ip \in Usable
<1>1. entries[i] \in EntryRecords /\ entries[i] # None /\ i \in Ids
  BY DEF WorkspacesInv, NetTypeOK, Registered
<1>2. entries[i].ip \in Usable
  BY <1>1 DEF EntryRecords
<1>3. CASE CallOn(i) = None
  BY <1>1, <1>2, <1>3 DEF Address, AddressOf
<1>4. CASE CallOn(i) # None
  <2>1. PICK t \in Tasks : calls[t] # None /\ calls[t].id = i /\ CallOn(i) = calls[t]
    BY <1>4, CallOnOf
  <2>2. PICK c : c = calls[t]
    OBVIOUS
  <2>3. c.at # "forget" /\ c # None
    BY <2>1, <2>2 DEF Works
  <2>4. WellFormed(c) /\ (c.op = "create" <=> entries[i] = None)
        /\ (c.op # "create" => c.ip = entries[i].ip)
    BY <2>1, <2>2, AtWorkFits
  <2>5. c.at # "scan" /\ c.ip = entries[i].ip
    BY <1>1, <2>4 DEF WellFormed
  <2> QED BY <1>2, <2>1, <2>2, <2>3, <2>5, CallAddress DEF Address
<1> QED BY <1>3, <1>4

\* A rule is for the address of its workspace.
LEMMA RuleAddress ==
  ASSUME WorkspacesInv, NEW r \in rules
  PROVE  r.owner \in Ids /\ r.ip = Address(r.owner)
<1>1. PICK i \in Ids : i = r.owner
  BY DEF WorkspacesInv, NetTypeOK
<1>2. r \in OwnRules(i) /\ RulesFit(entries[i], CallOn(i), OwnRules(i))
  BY <1>1 DEF WorkspacesInv, AllFit, Fits, OwnRules
<1>3. CASE CallOn(i) = None
  BY <1>1, <1>2, <1>3 DEF RulesFit, Address, AddressOf
<1>4. CASE CallOn(i) # None
  <2>1. PICK c : c = CallOn(i)
    OBVIOUS
  <2>2. c # None /\ r.ip = c.ip /\ c.at \notin {"scan", "forget"}
    BY <1>2, <1>4, <2>1 DEF RulesFit, Gone
  <2> QED BY <1>1, <2>1, <2>2, CallAddress DEF Address
<1> QED BY <1>3, <1>4

\* What is known of a workspace at rest.
LEMMA RestFits ==
  ASSUME WorkspacesInv, NEW i, AtRest(i)
  PROVE  /\ i \in Registered /\ i \in Ids /\ entries[i] # None
         /\ Address(i) = entries[i].ip /\ entries[i].ip \in Usable
         /\ RulesFit(entries[i], None, OwnRules(i)) /\ ForwardsFit(entries[i], None, OwnRules(i))
         /\ PolicyFits(i, entries[i], None, OwnRules(i), i \notin unruled)
<1>1. i \in Ids /\ i \in Registered /\ entries[i] # None /\ Works(i) = {}
  BY DEF AtRest, Registered
<1>2. CallOn(i) = None
  BY <1>1, CallOnNone DEF Works
<1>3. Fits(i, entries[i], None, OwnRules(i), i \in taps, i \notin unruled)
  BY <1>1, <1>2 DEF WorkspacesInv, AllFit
<1> QED BY <1>1, <1>3, RecordedAddress DEF Fits

\* The invariant implies NothingLeft.
LEMMA InvariantLeavesNothing == NetIInv => NothingLeft
<1> SUFFICES ASSUME Inv, Restoring, WorkspacesInv PROVE NothingLeft
  BY DEF NetIInv
<1> DEFINE working == {t \in Tasks : calls[t] # None}
<1> DEFINE held == {entries[i].ip : i \in Registered} \cup {calls[t].ip : t \in working}
<1> DEFINE asked == IF \E t \in working : calls[t].at = "scan" THEN {reply} ELSE {}
<1> DEFINE leaving == {i \in Registered : \E t \in Works(i) : calls[t].at = "forget"}
<1>1. AddressesOwned
  BY DEF WorkspacesInv
<1>2. \A i \in Registered \ leaving : i \in Ids /\ Address(i) = entries[i].ip /\ entries[i].ip \in Usable
  BY RecordedAddress DEF Registered
<1>3. \A i, j \in Registered \ leaving : entries[i].ip = entries[j].ip => i = j
  BY <1>1, <1>2 DEF AddressesOwned
<1>4. \A i \in Registered \ (loading \cup leaving) : entries[i].ip \in allocated
  BY <1>1, <1>2 DEF AddressesOwned
<1>5. ASSUME NEW a \in allocated, a \notin {0, Gateway} PROVE a \in held \cup asked
  <2>1. a \in Usable
    BY <1>5 DEF Inv, TypeOK
  <2>2. PICK i \in Ids : Address(i) = a
    BY <1>1, <2>1 DEF AddressesOwned
  <2>3. a # None
    BY <2>1, NetworkAssumption
  <2>4. CASE CallOn(i) = None
    <3>1. i \in Registered /\ entries[i].ip = a
      BY <2>2, <2>3, <2>4 DEF Address, AddressOf, Registered
    <3> QED BY <3>1
  <2>5. CASE CallOn(i) # None
    <3>1. PICK t \in Tasks : calls[t] # None /\ CallOn(i) = calls[t]
      BY <2>5, CallOnOf
    <3>2. a = IF calls[t].at = "scan" THEN (IF scanning THEN None ELSE reply)
              ELSE IF calls[t].at = "forget" THEN None ELSE calls[t].ip
      BY <2>2, <3>1 DEF Address, AddressOf
    <3> QED BY <2>3, <3>1, <3>2
  <2> QED BY <2>4, <2>5
<1>6. ASSUME NEW i \in Ids \ Registered, Works(i) = {}
      PROVE  i \notin taps /\ \A r \in rules : r.owner # i
  <2>1. CallOn(i) = None /\ entries[i] = None
    BY <1>6, CallOnNone DEF Works, Registered
  <2>2. Fits(i, None, None, OwnRules(i), i \in taps, i \notin unruled)
    BY <2>1 DEF WorkspacesInv, AllFit
  <2> QED BY <2>2 DEF Fits, TapFits, RulesFit, OwnRules
<1>7. ASSUME NEW r \in rules, AtRest(r.owner)
      PROVE  /\ r.ip = entries[r.owner].ip
             /\ r.kind \in {"dnat", "fwd"} => r.port \in entries[r.owner].forwards
  BY <1>7, RestFits DEF RulesFit, ForwardsFit, OwnRules, Forwarding
<1>8. allocated \subseteq {0, Gateway} \cup held \cup asked
  BY <1>5
<1> QED BY <1>3, <1>4, <1>6, <1>7, <1>8 DEF NothingLeft

\* A rule of another workspace is never for the address of this one.
LEMMA OwnRule ==
  ASSUME WorkspacesInv, NEW b, AtRest(b), NEW r \in rules, r.ip = entries[b].ip
  PROVE  r.owner = b /\ r \in OwnRules(b)
<1>1. r.owner \in Ids /\ Address(r.owner) = entries[b].ip
  BY RuleAddress
<1>2. b \in Ids /\ Address(b) = entries[b].ip /\ entries[b].ip \in Usable
  BY RestFits
<1>3. r.owner = b
  BY <1>1, <1>2 DEF WorkspacesInv, AddressesOwned
<1> QED BY <1>3 DEF OwnRules

\* A workspace at rest that is up and was not left without rules has those of
\* its recorded policy.
LEMMA PolicyInPlace ==
  ASSUME WorkspacesInv, NEW b, AtRest(b), Online(b), b \notin unruled,
         NEW kind \in {"isolate", "intervm", "internet", "nat"}
  PROVE  LET e == entries[b]
         IN /\ Rule(b, "antispoof", e.ip, None) \in rules
            /\ HasRule(kind, e.ip) <=>
                 \/ kind = "isolate" /\ ~e.policy.inter
                 \/ kind = "intervm" /\ e.policy.inter
                 \/ kind \in {"internet", "nat"} /\ e.policy.internet
<1> DEFINE e == entries[b]
<1> DEFINE P == RulesOf(b, e.ip, e.policy)
<1>1. {r \in OwnRules(b) : ~Forwarding(r)} = P
  BY RestFits DEF PolicyFits, Online
<1>2. P \subseteq rules
  BY <1>1 DEF OwnRules
<1>3. Rule(b, "antispoof", e.ip, None) \in P
  BY DEF RulesOf
<1>4. \A r \in rules : r.kind = kind /\ r.ip = e.ip => r \in P
  BY <1>1, OwnRule DEF Forwarding
<1>5. \A r \in P : r.kind = kind =>
        \/ kind = "isolate" /\ ~e.policy.inter
        \/ kind = "intervm" /\ e.policy.inter
        \/ kind \in {"internet", "nat"} /\ e.policy.internet
  BY DEF RulesOf, Rule
<1>6. ASSUME \/ kind = "isolate" /\ ~e.policy.inter
             \/ kind = "intervm" /\ e.policy.inter
             \/ kind \in {"internet", "nat"} /\ e.policy.internet
      PROVE  \E r \in P : r.kind = kind /\ r.ip = e.ip
  <2>1. Rule(b, kind, e.ip, None) \in P
    BY <1>6 DEF RulesOf
  <2>2. Rule(b, kind, e.ip, None).kind = kind /\ Rule(b, kind, e.ip, None).ip = e.ip
    BY DEF Rule
  <2> QED BY <2>1, <2>2
<1> QED BY <1>2, <1>3, <1>4, <1>5, <1>6 DEF HasRule

\* The invariant implies PolicyHolds.
LEMMA InvariantHoldsPolicy == NetIInv => PolicyHolds
<1> SUFFICES ASSUME WorkspacesInv, NEW b \in Ids, AtRest(b), Online(b), b \notin unruled
             PROVE  LET e == entries[b]
                    IN /\ Rule(b, "antispoof", e.ip, None) \in rules
                       /\ HasRule("internet", e.ip) <=> e.policy.internet
                       /\ HasRule("nat", e.ip) <=> e.policy.internet
                       /\ \A a \in Ids \ {b}, p \in Ports : Online(a) =>
                            /\ Passes(a, b, p) => e.policy.inter
                            /\ AtRest(a) /\ a \notin unruled /\ entries[a].policy.inter
                                 /\ e.policy.inter => Passes(a, b, p)
  BY DEF NetIInv, PolicyHolds
<1> DEFINE e == entries[b]
<1>1. Rule(b, "antispoof", e.ip, None) \in rules /\ (HasRule("internet", e.ip) <=> e.policy.internet)
  BY PolicyInPlace
<1>2. HasRule("nat", e.ip) <=> e.policy.internet
  BY PolicyInPlace
<1>3. HasRule("isolate", e.ip) <=> ~e.policy.inter
  BY PolicyInPlace
<1>4. ASSUME NEW a \in Ids \ {b}, NEW p \in Ports, Passes(a, b, p) PROVE e.policy.inter
  BY <1>3, <1>4 DEF Passes
<1>5. ASSUME NEW a \in Ids \ {b}, NEW p \in Ports, Online(a), AtRest(a), a \notin unruled,
             entries[a].policy.inter, e.policy.inter
      PROVE  Passes(a, b, p)
  <2>1. HasRule("intervm", entries[a].ip)
    BY <1>5, PolicyInPlace
  <2>2. \A r \in rules : r.owner = a => r.ip = entries[a].ip
    BY <1>5, RestFits DEF RulesFit, OwnRules
  <2> QED BY <1>3, <1>5, <2>1, <2>2 DEF Passes
<1> QED BY <1>1, <1>2, <1>4, <1>5

\* The inductive invariant of the network manager, while the calls on each
\* workspace follow one another.
LEMMA NetworkInductive == ASSUME OneCallAtATime PROVE NetSpec => []NetIInv
<1>1. NetInit => NetIInv
  BY InitEstablishesInv, InitRestoring, InitWorkspaces DEF NetInit, NetIInv
<1>2. NetIInv /\ [NetNext]_allVars => NetIInv'
  <2>1. Inv /\ Restoring /\ [NetNext]_allVars => Inv'
    BY CallersUseAllocator, StepKeepsInv
  <2> QED BY <2>1, RestoringStep, NextKeepsWorkspaces DEF NetIInv
<1> QED BY <1>1, <1>2, PTL DEF NetSpec

\* Creates that fail anywhere, destroys, starts and changes of policies and
\* forwards, on any number of workspaces at once: no address is given to two or
\* lost, no device, rule or open port outlives its workspace or its record.
THEOREM NetworkLeavesNothing == ASSUME OneCallAtATime PROVE NetSpec => []NothingLeft
<1>1. NetIInv => NothingLeft
  BY InvariantLeavesNothing
<1> QED BY <1>1, NetworkInductive, PTL

\* The firewall says what the recorded policy of a workspace says, whoever had
\* its address before and whatever is being done to others.
THEOREM NetworkHoldsPolicy == ASSUME OneCallAtATime PROVE NetSpec => []PolicyHolds
<1>1. NetIInv => PolicyHolds
  BY InvariantHoldsPolicy
<1> QED BY <1>1, NetworkInductive, PTL
=============================================================================
