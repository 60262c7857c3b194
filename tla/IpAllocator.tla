---------------------------- MODULE IpAllocator ----------------------------
(***************************************************************************)
(* network/dhcp.rs: the sequential allocator of guest addresses in a /16.  *)
(* An address is its 16-bit offset in the subnet.  Offset 0 is the network *)
(* address, Last (0xFFFF in the code) the broadcast address.  allocate()   *)
(* is a scan from next_candidate that wraps around; each iteration of its  *)
(* loop is a step here, so that its termination is a property and not an   *)
(* assumption.  The allocator is owned by the NetworkManager, whose write  *)
(* lock its callers hold: no release interleaves with a scan.              *)
(***************************************************************************)
EXTENDS Integers

CONSTANTS
  Last,        \* the largest offset: u16::MAX
  Gateway,     \* offset of the bridge address, reserved
  NoReply,
  Exhausted

ASSUME LastAssumption == Last \in Nat /\ Last >= 4
ASSUME GatewayAssumption == Gateway \in 1..(Last - 1)
ASSUME ReplyAssumption == NoReply \notin 0..Last /\ Exhausted \notin 0..Last

VARIABLES
  allocated,       \* the BTreeSet of offsets in use, reserved ones included
  next_candidate,  \* where the next scan starts
  scanning,        \* a call of allocate() is inside its loop
  start,           \* its local: where the scan started; 2 outside of it
  offset,          \* its local: the offset about to be looked at; 2 outside of it
  reply            \* what the latest call of allocate() returned

vars == <<allocated, next_candidate, scanning, start, offset, reply>>

MaxOffset == Last - 1

\* wrapping_add(1) on a u16
Succ(o) == IF o = Last THEN 0 ELSE o + 1

Init ==
  /\ allocated = {0, Gateway}
  /\ next_candidate = 2
  /\ scanning = FALSE
  /\ start = 2
  /\ offset = 2
  /\ reply = NoReply

Allocate ==
  /\ ~scanning
  /\ scanning' = TRUE
  /\ start' = next_candidate
  /\ offset' = next_candidate
  /\ UNCHANGED <<allocated, next_candidate, reply>>

\* An operator whose name begins with Wrong is a mistake one could make in the
\* operation defined after it; no behaviour of Spec takes it, and each property
\* is shown to notice one.
WrongProbed == IF offset = 0 THEN 2 ELSE offset  \* looks at the broadcast address

\* The offset an iteration looks at, and the one it moves on to.
Probed == IF offset = 0 \/ offset > MaxOffset THEN 2 ELSE offset
Following == IF Succ(Probed) = 0 THEN 2 ELSE Succ(Probed)

WrongTakeFree ==  \* every scan starts at the beginning
  /\ scanning
  /\ Probed \notin allocated
  /\ allocated' = allocated \cup {Probed}
  /\ next_candidate' = 2
  /\ reply' = Probed
  /\ scanning' = FALSE /\ start' = 2 /\ offset' = 2

TakeFree ==
  /\ scanning
  /\ Probed \notin allocated
  /\ allocated' = allocated \cup {Probed}
  /\ next_candidate' = Succ(Probed)
  /\ reply' = Probed
  /\ scanning' = FALSE /\ start' = 2 /\ offset' = 2

MoveOn ==
  /\ scanning
  /\ Probed \in allocated
  /\ Following # start
  /\ offset' = Following
  /\ UNCHANGED <<allocated, next_candidate, scanning, start, reply>>

GiveUp ==
  /\ scanning
  /\ Probed \in allocated
  /\ Following = start
  /\ reply' = Exhausted
  /\ scanning' = FALSE /\ start' = 2 /\ offset' = 2
  /\ UNCHANGED <<allocated, next_candidate>>

Scan == TakeFree \/ MoveOn \/ GiveUp

Releasable(o) == o \notin {0, Gateway, Last}

Release(o) ==
  /\ ~scanning
  /\ Releasable(o)
  /\ o \in allocated
  /\ allocated' = allocated \ {o}
  /\ next_candidate' = IF o < next_candidate THEN o ELSE next_candidate
  /\ UNCHANGED <<scanning, start, offset, reply>>

WrongMarkAllocated(o) ==  \* the candidate stays on the restored address
  /\ ~scanning
  /\ allocated' = allocated \cup {o}
  /\ next_candidate' = IF o > next_candidate THEN Succ(o) ELSE next_candidate
  /\ UNCHANGED <<scanning, start, offset, reply>>

\* The state file holds addresses this allocator handed out before a restart,
\* possibly under another gateway: never 0, 1 or Last.
MarkAllocated(o) ==
  /\ ~scanning
  /\ allocated' = allocated \cup {o}
  /\ next_candidate' = IF o >= next_candidate THEN Succ(o) ELSE next_candidate
  /\ UNCHANGED <<scanning, start, offset, reply>>

Next ==
  \/ Allocate
  \/ Scan
  \/ \E o \in 0..Last : Release(o)
  \/ \E o \in 2..MaxOffset : MarkAllocated(o)

\* allocate() is a synchronous loop: once called it keeps running.
Spec == Init /\ [][Next]_vars /\ WF_vars(Scan)

-----------------------------------------------------------------------------
\* Addresses a guest may get.
Usable == (2..MaxOffset) \ {Gateway}

TypeOK ==
  /\ allocated \subseteq {0, Gateway} \cup Usable
  /\ next_candidate \in 2..Last
  /\ scanning \in BOOLEAN
  /\ start \in 2..Last
  /\ offset \in 2..Last
  /\ reply \in (2..MaxOffset) \cup {NoReply, Exhausted}

\* The reserved addresses stay reserved: neither a release nor a restored
\* lease ever makes the network or the gateway address available to a guest.
ReservedHeld == {0, Gateway} \subseteq allocated

\* next_candidate returns to 2 only when 2 is free (or, before the first
\* lease, when the gateway itself is 2 and nothing else is leased).  The scan
\* never compares its first offset with start before it has moved, so a scan
\* that starts at 2 with 2 taken and no other address free would not end.
StartsAtAFreeTwo ==
  next_candidate = 2 =>
    \/ 2 \notin allocated
    \/ Gateway = 2 /\ \A o \in 3..MaxOffset : o \notin allocated

\* Every offset the scan has passed is taken: it skips no free address.
PassedAreTaken ==
  scanning =>
    /\ start = next_candidate
    /\ offset > start => start..(offset - 1) \subseteq allocated
    /\ offset < start => (start..MaxOffset) \cup (2..(offset - 1)) \subseteq allocated

Inv == TypeOK /\ ReservedHeld /\ StartsAtAFreeTwo /\ PassedAreTaken

\* A call of allocate() returns, on an exhausted pool too.
AllocateReturns == scanning ~> ~scanning

\* The allocator keeps the promise of IpPool: no address is leased twice and
\* a request is refused only when no usable address is left.
Pool == INSTANCE IpPool WITH leased <- allocated \ {0, Gateway}
PoolSpec == Pool!Spec
=============================================================================
