------------------------------- MODULE IpPool -------------------------------
(***************************************************************************)
(* What the guest address allocator promises its callers, whatever its     *)
(* search order: an address that is handed out was leased to nobody, a     *)
(* request is refused only when every usable address is leased, and        *)
(* nothing but a release or a restore changes the leases otherwise.        *)
(***************************************************************************)
CONSTANTS
  Usable,      \* addresses that may be leased to a guest
  NoReply,     \* no request has been answered yet
  Exhausted    \* the answer "IP address pool exhausted"

VARIABLES
  leased,      \* addresses currently leased
  reply        \* answer to the latest allocation request

vars == <<leased, reply>>

Init ==
  /\ leased = {}
  /\ reply = NoReply

Lease(a) ==
  /\ a \notin leased
  /\ leased' = leased \cup {a}
  /\ reply' = a

Refuse ==
  /\ leased = Usable
  /\ reply' = Exhausted
  /\ UNCHANGED leased

Release(a) ==
  /\ leased' = leased \ {a}
  /\ UNCHANGED reply

\* A lease read back from the state file after a restart of the daemon.
Restore(a) ==
  /\ leased' = leased \cup {a}
  /\ UNCHANGED reply

Next ==
  \/ \E a \in Usable : Lease(a) \/ Release(a) \/ Restore(a)
  \/ Refuse

Spec == Init /\ [][Next]_vars
=============================================================================
