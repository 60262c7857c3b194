----------------------------- MODULE GuestLink ------------------------------
(***************************************************************************)
(* vm/vsock.rs: the two connections the host shares between its requests   *)
(* to a guest, "relay" for messages and "main" for the results.            *)
(*                                                                         *)
(* Requests and responses carry no number.  A connection has a mutex: one  *)
(* request at a time writes, then reads what comes.  A request that times  *)
(* out lets go of the mutex and leaves its response to whoever reads next. *)
(* A connection that breaks is replaced and the request sent again, up to  *)
(* VSOCK_MAX_RETRIES times.                                                *)
(***************************************************************************)
EXTENDS GuestAgent

CONSTANTS
  Tasks,               \* concurrent tool calls
  VSOCK_MAX_RETRIES,   \* 2 in the code
  Faults,              \* "reset", "refuse" (a reconnect fails), "timeout"
  MaxFaults,           \* bound on how often they happen
  None

ASSUME LinkAssumption ==
  /\ VSOCK_MAX_RETRIES \in Nat /\ MaxFaults \in Nat /\ None \notin Tasks
  /\ Faults \subseteq {"reset", "refuse", "timeout"}

VARIABLES
  lock,        \* channel -> who holds its mutex, then those who wait
  link,        \* channel -> its connection: up, and what is under way on it
  late,        \* requests that the guest still serves for a connection that broke
  requests,    \* task -> None, or its request until it is answered
  reported,    \* the results that were read (for the properties)
  faults       \* how many faults there were

linkVars == <<lock, link, late, requests, reported, faults>>

Channels == {"relay", "main"}
Fresh == [up |-> TRUE, toGuest |-> <<>>, toHost |-> <<>>, desynced |-> FALSE]

\* What a request asks; "by" and "for" are the model's marks, not sent.
Push(msg) == [op |-> "push", msg |-> msg]
Poll(limit) == [op |-> "poll", limit |-> limit]
Response(t, results) == [for |-> t, results |-> results]

Asking(t) == requests[t] # None
\* Mistake: requests share the connection.
WrongHolds(t) == Asking(t)

Holds(t) == Asking(t) /\ lock[requests[t].channel] # <<>>
                      /\ Head(lock[requests[t].channel]) = t
Stands(t, stage) == Holds(t) /\ requests[t].stage = stage

LinkInit ==
  /\ GuestInit
  /\ lock = [ch \in Channels |-> <<>>]
  /\ link = [ch \in Channels |-> Fresh]
  /\ late = {} /\ reported = <<>> /\ faults = 0
  /\ requests = [t \in Tasks |-> None]
-----------------------------------------------------------------------------

Submit(t, ch, body) ==
  /\ lock' = [lock EXCEPT ![ch] = Append(@, t)]
  /\ requests' = [requests EXCEPT ![t] =
       [channel |-> ch, body |-> body, attempt |-> 0, stage |-> "ready"]]

Fail(kind) == kind \in Faults /\ faults < MaxFaults /\ faults' = faults + 1

\* Mistake: the mutex is kept.
WrongConclude(t, results) ==
  /\ requests' = [requests EXCEPT ![t] = None]
  /\ reported' = reported \o results /\ UNCHANGED lock

\* The request is over and lets go of the mutex.
Conclude(t, results) ==
  /\ requests' = [requests EXCEPT ![t] = None]
  /\ lock' = [lock EXCEPT ![requests[t].channel] = Tail(@)]
  /\ reported' = reported \o results

\* A transient error: once more, on another connection, or the last one.
Retry(t) ==
  IF requests[t].attempt < VSOCK_MAX_RETRIES
    THEN /\ requests' = [requests EXCEPT ![t].stage = "broken", ![t].attempt = @ + 1]
         /\ UNCHANGED <<lock, reported>>
    ELSE Conclude(t, <<>>)

Send(t) ==
  /\ Stands(t, "ready")
  /\ LET ch == requests[t].channel
     IN IF link[ch].up
          THEN /\ link' = [link EXCEPT ![ch].toGuest = Append(@, [by |-> t, body |-> requests[t].body])]
               /\ requests' = [requests EXCEPT ![t].stage = "sent"]
               /\ UNCHANGED <<lock, reported>>
          ELSE Retry(t) /\ UNCHANGED link
  /\ UNCHANGED <<guestVars, late, faults>>

\* Whatever response comes first on the connection.
Receive(t) ==
  /\ Stands(t, "sent")
  /\ LET ch == requests[t].channel
     IN \/ /\ link[ch].toHost # <<>>
           /\ Conclude(t, Head(link[ch].toHost).results)
           /\ link' = [link EXCEPT ![ch].toHost = Tail(@)]
        \/ ~link[ch].up /\ Retry(t) /\ UNCHANGED link
  /\ UNCHANGED <<guestVars, late, faults>>

Reconnect(t) ==
  /\ Stands(t, "broken")
  /\ \/ /\ link' = [link EXCEPT ![requests[t].channel] = Fresh]
        /\ requests' = [requests EXCEPT ![t].stage = "ready"]
        /\ UNCHANGED <<lock, reported, faults>>
     \/ Fail("refuse") /\ Retry(t) /\ UNCHANGED link
  /\ UNCHANGED <<guestVars, late>>

\* Ten seconds after it got the mutex, whatever it was doing.
Timeout(t) ==
  /\ Holds(t) /\ Fail("timeout")
  /\ Conclude(t, <<>>)
  /\ link' = IF requests[t].stage = "sent"
               THEN [link EXCEPT ![requests[t].channel].desynced = TRUE] ELSE link
  /\ UNCHANGED <<guestVars, late>>

-----------------------------------------------------------------------------
\* The guest: what a request makes it do, and what it answers.

Do(body) == IF body.op = "push" THEN Store(body.msg) ELSE Drain(body.limit)
Results(body) == IF body.op = "push" THEN <<>> ELSE Drained(body.limit)

\* Mistake: the request stays to be served again.
WrongServe(ch) ==
  /\ link[ch].toGuest # <<>>
  /\ LET r == Head(link[ch].toGuest)
     IN /\ Do(r.body)
        /\ link' = [link EXCEPT ![ch].toHost = Append(@, Response(r.by, Results(r.body)))]
  /\ UNCHANGED <<lock, late, requests, reported, faults>>

Serve(ch) ==
  /\ link[ch].toGuest # <<>>
  /\ LET r == Head(link[ch].toGuest)
     IN /\ Do(r.body)
        /\ link' = [link EXCEPT ![ch].toGuest = Tail(@),
                                ![ch].toHost = Append(@, Response(r.by, Results(r.body)))]
  /\ UNCHANGED <<lock, late, requests, reported, faults>>

\* The connection breaks, and what was under way is lost, but for the request
\* that the guest has read and not answered.
Reset(ch) ==
  /\ link[ch].up /\ Fail("reset")
  /\ link' = [link EXCEPT ![ch] = [Fresh EXCEPT !.up = FALSE]]
  /\ \/ link[ch].toGuest # <<>> /\ late' = late \cup {Head(link[ch].toGuest)}
     \/ UNCHANGED late
  /\ UNCHANGED <<guestVars, lock, requests, reported>>

ServeLate(r) ==
  /\ r \in late /\ late' = late \ {r}
  /\ Do(r.body)
  /\ UNCHANGED <<lock, link, requests, reported, faults>>

Client(t) == Send(t) \/ Receive(t) \/ Reconnect(t)
Guest == (\E ch \in Channels : Serve(ch)) \/ (\E r \in late : ServeLate(r))
=============================================================================
