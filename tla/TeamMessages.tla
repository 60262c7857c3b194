---------------------------- MODULE TeamMessages ----------------------------
(***************************************************************************)
(* team/message_relay.rs and the message and receive actions of the team   *)
(* tool (mcp/team_tools.rs), over the guest of one of the agents.          *)
(*                                                                         *)
(* A message is put into the inboxes that the relay keeps on the host, and *)
(* pushed to the guests that have a relay connection.  The agent Worker    *)
(* has one; the model follows its guest.                                   *)
(***************************************************************************)
EXTENDS GuestLink

CONSTANTS
  Agents, Worker,  \* the agents of the team, and the one whose guest is modelled
  Capacity,        \* DEFAULT_INBOX_CAPACITY, 100 in the code
  Limit,           \* how much one receive asks for
  Sends,           \* which messages are sent: [from, to, kind], to = "*" for all
  MaxMessages      \* bound on the messages

ASSUME MessagesAssumption ==
  /\ Worker \in Agents /\ Capacity \in Nat \ {0} /\ Limit \in Nat \ {0} /\ MaxMessages \in Nat
  /\ \A s \in Sends : s.from \in Agents /\ s.kind \in Kinds

VARIABLES
  mailbox,     \* agent -> what the relay keeps for it
  messages     \* how many messages there were

relayVars == <<mailbox, messages>>
vars == <<guestVars, linkVars, relayVars>>

Idle(t) == requests[t] = None

\* No message is stored more often than it is sent.
MaxArrivals == MaxMessages * (1 + VSOCK_MAX_RETRIES)

Init == LinkInit /\ mailbox = [a \in Agents |-> <<>>] /\ messages = 0
-----------------------------------------------------------------------------

\* MessageRelay::send, and the push.
Message(t, s) ==
  /\ Idle(t) /\ messages < MaxMessages
  /\ LET msg == [id |-> messages + 1, kind |-> s.kind]
         recipients == IF s.to = "*" THEN Agents \ {s.from} ELSE {s.to}
     IN /\ mailbox' = [a \in Agents |->
              IF a \notin recipients THEN mailbox[a]
              ELSE Append(IF Len(mailbox[a]) >= Capacity THEN Tail(mailbox[a]) ELSE mailbox[a], msg)]
        /\ IF Worker \in recipients THEN Submit(t, "relay", Push(msg))
           ELSE UNCHANGED <<lock, requests>>
  /\ messages' = messages + 1
  /\ UNCHANGED <<guestVars, link, late, reported, faults>>

\* MessageRelay::receive, and the poll of the daemon's results.  A push or a
\* poll that fails is only logged.
ReceiveMessages(t, a) ==
  /\ Idle(t)
  /\ mailbox' = [mailbox EXCEPT ![a] =
       SubSeq(@, (IF Limit <= Len(@) THEN Limit ELSE Len(@)) + 1, Len(@))]
  /\ IF a = Worker THEN Submit(t, "main", Poll(Limit)) ELSE UNCHANGED <<lock, requests>>
  /\ UNCHANGED <<guestVars, link, late, reported, faults, messages>>

\* A process in the guest posts a message to it.
PostMessage ==
  /\ messages < MaxMessages /\ messages' = messages + 1
  /\ Store([id |-> messages + 1, kind |-> "text"])
  /\ UNCHANGED <<linkVars, mailbox>>

Local == UNCHANGED <<linkVars, relayVars>>
Remote == UNCHANGED relayVars

Next ==
  \/ \E t \in Tasks, s \in Sends : Message(t, s)
  \/ \E t \in Tasks, a \in Agents : ReceiveMessages(t, a)
  \/ \E t \in Tasks : Client(t) /\ Remote
  \/ \E t \in Tasks : Timeout(t) /\ Remote
  \/ \E ch \in Channels : Reset(ch) /\ Remote
  \/ Guest /\ Remote
  \/ Daemon /\ Local
  \/ \E n \in running : FinishTask(n) /\ Local
  \/ GetMessages /\ Local
  \/ PostMessage

Spec == Init /\ [][Next]_vars

\* Requests are polled, the guest serves them and schedules its daemon, and
\* every task ends or is killed at its timeout.
Fairness ==
  /\ \A t \in Tasks : WF_vars(Client(t) /\ Remote)
  /\ \A ch \in Channels : WF_vars(Serve(ch) /\ Remote)
  /\ WF_vars(Daemon /\ Local)
  /\ \A n \in 1..MaxArrivals : WF_vars(FinishTask(n) /\ Local)

FairSpec == Spec /\ Fairness
-----------------------------------------------------------------------------
(* Properties *)

\* The results in the responses that were not read yet.
OnTheWay == {r.results : r \in ToSet(link["main"].toHost)} \ {<<>>}

\* Where a message is, or its result, in the guest and after it.
Places == <<inbox, batch, kept, SetToSeq(running), outbox, reported>>
          \o SetToSeq(OnTheWay) \o <<SetToSeq(taken), SetToSeq(dropped)>>

TypeOK ==
  /\ Range(arrived) \subseteq [id : 1..MaxMessages, kind : Kinds]
  /\ ToSet(FlattenSeq(Places)) \subseteq DOMAIN arrived
  /\ Len(inbox) <= InboxCapacity /\ Cardinality(running) <= MAX_CONCURRENT_TASKS
  /\ \A a \in Agents : Len(mailbox[a]) <= Capacity
  /\ \A ch \in Channels : ToSet(lock[ch]) \subseteq Tasks
  /\ \A t \in Tasks : Asking(t) => requests[t].attempt \in 0..VSOCK_MAX_RETRIES

\* Nothing is read, executed or reported twice for being stored once.
InOnePlace == IsInjective(FlattenSeq(Places))

\* The inbox is in the order of arrival, also behind the daemon's back.
KeepsOrder ==
  \A line \in {kept \o inbox, batch \o inbox} :
    \A i, j \in DOMAIN line : i < j => line[i] < line[j]

\* A push that is repeated may be stored again, by each attempt once.
CopiesBounded ==
  \A m \in 1..MaxMessages :
    Cardinality({n \in DOMAIN arrived : arrived[n].id = m}) <= 1 + VSOCK_MAX_RETRIES

\* Between them: a message is executed at most once for each attempt to deliver
\* it, and has at most that many results.
BoundedDelivery == InOnePlace /\ CopiesBounded

\* Unless somebody gave up waiting on it, what is under way on a connection
\* belongs to the request that holds its mutex.
ResponsesPaired ==
  \A ch \in Channels : link[ch].up /\ ~link[ch].desynced =>
    LET underway == [i \in DOMAIN link[ch].toGuest |-> link[ch].toGuest[i].by]
                    \o [i \in DOMAIN link[ch].toHost |-> link[ch].toHost[i].for]
    IN underway # <<>> =>
         /\ Len(underway) = 1 /\ Stands(underway[1], "sent")
         /\ requests[underway[1]].channel = ch

\* Every assignment in the inbox comes to a result, unless somebody read it
\* there or a limit dropped it: the daemon never stops at its permits.
AssignmentsRun ==
  \A n \in 1..MaxArrivals :
    (n \in ToSet(inbox) /\ Assignment(n)) ~> n \in ToSet(outbox) \cup taken \cup dropped

\* Every message and receive is answered.
CallsAnswered == \A t \in Tasks : Asking(t) ~> ~Asking(t)
=============================================================================
