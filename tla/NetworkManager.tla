--------------------------- MODULE NetworkManager ---------------------------
(***************************************************************************)
(* network/mod.rs over the address allocator, the TAP devices and          *)
(* nftables.rs, with the operations of the WorkspaceManager that call it   *)
(* and the record of the policy each workspace has.                        *)
(*                                                                         *)
(* Rules that drop are inserted in front of the forward chain and rules    *)
(* that accept appended to it, so a packet passes when no rule drops it    *)
(* and some rule accepts it: the chain is a set.  A rule carries the       *)
(* workspace in its comment.  The behaviour begins when a daemon has read  *)
(* its state file: the table has been flushed, all workspaces are stopped. *)
(***************************************************************************)
EXTENDS IpAllocator, FiniteSets

CONSTANTS
  Ids,              \* workspaces
  Resting,          \* those of them that nothing is asked of
  None,
  Tasks,            \* the callers of the daemon
  Policies,         \* what is asked for: [internet, inter, open]
  Ports,            \* TCP ports
  OneCallAtATime,   \* calls on one workspace do not overlap
  NetFaults         \* what may fail

\* What is recorded of a workspace, and the locals of a call.
EntryRecords ==
  [ip : Usable, up : BOOLEAN, policy : Policies, forwards : SUBSET (Ports \X Ports)]
Places ==
  {"scan", "tap", "applyNew", "boot", "cleanup", "stopVm", "readLock", "ensureTap", "sweepForward",
   "sweepPostrouting", "sweepPrerouting", "apply", "takeDown", "forget", "forward", "unforward",
   "record"}
CallRecords ==
  [op : {"create", "destroy", "start", "update", "add", "remove"}, at : Places, id : Ids,
   arg : Policies \cup (Ports \X Ports) \cup Ports \cup {None}, ip : Usable \cup {None}]

ASSUME NetworkAssumption ==
  /\ None \notin Ids \cup Tasks \cup Usable /\ Resting \subseteq Ids
  /\ None \notin EntryRecords /\ None \notin CallRecords
  /\ Policies \subseteq [internet : BOOLEAN, inter : BOOLEAN, open : SUBSET Ports]
  /\ OneCallAtATime \in BOOLEAN /\ NetFaults \subseteq {"tap", "nft", "launch"}

VARIABLES
  entries,          \* id -> None or [ip, up, policy, forwards]
  rules,            \* of the table inet agentiso
  taps,             \* TAP devices on the bridge
  lock,             \* of the NetworkManager: [writer, readers]
  calls,            \* task -> None or its call
  loading,          \* workspaces whose address load_state has yet to restore
  unruled           \* workspaces whose rules were removed and not put back

netVars == <<entries, rules, taps, lock, calls, loading, unruled>>
allVars == <<vars, netVars>>

Registered == {i \in Ids : entries[i] # None}
Works(i) == {t \in Tasks : calls[t] # None /\ calls[t].id = i}
AtRest(i) == i \in Registered /\ Works(i) = {}
Fails(fault) == fault \in NetFaults

At(t, place) == calls[t] # None /\ calls[t].at = place
Goes(t, place) == calls' = [calls EXCEPT ![t].at = place]
Returns(t) == calls' = [calls EXCEPT ![t] = None]
Call(t, op, place, i, arg) ==
  calls' = [calls EXCEPT ![t] =
    [op |-> op, at |-> place, id |-> i, arg |-> arg,
     ip |-> IF i \in Registered THEN entries[i].ip ELSE None]]
Callable(t, i) ==
  /\ calls[t] = None /\ loading = {} /\ i \in Registered \ Resting
  /\ OneCallAtATime => Works(i) = {}

Rule(i, kind, ip, port) == [owner |-> i, kind |-> kind, ip |-> ip, port |-> port]

\* apply_workspace_rules: all of a policy in one transaction.
RulesOf(i, ip, policy) ==
  {Rule(i, "antispoof", ip, None)}
  \cup (IF policy.inter THEN {Rule(i, "intervm", ip, None)} ELSE {Rule(i, "isolate", ip, None)})
  \cup (IF policy.internet THEN {Rule(i, "internet", ip, None), Rule(i, "nat", ip, None)} ELSE {})
  \cup {Rule(i, "allow", ip, p) : p \in policy.open}

\* add_port_forward: a forward is a host port and a guest port.
ForwardRules(i, ip, f) == {Rule(i, "dnat", ip, f), Rule(i, "fwd", ip, f)}

ChainOf(rule) ==
  CASE rule.kind = "nat" -> "postrouting" [] rule.kind = "dnat" -> "prerouting"
    [] OTHER -> "forward"

Entry(ip, up, policy, forwards) ==
  [ip |-> ip, up |-> up, policy |-> policy, forwards |-> forwards]

\* The state file has workspaces with addresses of their own.
NetInit ==
  /\ Init
  /\ \E saved \in SUBSET Ids : \E ip \in [saved -> Usable], policy \in [saved -> Policies] :
       /\ \A i, j \in saved : ip[i] = ip[j] => i = j
       /\ entries = [i \in Ids |-> IF i \in saved THEN Entry(ip[i], FALSE, policy[i], {}) ELSE None]
       /\ loading = saved
       /\ taps \in SUBSET saved
  /\ rules = {} /\ unruled = {}
  /\ lock = [writer |-> None, readers |-> {}]
  /\ calls = [t \in Tasks |-> None]

RestoreIp(i) ==
  /\ i \in loading /\ MarkAllocated(entries[i].ip)
  /\ loading' = loading \ {i}
  /\ UNCHANGED <<entries, rules, taps, lock, calls, unruled>>
-----------------------------------------------------------------------------
(* setup_workspace, under the write lock *)

Unlocked == lock.writer = None /\ lock.readers = {}
WriteLock(t) == Unlocked /\ lock' = [lock EXCEPT !.writer = t]
ReadLock(t) == lock.writer = None /\ lock' = [lock EXCEPT !.readers = @ \cup {t}]
Unlock(t) == lock' = [writer |-> IF lock.writer = t THEN None ELSE lock.writer,
                      readers |-> lock.readers \ {t}]

Setup(t, i, policy) ==
  /\ calls[t] = None /\ loading = {}
  /\ i \notin Registered \cup Resting /\ Works(i) = {} /\ WriteLock(t)
  /\ Call(t, "create", "scan", i, policy)
  /\ Allocate
  /\ UNCHANGED <<entries, rules, taps, loading, unruled>>

SetupAddress(t) ==
  /\ At(t, "scan") /\ ~scanning
  /\ IF reply = Exhausted THEN Unlock(t) /\ Returns(t)
     ELSE calls' = [calls EXCEPT ![t].at = "tap", ![t].ip = reply] /\ UNCHANGED lock
  /\ UNCHANGED <<vars, entries, rules, taps, loading, unruled>>

SetupTap(t) ==
  /\ At(t, "tap")
  /\ \/ /\ taps' = taps \cup {calls[t].id} /\ Goes(t, "applyNew")
        /\ UNCHANGED <<vars, lock>>
     \/ /\ Fails("tap") /\ Release(calls[t].ip)
        /\ Unlock(t) /\ Returns(t) /\ UNCHANGED taps
  /\ UNCHANGED <<entries, rules, loading, unruled>>

SetupRules(t) ==
  /\ At(t, "applyNew")
  /\ LET c == calls[t]
     IN \/ /\ rules' = rules \cup RulesOf(c.id, c.ip, c.arg) /\ Goes(t, "boot")
           /\ UNCHANGED <<vars, taps>>
        \/ /\ Fails("nft") /\ Release(c.ip) /\ taps' = taps \ {c.id}
           /\ Returns(t) /\ UNCHANGED rules
  /\ Unlock(t)
  /\ UNCHANGED <<entries, loading, unruled>>

\* The rest of a create: the workspace is registered with its VM up, or its
\* network is taken down again.
Boot(t) ==
  /\ At(t, "boot")
  /\ LET c == calls[t]
     IN \/ /\ entries' = [entries EXCEPT ![c.id] = Entry(c.ip, TRUE, c.arg, {})]
           /\ Returns(t)
        \/ Fails("launch") /\ Goes(t, "cleanup") /\ UNCHANGED entries
  /\ UNCHANGED <<vars, rules, taps, lock, loading, unruled>>
-----------------------------------------------------------------------------
(* remove_workspace_rules, for a clean-up, a start and a change of policy *)

Sweep(t, chain) ==
  rules' = {r \in rules : ~(r.owner = calls[t].id /\ ChainOf(r) = chain)}

\* Chain after chain; the rules of one are listed and deleted by handle, one by
\* one.  No rule that was listed has gone meanwhile.
SweepForward(t) ==
  /\ At(t, "sweepForward") /\ Sweep(t, "forward") /\ Goes(t, "sweepPostrouting")
  /\ unruled' = unruled \cup {calls[t].id}
  /\ UNCHANGED <<vars, entries, taps, lock, loading>>
SweepPostrouting(t) ==
  /\ At(t, "sweepPostrouting") /\ Sweep(t, "postrouting") /\ Goes(t, "sweepPrerouting")
  /\ UNCHANGED <<vars, entries, taps, lock, loading, unruled>>
SweepPrerouting(t) ==
  /\ At(t, "sweepPrerouting") /\ Sweep(t, "prerouting")
  /\ Goes(t, IF calls[t].op \in {"create", "destroy"} THEN "takeDown" ELSE "apply")
  /\ UNCHANGED <<vars, entries, taps, lock, loading, unruled>>

\* apply_workspace_rules once more.  When it fails after a sweep the workspace
\* is left without rules; a start then destroys the device as well.
Apply(t) ==
  /\ At(t, "apply")
  /\ LET c == calls[t]
     IN \/ /\ rules' = rules \cup RulesOf(c.id, c.ip, c.arg)
           /\ unruled' = unruled \ {c.id}
           /\ Goes(t, "record") /\ UNCHANGED taps
        \/ /\ Fails("nft")
           /\ taps' = IF c.op = "start" THEN taps \ {c.id} ELSE taps
           /\ Returns(t) /\ UNCHANGED <<rules, unruled>>
  /\ Unlock(t)
  /\ UNCHANGED <<vars, entries, loading>>
-----------------------------------------------------------------------------
(* destroy, and the undoing of a create: cleanup_workspace *)

Destroy(t, i) ==
  /\ Callable(t, i) /\ Call(t, "destroy", "stopVm", i, None)
  /\ UNCHANGED <<vars, entries, rules, taps, lock, loading, unruled>>

\* The VM ends before its network goes.
StopVm(t) ==
  /\ At(t, "stopVm")
  /\ entries' = IF calls[t].id \in Registered THEN [entries EXCEPT ![calls[t].id].up = FALSE]
                ELSE entries
  /\ Goes(t, "cleanup")
  /\ UNCHANGED <<vars, rules, taps, lock, loading, unruled>>

Cleanup(t) ==
  /\ At(t, "cleanup") /\ WriteLock(t) /\ Goes(t, "sweepForward")
  /\ UNCHANGED <<vars, entries, rules, taps, loading, unruled>>

TakeDown(t) ==
  /\ At(t, "takeDown")
  /\ taps' = taps \ {calls[t].id}
  /\ IF calls[t].ip \in allocated THEN Release(calls[t].ip) ELSE UNCHANGED vars
  /\ Unlock(t)
  /\ IF calls[t].op = "create" THEN Returns(t) ELSE Goes(t, "forget")
  /\ unruled' = unruled \ {calls[t].id}
  /\ UNCHANGED <<entries, rules, loading>>

Forget(t) ==
  /\ At(t, "forget")
  /\ entries' = [entries EXCEPT ![calls[t].id] = None] /\ Returns(t)
  /\ UNCHANGED <<vars, rules, taps, lock, loading, unruled>>
-----------------------------------------------------------------------------
(* stop, start, update_network_policy, port_forward_add and _remove *)

Stop(t, i) ==
  /\ Callable(t, i) /\ entries[i].up
  /\ entries' = [entries EXCEPT ![i].up = FALSE]
  /\ UNCHANGED <<vars, rules, taps, lock, calls, loading, unruled>>

Start(t, i) ==
  /\ Callable(t, i) /\ ~entries[i].up
  /\ Call(t, "start", "readLock", i, entries[i].policy)
  /\ UNCHANGED <<vars, entries, rules, taps, lock, loading, unruled>>

UpdatePolicy(t, i, policy) ==
  /\ Callable(t, i)
  /\ Call(t, "update", "readLock", i, policy)
  /\ UNCHANGED <<vars, entries, rules, taps, lock, loading, unruled>>

AddForward(t, i, f) ==
  /\ Callable(t, i)
  /\ Call(t, "add", "readLock", i, f)
  /\ UNCHANGED <<vars, entries, rules, taps, lock, loading, unruled>>

RemoveForward(t, i, guest) ==
  /\ Callable(t, i)
  /\ Call(t, "remove", "readLock", i, guest)
  /\ UNCHANGED <<vars, entries, rules, taps, lock, loading, unruled>>

\* Mistake: the rules of the old policy stay.
WrongAfterLock(op) ==
  CASE op = "start" -> "ensureTap" [] op = "update" -> "apply"
    [] op = "add" -> "forward" [] op = "remove" -> "unforward"
AfterLock(op) ==
  CASE op = "start" -> "ensureTap" [] op = "update" -> "sweepForward"
    [] op = "add" -> "forward" [] op = "remove" -> "unforward"

BeginReading(t) ==
  /\ At(t, "readLock") /\ ReadLock(t)
  /\ Goes(t, AfterLock(calls[t].op))
  /\ UNCHANGED <<vars, entries, rules, taps, loading, unruled>>

\* The device is destroyed and made again.
EnsureTap(t) ==
  /\ At(t, "ensureTap")
  /\ \/ /\ taps' = taps \cup {calls[t].id} /\ Goes(t, "sweepForward") /\ UNCHANGED lock
     \/ /\ Fails("tap") /\ taps' = taps \ {calls[t].id}
        /\ Unlock(t) /\ Returns(t)
  /\ UNCHANGED <<vars, entries, rules, loading, unruled>>

ForwardPort(t) ==
  /\ At(t, "forward")
  /\ LET c == calls[t]
     IN \/ rules' = rules \cup ForwardRules(c.id, c.ip, c.arg) /\ Goes(t, "record")
        \/ Fails("nft") /\ Returns(t) /\ UNCHANGED rules
  /\ Unlock(t)
  /\ UNCHANGED <<vars, entries, taps, loading, unruled>>

\* Mistake: the rule that accepts what was forwarded stays.
WrongUnforwarded(c) ==
  {r \in rules : r.owner = c.id /\ r.kind = "dnat" /\ r.port[2] = c.arg}
Unforwarded(c) ==
  {r \in rules : r.owner = c.id /\ r.kind \in {"dnat", "fwd"} /\ r.port[2] = c.arg}

UnforwardPort(t) ==
  /\ At(t, "unforward")
  /\ rules' = rules \ Unforwarded(calls[t]) /\ Goes(t, "record")
  /\ Unlock(t)
  /\ UNCHANGED <<vars, entries, taps, loading, unruled>>

\* What was done to the rules is recorded afterwards, if the workspace is
\* there; a start whose launch fails keeps its network.
Recorded(e, c) ==
  CASE c.op = "start"  -> [e EXCEPT !.up = TRUE]
    [] c.op = "update" -> [e EXCEPT !.policy = c.arg]
    [] c.op = "add"    -> [e EXCEPT !.forwards = @ \cup {c.arg}]
    [] c.op = "remove" -> [e EXCEPT !.forwards = {f \in @ : f[2] # c.arg}]

Record(t) ==
  /\ At(t, "record")
  /\ LET c == calls[t]
     IN \/ entries' = IF c.id \in Registered
                        THEN [entries EXCEPT ![c.id] = Recorded(@, c)] ELSE entries
        \/ c.op = "start" /\ Fails("launch") /\ UNCHANGED entries
  /\ Returns(t)
  /\ UNCHANGED <<vars, rules, taps, lock, loading, unruled>>
-----------------------------------------------------------------------------
Step(t) ==
  \/ SetupAddress(t) \/ SetupTap(t) \/ SetupRules(t) \/ Boot(t)
  \/ SweepForward(t) \/ SweepPostrouting(t) \/ SweepPrerouting(t) \/ Apply(t)
  \/ StopVm(t) \/ Cleanup(t) \/ TakeDown(t) \/ Forget(t)
  \/ BeginReading(t) \/ EnsureTap(t) \/ ForwardPort(t) \/ UnforwardPort(t) \/ Record(t)

NetNext ==
  \/ \E i \in Ids : RestoreIp(i)
  \/ Scan /\ UNCHANGED netVars
  \/ \E t \in Tasks :
       \/ Step(t)
       \/ \E i \in Ids :
            \/ Stop(t, i) \/ Start(t, i) \/ Destroy(t, i)
            \/ \E policy \in Policies : Setup(t, i, policy) \/ UpdatePolicy(t, i, policy)
            \/ \E h \in Ports, g \in Ports : AddForward(t, i, <<h, g>>)
            \/ \E g \in Ports : RemoveForward(t, i, g)

\* allocate is a synchronous loop: once called it runs on.
NetSpec == NetInit /\ [][NetNext]_allVars /\ WF_vars(Scan)
-----------------------------------------------------------------------------
(* Properties *)

Online(i) == i \in Registered /\ entries[i].up /\ i \in taps
HasRule(kind, ip) == \E r \in rules : r.kind = kind /\ r.ip = ip

\* A packet of one guest, under its own address, to a port of another.
Passes(a, b, port) ==
  /\ ~\E r \in rules : r.kind = "antispoof" /\ r.owner = a /\ r.ip # entries[a].ip
  /\ ~HasRule("isolate", entries[b].ip)
  /\ \/ HasRule("intervm", entries[a].ip)
     \/ \E r \in rules : /\ r.ip = entries[b].ip
                         /\ \/ r.kind = "allow" /\ r.port = port
                            \/ r.kind = "fwd" /\ r.port[2] = port

\* A workspace at rest whose rules could be applied has what its recorded
\* policy says, whoever had its address before and whatever is going on with
\* others: no guest reaches it unless it allows inter-VM traffic, guests that
\* both allow it reach each other, it is masqueraded exactly when it may use
\* the internet, and it cannot send under another address.
PolicyHolds ==
  \A b \in Ids : AtRest(b) /\ Online(b) /\ b \notin unruled =>
    LET e == entries[b]
    IN /\ Rule(b, "antispoof", e.ip, None) \in rules
       /\ HasRule("internet", e.ip) <=> e.policy.internet
       /\ HasRule("nat", e.ip) <=> e.policy.internet
       /\ \A a \in Ids \ {b}, p \in Ports : Online(a) =>
            /\ Passes(a, b, p) => e.policy.inter
            /\ AtRest(a) /\ a \notin unruled /\ entries[a].policy.inter /\ e.policy.inter =>
                 Passes(a, b, p)

\* Addresses, devices and rules belong to a workspace or to a call at work on
\* one: no address is given to two, none is lost, and no port stays open that
\* is not recorded.
NothingLeft ==
  LET working == {t \in Tasks : calls[t] # None}
      held == {entries[i].ip : i \in Registered} \cup {calls[t].ip : t \in working}
      asked == IF \E t \in working : calls[t].at = "scan" THEN {reply} ELSE {}
      leaving == {i \in Registered : \E t \in Works(i) : calls[t].at = "forget"}
  IN /\ \A i, j \in Registered \ leaving : entries[i].ip = entries[j].ip => i = j
     /\ allocated \subseteq {0, Gateway} \cup held \cup asked
     /\ \A i \in Registered \ (loading \cup leaving) : entries[i].ip \in allocated
     /\ \A i \in Ids \ Registered : Works(i) = {} =>
          i \notin taps /\ \A r \in rules : r.owner # i
     /\ \A r \in rules : AtRest(r.owner) =>
          /\ r.ip = entries[r.owner].ip
          /\ r.kind \in {"dnat", "fwd"} => r.port \in entries[r.owner].forwards
=============================================================================
