------------------------------- MODULE Teams -------------------------------
(***************************************************************************)
(* team/mod.rs: create_team with its rollback, destroy_team with its       *)
(* cascade, and the agents they register with the message relay.           *)
(*                                                                         *)
(* No lock is held from one step to the next: calls on the same team, or   *)
(* on a team and its parent, interleave.  Roles are numbered.              *)
(***************************************************************************)
EXTENDS Fleet

CONSTANTS
  Names,           \* names of teams
  Requests,        \* requests on teams, of agents and of the dashboard
  Orders,          \* the teams that are asked for: [name, parent, roles]
  MaxVms,          \* max_vms of every team
  MaxNestingDepth  \* resources.max_nesting_depth

ASSUME TeamsAssumption ==
  /\ None \notin Names \cup Requests /\ MaxVms \in Nat /\ MaxNestingDepth \in Nat
  /\ Orders \subseteq [name : Names, parent : Names \cup {None}, roles : Nat \ {0}]

VARIABLES
  teams,           \* name -> None or [state, members, parent, depth, roles]
  agents,          \* the mailboxes of the relay: <<team, role>>
  calls,           \* request -> None or the call it is working on
  disputed         \* teams for which a creation raced with another call

teamVars == <<teams, agents, calls, disputed>>

\* TeamState
TeamEntry ==
  [state : {"Creating", "Ready"}, members : SUBSET Ids, parent : Names \cup {None},
   depth : Nat, roles : Nat \ {0}]
\* The locals of create_team; those of destroy_team, a frame for each level.
Creation ==
  [op : {"create"}, at : {"register", "fork", "mark", "rollback"}, name : Names,
   parent : Names \cup {None}, depth : Nat, roles : Nat \ {0},
   members : Seq(Ids), forked : Ids \cup {None}]
Frames == [name : Names, members : SUBSET Ids, registered : BOOLEAN, children : SUBSET Names]
Destruction == [op : {"destroy"}, frames : Seq(Frames)]

ASSUME CallAssumption ==
  None \notin TeamEntry /\ None \notin Creation /\ None \notin Destruction

\* A team with its ancestors.
Lineage(name) ==
  LET up[k \in 0..MaxNestingDepth] ==
        IF k = 0 THEN name
        ELSE IF up[k-1] = None THEN None
        ELSE IF teams[up[k-1]] = None THEN None ELSE teams[up[k-1]].parent
  IN {up[k] : k \in 0..MaxNestingDepth} \ {None}

\* total_vm_count_recursive
TotalVmCount(name) ==
  Cardinality(UNION {teams[n].members :
                       n \in {m \in Names : teams[m] # None /\ name \in Lineage(m)}})

At(t, op, place) == calls[t] # None /\ calls[t].op = op /\ calls[t].at = place
Goes(t, place) == calls' = [calls EXCEPT ![t].at = place]
Returns(t) == calls' = [calls EXCEPT ![t] = None]

Creating(t, name) == calls[t] # None /\ calls[t].op = "create" /\ calls[t].name = name
Destroying(t, name) ==
  /\ calls[t] # None /\ calls[t].op = "destroy"
  /\ \E k \in DOMAIN calls[t].frames :
       name \in {calls[t].frames[k].name} \cup calls[t].frames[k].children

\* The workspaces a call on a team knows of.
Handles(t) ==
  IF calls[t] = None THEN {}
  ELSE IF calls[t].op = "create" THEN Range(calls[t].members) \cup ({calls[t].forked} \ {None})
  ELSE UNION {calls[t].frames[k].members : k \in DOMAIN calls[t].frames}

TeamsInit ==
  /\ teams = [n \in Names |-> None]
  /\ agents = {} /\ disputed = {}
  /\ calls = [t \in Requests |-> None]
-----------------------------------------------------------------------------
(* create_team *)

\* Whether the name is free, the parent has the depth and the budget, and the
\* caps allow it is decided once; a call that is refused changes nothing.
CreateTeam(t, name, parent, roles) ==
  /\ calls[t] = None
  /\ teams[name] = None
  /\ parent # None =>
       /\ teams[parent] # None
       /\ teams[parent].depth + 1 <= MaxNestingDepth
       /\ TotalVmCount(parent) + roles <= MaxVms
  /\ Cardinality(workspaces) + roles <= MaxWorkspaces
  /\ calls' = [calls EXCEPT ![t] =
       [op |-> "create", at |-> "register", name |-> name, parent |-> parent,
        depth |-> IF parent = None THEN 0 ELSE teams[parent].depth + 1,
        roles |-> roles, members |-> <<>>, forked |-> None]]
  /\ disputed' = disputed \cup
       (IF \E u \in Requests :
             \/ Creating(u, name)
             \/ \E m \in {name} \cup (IF parent = None THEN {} ELSE Lineage(parent)) :
                  Destroying(u, m)
        THEN {name} ELSE {})
  /\ UNCHANGED <<fleetVars, teams, agents>>

Entry(c, state, members) ==
  [state |-> state, members |-> members, parent |-> c.parent, depth |-> c.depth, roles |-> c.roles]

RegisterTeam(t) ==
  /\ At(t, "create", "register")
  /\ teams' = [teams EXCEPT ![calls[t].name] = Entry(calls[t], "Creating", {})]
  /\ Goes(t, "fork") /\ UNCHANGED <<fleetVars, agents, disputed>>

\* Mistake: a workspace more than there are roles.
WrongForkMember(t, i) ==
  /\ At(t, "create", "fork") /\ Len(calls[t].members) <= calls[t].roles
  /\ Forks(i)
  /\ calls' = [calls EXCEPT ![t].at = "mark", ![t].forked = i]
  /\ UNCHANGED <<teams, agents, disputed>>

\* The workspace of the next role, or the start of the rollback, which
\* unregisters the agents first.
ForkMember(t, i) ==
  /\ At(t, "create", "fork") /\ Len(calls[t].members) < calls[t].roles
  /\ Forks(i)
  /\ calls' = [calls EXCEPT ![t].at = "mark", ![t].forked = i]
  /\ UNCHANGED <<teams, agents, disputed>>

\* Mistake: the agents are left registered.
WrongForkMemberFails(t) ==
  /\ At(t, "create", "fork") /\ Len(calls[t].members) < calls[t].roles
  /\ Goes(t, "rollback") /\ UNCHANGED <<fleetVars, teams, agents, disputed>>

ForkMemberFails(t) ==
  /\ At(t, "create", "fork") /\ Len(calls[t].members) < calls[t].roles
  /\ agents' = agents \ {<<calls[t].name, k>> : k \in DOMAIN calls[t].members}
  /\ Goes(t, "rollback") /\ UNCHANGED <<fleetVars, teams, disputed>>

\* It is marked with the team and its agent registered.  When it is gone
\* already the call fails at once, without a rollback.
MarkMember(t) ==
  /\ At(t, "create", "mark")
  /\ LET c == calls[t] IN
     IF c.forked \in workspaces
       THEN /\ Mark(c.forked, c.name)
            /\ agents' = agents \cup {<<c.name, Len(c.members) + 1>>}
            /\ calls' = [calls EXCEPT ![t].at = "fork", ![t].forked = None,
                                      ![t].members = Append(@, c.forked)]
       ELSE Returns(t) /\ UNCHANGED <<team_id, agents>>
  /\ UNCHANGED <<workspaces, teams, disputed>>

RollBack(t) ==
  /\ At(t, "create", "rollback")
  /\ LET c == calls[t] IN
     IF c.members # <<>>
       THEN /\ Destroys(Head(c.members))
            /\ calls' = [calls EXCEPT ![t].members = Tail(@)] /\ UNCHANGED teams
       ELSE /\ teams' = [teams EXCEPT ![c.name] = None] /\ Returns(t)
            /\ UNCHANGED fleetVars
  /\ UNCHANGED <<agents, disputed>>

TeamReady(t) ==
  /\ At(t, "create", "fork") /\ Len(calls[t].members) = calls[t].roles
  /\ teams' = [teams EXCEPT ![calls[t].name] =
                 Entry(calls[t], "Ready", Range(calls[t].members))]
  /\ Returns(t) /\ UNCHANGED <<fleetVars, agents, disputed>>
-----------------------------------------------------------------------------
(* destroy_team *)

\* A destroy works on a copy of the team and of the list of its children, and
\* calls itself for each of them: one frame per team it is inside of.
Frame(name) ==
  [name |-> name, members |-> teams[name].members, registered |-> TRUE,
   children |-> {c \in Names : teams[c] # None /\ teams[c].parent = name}]

Top(t) == calls[t].frames[1]
Works(t) == calls[t] # None /\ calls[t].op = "destroy"
Updates(t, frame) == calls' = [calls EXCEPT ![t].frames[1] = frame]

DestroyTeam(t, name) ==
  /\ calls[t] = None /\ teams[name] # None
  /\ calls' = [calls EXCEPT ![t] = [op |-> "destroy", frames |-> <<Frame(name)>>]]
  /\ disputed' = disputed \cup
       {n \in Names : \E u \in Requests :
          Creating(u, n) /\ (n = name \/ (calls[u].parent # None /\ name \in Lineage(calls[u].parent)))}
  /\ UNCHANGED <<fleetVars, teams, agents>>

\* A child that is gone meanwhile is passed over.
Cascade(t, child) ==
  /\ Works(t) /\ child \in Top(t).children
  /\ LET rest == [Top(t) EXCEPT !.children = @ \ {child}]
         below == <<rest>> \o Tail(calls[t].frames)
     IN calls' = [calls EXCEPT ![t].frames =
                    IF teams[child] = None THEN below ELSE <<Frame(child)>> \o below]
  /\ UNCHANGED <<fleetVars, teams, agents, disputed>>

UnregisterTeam(t) ==
  /\ Works(t) /\ Top(t).children = {} /\ Top(t).registered
  /\ agents' = {a \in agents : a[1] # Top(t).name}
  /\ Updates(t, [Top(t) EXCEPT !.registered = FALSE])
  /\ UNCHANGED <<fleetVars, teams, disputed>>

\* The members are destroyed in parallel, those that are still there.
DestroyMember(t, i) ==
  /\ Works(t) /\ ~Top(t).registered /\ i \in Top(t).members
  /\ Destroys(i)
  /\ Updates(t, [Top(t) EXCEPT !.members = @ \ {i}])
  /\ UNCHANGED <<teams, agents, disputed>>

RemoveTeam(t) ==
  /\ Works(t) /\ ~Top(t).registered /\ Top(t).members = {}
  /\ teams' = [teams EXCEPT ![Top(t).name] = None]
  /\ calls' = [calls EXCEPT ![t] =
       IF Len(@.frames) = 1 THEN None ELSE [@ EXCEPT !.frames = Tail(calls[t].frames)]]
  /\ UNCHANGED <<fleetVars, agents, disputed>>
-----------------------------------------------------------------------------

\* A step of a call that is under way.
TeamStep(t) ==
  \/ RegisterTeam(t) \/ ForkMemberFails(t) \/ MarkMember(t) \/ RollBack(t) \/ TeamReady(t)
  \/ \E i \in Ids : DestroyMember(t, i)
  \/ \E n \in Names : Cascade(t, n)
  \/ UnregisterTeam(t) \/ RemoveTeam(t)

\* Somebody else destroys a workspace: the creation that has not marked it yet
\* fails without a rollback.
Robs(i) ==
  disputed' = disputed \cup
    {n \in Names : \E t \in Requests : Creating(t, n) /\ calls[t].forked = i}
-----------------------------------------------------------------------------
(* Properties *)

TeamsTypeOK ==
  /\ \A a \in agents : \E o \in Orders : a[1] = o.name /\ a[2] \in 1..o.roles
  /\ \A i \in Ids : team_id[i] # None => i \in workspaces /\ team_id[i] \in Names
  /\ \A n \in Names : teams[n] # None =>
       /\ teams[n].state \in {"Creating", "Ready"} /\ teams[n].members \subseteq Ids
       /\ teams[n].depth \in 0..MaxNestingDepth

Quiet(name) == \A t \in Requests : ~Creating(t, name) /\ ~Destroying(t, name)

\* A team that no two calls raced for is there completely or not at all when no
\* call works on it, after a rollback and a cascade too: its workspaces and its
\* mailboxes are those of its entry.  A mailbox never outlives the entry.
TeamsConsistent ==
  \A n \in Names \ disputed :
    LET marked == {i \in workspaces : team_id[i] = n}
        boxes == {a \in agents : a[1] = n}
    IN /\ teams[n] = None => boxes = {}
       /\ Quiet(n) =>
            IF teams[n] = None THEN marked = {}
            ELSE /\ teams[n].state = "Ready" /\ marked = teams[n].members \cap workspaces
                 /\ boxes = {<<n, k>> : k \in 1..teams[n].roles}

\* A rollback and a cascade leave a consistent state of the right shape.
TeamsInv == TeamsTypeOK /\ TeamsConsistent
=============================================================================
