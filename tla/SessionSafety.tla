--------------------------- MODULE SessionSafety ---------------------------
(***************************************************************************)
(* What Sessions must keep true of ownership and quotas, whatever handlers *)
(* run at the same time, and over restarts.                                *)
(***************************************************************************)
EXTENDS Sessions

Session == [owned : SUBSET Ids, count : Nat, memory : Nat, active : BOOLEAN]
Owned == [Sids -> SUBSET Ids]

\* What stands for a session AuthManager does not know is not a session.
ASSUME SessionAssumption == None \notin Session

TypeOK ==
  /\ workspaces \subseteq Ids
  /\ sessions \in [Sids -> Session \cup {None}]
  /\ client \in [Sids -> Clients]
  /\ exported \in Owned \cup {None}
  /\ state_file \in [workspaces : SUBSET Ids, owners : Owned]
  /\ pc \in [Requests -> Labels]
  /\ job \in [Requests -> Job]
  /\ disputed \subseteq Ids

\* The workspaces of a session stay within its quota, counted as they are and not
\* as the session's usage says: creates that passed check_quota together, batches
\* of forks, adoptions and restored sessions included.
WithinQuota == \A s \in Sids : Known(s) =>
  /\ Cardinality(sessions[s].owned) <= MaxWorkspaces
  /\ Cardinality(sessions[s].owned) <= MaxMemory

\* A workspace that no two calls raced for has one owner at most: an adoption
\* takes it from whoever had it, and the file never gives it to two sessions.
SoleOwner == \A i \in Ids \ disputed : \A s, r \in Owners(i) : s = r

\* No session goes on paying for a workspace that is gone, once the call that
\* destroyed it is over: unregister, rollback and restore_sessions see to it.
NoDeadOwnership == \A i \in Ids \ disputed :
  Owners(i) # {} => i \in workspaces \/ \E t \in Requests : Uses(t, i)

\* The handlers, and what a restart restores of their work, keep both.
OwnershipSound == SoleOwner /\ NoDeadOwnership

\* While the daemon runs, a session that is not purged loses a workspace only at
\* the end of a destroy of its own, or to an adopter, which then owns it, when the
\* session was idle: a refused adoption (the adopter's quota) orphans nothing.
SameRun == \A s \in Sids : client'[s] = "agent" <=> client[s] = "agent"
Unregisters(s, i) ==
  \E t \in Requests : pc[t] = "unregister" /\ job[t].sid = s /\ job[t].id = i
LosesOnlyToAdopters ==
  [][SameRun => \A s \in Sids, i \in Ids :
       Owns(s, i) /\ Known(s)' /\ ~Owns(s, i)' =>
         \/ Unregisters(s, i)
         \/ ~sessions[s].active /\ \E r \in Sids : Owns(r, i)' /\ ~Owns(r, i)]_vars

\* docs/troubleshooting.md: an active session keeps its workspaces.
ActiveKeeps ==
  [][SameRun => \A s \in Sids, i \in Ids :
       Owns(s, i) /\ sessions[s].active /\ ~Owns(s, i)' => Unregisters(s, i)]_vars
=============================================================================
