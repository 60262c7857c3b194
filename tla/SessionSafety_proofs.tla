------------------------ MODULE SessionSafety_proofs ------------------------
(***************************************************************************)
(* Proofs about Sessions, for any number of sessions, handlers and         *)
(* workspaces: its types, the quotas, who owns a workspace, and who takes  *)
(* one from its session.                                                   *)
(*                                                                         *)
(* WithinQuota is not inductive: the code compares the counters of the     *)
(* usage with the quota, never the size of the set, and what a restart     *)
(* restores was read earlier.  SessionInv says that the counters cover the *)
(* set, stay within the quota, and that the file and what save_state has   *)
(* read hold no more for a session than its quota.                         *)
(*                                                                         *)
(* Nor is OwnershipSound: between two of its calls a handler relies on     *)
(* what it saw.  Peace says what holds meanwhile of a workspace no two     *)
(* calls raced for: what a handler builds has no owner, what it is about   *)
(* to remove has none but its session, what it works on is registered, and *)
(* neither the file nor what save_state has read names two owners.         *)
(***************************************************************************)
EXTENDS SessionSafety, FiniteSetTheorems, TLAPS

Small == {S \in SUBSET Ids : Cardinality(S) <= MaxWorkspaces /\ Cardinality(S) <= MaxMemory}
Sound == {x \in Session :
            /\ Cardinality(x.owned) <= x.count /\ Cardinality(x.owned) <= x.memory
            /\ x.count <= MaxWorkspaces /\ x.memory <= MaxMemory}

\* A task past its first step has a session, and at these labels a workspace.
Addressed == {"owner", "adopt", "destroy", "remove", "unregister"}
WellFormed(label, j) ==
  /\ label \in Labels /\ j \in Job
  /\ label # "idle" => j.sid \in Sids
  /\ label \in Addressed => j.id \in Ids

SoundSessions == sessions \in [Sids -> Sound \cup {None}]
SoundTasks ==
  /\ pc \in [Requests -> Labels] /\ job \in [Requests -> Job]
  /\ \A t \in Requests : WellFormed(pc[t], job[t])
SoundFile ==
  /\ exported \in [Sids -> Small] \cup {None}
  /\ state_file \in [workspaces : SUBSET Ids, owners : [Sids -> Small]]
SessionInv ==
  /\ workspaces \subseteq Ids /\ client \in [Sids -> Clients]
  /\ SoundSessions /\ SoundTasks /\ SoundFile

-----------------------------------------------------------------------------
(* One session *)

\* Ids is finite, hence so is what a session owns.
LEMMA OwnedFinite ==
  ASSUME NEW S \in SUBSET Ids
  PROVE  IsFiniteSet(S) /\ Cardinality(S) \in Nat
BY SidsAssumption, FS_Subset, FS_CardinalityType

\* A session that has just been registered owns nothing.
LEMMA NewSessionSound == NewSession \in Sound
BY FS_EmptySet, QuotaAssumption DEF NewSession, Sound, Session

\* A workspace is added where the counters leave room.
LEMMA GainKeepsSound ==
  ASSUME NEW x \in Sound, NEW i \in Ids, x.count < MaxWorkspaces, x.memory + 1 <= MaxMemory
  PROVE  Gain(x, i) \in Sound
<1>1. x \in Session /\ x.owned \in SUBSET Ids /\ x.count \in Nat /\ x.memory \in Nat
  BY DEF Sound, Session
<1>2. x.owned \cup {i} \in SUBSET Ids /\ x.count + 1 \in Nat /\ x.memory + 1 \in Nat
  BY <1>1
<1>3. Gain(x, i) \in Session
  BY <1>1, <1>2 DEF Gain, Session
<1>4. /\ Gain(x, i).owned = x.owned \cup {i}
      /\ Gain(x, i).count = x.count + 1 /\ Gain(x, i).memory = x.memory + 1
  BY <1>1 DEF Gain, Session
<1>5. Cardinality(x.owned) \in Nat
      /\ Cardinality(x.owned \cup {i}) \in Nat
      /\ Cardinality(x.owned \cup {i}) <= Cardinality(x.owned) + 1
  BY <1>1, <1>2, OwnedFinite, FS_AddElement
<1> QED BY <1>1, <1>3, <1>4, <1>5, QuotaAssumption DEF Sound

\* When a workspace is taken out of the set, a counter goes down by one at most.
LEMMA LoseKeepsSound ==
  ASSUME NEW x \in Sound, NEW i \in x.owned, NEW units \in {0, 1}
  PROVE  Lose(x, i, units) \in Sound
<1>1. x \in Session /\ x.owned \in SUBSET Ids /\ x.count \in Nat /\ x.memory \in Nat
  BY DEF Sound, Session
<1>2. Cardinality(x.owned) \in Nat /\ Cardinality(x.owned \ {i}) \in Nat
      /\ Cardinality(x.owned \ {i}) = Cardinality(x.owned) - 1
  BY <1>1, OwnedFinite, FS_RemoveElement
<1>3. x.count >= 1 /\ x.memory >= 1
  BY <1>1, <1>2 DEF Sound
<1>4. /\ SaturatingSub(x.count, 1) = x.count - 1
      /\ SaturatingSub(x.memory, units) = x.memory - units
  BY <1>1, <1>3 DEF SaturatingSub
<1>5. /\ x.owned \ {i} \in SUBSET Ids
      /\ SaturatingSub(x.count, 1) \in Nat /\ SaturatingSub(x.memory, units) \in Nat
  BY <1>1, <1>3, <1>4
<1>6. Lose(x, i, units) \in Session
  BY <1>1, <1>5 DEF Lose, Session
<1>7. /\ Lose(x, i, units).owned = x.owned \ {i}
      /\ Lose(x, i, units).count = x.count - 1
      /\ Lose(x, i, units).memory = x.memory - units
  BY <1>1, <1>4 DEF Lose, Session
<1>8. /\ Cardinality(x.owned) <= x.count /\ Cardinality(x.owned) <= x.memory
      /\ x.count <= MaxWorkspaces /\ x.memory <= MaxMemory
  BY DEF Sound
<1>9. /\ Cardinality(x.owned \ {i}) <= x.count - 1
      /\ Cardinality(x.owned \ {i}) <= x.memory - units
      /\ x.count - 1 <= MaxWorkspaces /\ x.memory - units <= MaxMemory
  BY <1>1, <1>2, <1>8, QuotaAssumption
<1> QED BY <1>6, <1>7, <1>9 DEF Sound

\* What is restored is a part of what fitted the quota.
LEMMA RestoredSound ==
  ASSUME NEW S \in Small, NEW kept
  PROVE  Restored(S \cap kept) \in Sound \cup {None}
<1>1. /\ S \cap kept \in SUBSET Ids /\ IsFiniteSet(S)
      /\ Cardinality(S) \in Nat /\ Cardinality(S \cap kept) \in Nat
      /\ Cardinality(S) <= MaxWorkspaces /\ Cardinality(S) <= MaxMemory
  BY OwnedFinite DEF Small
<1>2. Cardinality(S \cap kept) <= Cardinality(S)
  BY <1>1, FS_Subset
<1> QED BY <1>1, <1>2, QuotaAssumption DEF Restored, Sound, Session

\* Counters that cover the set and fit the quota make the set fit it.
LEMMA SoundIsSmall ==
  ASSUME NEW x \in Sound
  PROVE  x.owned \in Small
<1>1. x.owned \in SUBSET Ids /\ x.count \in Nat /\ x.memory \in Nat
  BY DEF Sound, Session
<1> QED BY <1>1, OwnedFinite, QuotaAssumption DEF Sound, Small

-----------------------------------------------------------------------------
(* The sessions *)

\* A session that is known is a session.
LEMMA KnownSound ==
  ASSUME SoundSessions, NEW s \in Sids, Known(s)
  PROVE  sessions[s] \in Sound
BY DEF SoundSessions, Known

\* Hearing of a session, or not for a minute, leaves its usage alone.
LEMMA TouchedSound ==
  ASSUME SoundSessions, NEW s \in Sids, NEW heard \in BOOLEAN, Known(s)
  PROVE  [sessions EXCEPT ![s].active = heard] \in [Sids -> Sound \cup {None}]
<1>1. sessions[s] \in Sound
  BY KnownSound
<1>2. [sessions[s] EXCEPT !.active = heard] \in Sound
  BY <1>1 DEF Sound, Session
<1> QED BY <1>2 DEF SoundSessions

\* register_workspace adds where there is room.
LEMMA RegisteredSound ==
  ASSUME SoundSessions, NEW s \in Sids, NEW i \in Ids, Room(s, 1)
  PROVE  Registered(s, i) \in [Sids -> Sound \cup {None}]
<1>1. Gain(sessions[s], i) \in Sound
  BY KnownSound, GainKeepsSound DEF Room
<1> QED BY <1>1 DEF Registered, SoundSessions

\* unregister_workspace takes only what the session owns.
LEMMA UnregisteredSound ==
  ASSUME SoundSessions, NEW s \in Sids, NEW i, NEW units \in {0, 1}
  PROVE  Unregistered(s, i, units) \in [Sids -> Sound \cup {None}]
<1>1. CASE Owns(s, i)
  <2>1. Lose(sessions[s], i, units) \in Sound
    BY <1>1, KnownSound, LoseKeepsSound DEF Owns
  <2> QED BY <1>1, <2>1 DEF Unregistered, SoundSessions
<1>2. CASE ~Owns(s, i)
  BY <1>2 DEF Unregistered, SoundSessions
<1> QED BY <1>1, <1>2

\* adopt_workspace adds where there is room and takes from one that owns.
LEMMA AdoptKeepsSound ==
  ASSUME SoundSessions, NEW s \in Sids, NEW i \in Ids, NEW force \in BOOLEAN,
         AdoptWorkspace(s, i, force) \/ AdoptRefused(s, i, force)
  PROVE  SoundSessions'
<1>1. CASE sessions' = sessions
  BY <1>1 DEF SoundSessions
<1>2. CASE \E p \in TakenFrom(s, i, force) : Room(s, 1) /\ sessions' = Moved(s, i, p)
  <2> PICK p \in TakenFrom(s, i, force) : Room(s, 1) /\ sessions' = Moved(s, i, p)
    BY <1>2
  <2>1. p = None \/ (p \in Sids /\ Owns(p, i))
    BY DEF TakenFrom, Others, Owners
  <2>2. Gain(sessions[s], i) \in Sound
    BY KnownSound, GainKeepsSound DEF Room
  <2>3. ASSUME NEW r \in Sids, r = p
        PROVE  Lose(sessions[p], i, 1) \in Sound
    BY <2>1, <2>3, SidsAssumption, KnownSound, LoseKeepsSound DEF Owns
  <2>4. ASSUME NEW r \in Sids
        PROVE  (IF r = s THEN Gain(sessions[s], i)
                ELSE IF r = p THEN Lose(sessions[p], i, 1) ELSE sessions[r])
                 \in Sound \cup {None}
    BY <2>2, <2>3 DEF SoundSessions
  <2> QED BY <2>4 DEF Moved, SoundSessions
<1> QED BY <1>1, <1>2 DEF AdoptWorkspace, AdoptRefused

-----------------------------------------------------------------------------
(* The tasks *)

\* A handler that has not begun.
LEMMA NoJobWellFormed == NoJob \in Job /\ WellFormed("idle", NoJob)
BY QuotaAssumption DEF NoJob, Job, Ops, WellFormed, Labels, Addressed

\* A task that goes on well formed leaves the tasks well formed.
LEMMA GotoKeepsSound ==
  ASSUME SoundTasks, NEW t \in Requests, NEW label, NEW j, WellFormed(label, j),
         Goto(t, label, j)
  PROVE  SoundTasks'
<1>1. /\ pc' \in [Requests -> Labels] /\ job' \in [Requests -> Job]
      /\ pc'[t] = label /\ job'[t] = IF label = "idle" THEN NoJob ELSE j
      /\ \A u \in Requests \ {t} : pc'[u] = pc[u] /\ job'[u] = job[u]
  BY NoJobWellFormed DEF SoundTasks, Goto, WellFormed
<1>2. WellFormed(pc'[t], job'[t])
  BY <1>1, NoJobWellFormed
<1> QED BY <1>1, <1>2 DEF SoundTasks

\* What a task past its first step can rely on.
LEMMA TaskFacts ==
  ASSUME SoundTasks, NEW t \in Requests
  PROVE  /\ job[t] \in Job
         /\ pc[t] # "idle" => job[t].sid \in Sids
         /\ pc[t] \in Addressed => job[t].id \in Ids
BY DEF SoundTasks, WellFormed

\* A build goes on, tries another name, or is over.
LEMMA GoingLabels ==
  ASSUME NEW j
  PROVE  Going(j) \in {"build", "candidate", "idle"} /\ Refused(j) \in {"candidate", "idle"}
BY DEF Going, Refused

-----------------------------------------------------------------------------
(* Steps of a handler *)

\* A step that keeps the sessions and the task sound, the rest as it was.
LEMMA StepKeepsInv ==
  ASSUME SessionInv, NEW t \in Requests, NEW label, NEW j, WellFormed(label, j),
         Goto(t, label, j), SoundSessions', workspaces' \subseteq Ids,
         UNCHANGED <<client, exported, state_file>>
  PROVE  SessionInv'
<1>1. SoundTasks'
  BY GotoKeepsSound DEF SessionInv
<1> QED BY <1>1 DEF SessionInv, SoundFile

\* The common part of the first steps.
LEMMA EnterKeepsInv ==
  ASSUME SessionInv, NEW t \in Requests, NEW s \in Sids, NEW clients, NEW label, NEW j,
         WellFormed(label, j), Enter(t, s, clients, label, j)
  PROVE  SessionInv'
<1>1. SoundSessions'
  BY TouchedSound DEF SessionInv, SoundSessions, Enter, Touched
<1> QED BY <1>1, StepKeepsInv DEF SessionInv, Enter

\* The first steps.
LEMMA FirstKeepsInv ==
  ASSUME SessionInv, NEW t \in Requests,
         Create(t) \/ Fork(t) \/ Prepare(t) \/ Destroy(t) \/ Adopt(t)
  PROVE  SessionInv'
<1> USE DEF Ops, Labels, Addressed
<1> workspaces \subseteq Ids
  BY DEF SessionInv
<1>1. CASE Create(t)
  <2> PICK s \in Sids :
        Enter(t, s, {"agent", "dashboard"},
              IF client[s] = "dashboard" THEN "build" ELSE "quota",
              [NoJob EXCEPT !.op = "create", !.sid = s, !.todo = 1])
    BY <1>1 DEF Create
  <2>1. WellFormed(IF client[s] = "dashboard" THEN "build" ELSE "quota",
                   [NoJob EXCEPT !.op = "create", !.sid = s, !.todo = 1])
    <3>1. 1 \in 0..MaxBatch + 1
      BY QuotaAssumption
    <3> QED BY <3>1, NoJobWellFormed DEF WellFormed, Job
  <2> QED BY <2>1, EnterKeepsInv
<1>2. CASE Fork(t)
  <2> PICK s \in Sids, i \in workspaces, n \in 1..MaxBatch :
        Enter(t, s, {"agent"}, "quota",
              [NoJob EXCEPT !.op = "fork", !.sid = s, !.src = i, !.todo = n])
    BY <1>2 DEF Fork
  <2>1. WellFormed("quota", [NoJob EXCEPT !.op = "fork", !.sid = s, !.src = i, !.todo = n])
    <3>1. n \in 0..MaxBatch + 1 /\ i \in Ids
      BY QuotaAssumption
    <3> QED BY <3>1, NoJobWellFormed DEF WellFormed, Job
  <2> QED BY <2>1, EnterKeepsInv
<1>3. CASE Prepare(t)
  <2> PICK s \in Sids :
        Enter(t, s, {"agent", "bridge"}, "candidate",
              [NoJob EXCEPT !.op = "prepare", !.sid = s])
    BY <1>3 DEF Prepare
  <2>1. WellFormed("candidate", [NoJob EXCEPT !.op = "prepare", !.sid = s])
    BY NoJobWellFormed, QuotaAssumption DEF WellFormed, Job
  <2> QED BY <2>1, EnterKeepsInv
<1>4. CASE Destroy(t)
  <2> PICK s \in Sids, i \in workspaces :
        Enter(t, s, {"agent", "dashboard"},
              IF client[s] = "dashboard" THEN "destroy" ELSE "owner",
              [NoJob EXCEPT !.op = "destroy", !.sid = s, !.id = i, !.force = TRUE])
    BY <1>4 DEF Destroy
  <2>1. WellFormed(IF client[s] = "dashboard" THEN "destroy" ELSE "owner",
                   [NoJob EXCEPT !.op = "destroy", !.sid = s, !.id = i, !.force = TRUE])
    BY NoJobWellFormed, QuotaAssumption DEF WellFormed, Job
  <2> QED BY <2>1, EnterKeepsInv
<1>5. CASE Adopt(t)
  <2> PICK s \in Sids, i \in workspaces, force \in BOOLEAN :
        Enter(t, s, {"agent", "dashboard"}, "adopt",
              [NoJob EXCEPT !.op = "adopt", !.sid = s, !.id = i, !.force = force])
    BY <1>5 DEF Adopt
  <2>1. WellFormed("adopt",
                   [NoJob EXCEPT !.op = "adopt", !.sid = s, !.id = i, !.force = force])
    BY NoJobWellFormed, QuotaAssumption DEF WellFormed, Job
  <2> QED BY <2>1, EnterKeepsInv
<1> QED BY <1>1, <1>2, <1>3, <1>4, <1>5

\* purge_stale_sessions leaves the one session that called.
LEMMA AdoptAllKeepsInv ==
  ASSUME SessionInv, NEW t \in Requests, AdoptAll(t)
  PROVE  SessionInv'
<1> PICK s \in Sids, force \in BOOLEAN :
      /\ Goto(t, "list", [NoJob EXCEPT !.op = "adoptAll", !.sid = s, !.force = force])
      /\ sessions' = [r \in Sids |-> IF r = s THEN Touched(s)[s] ELSE None]
      /\ UNCHANGED <<workspaces, client, exported, state_file>>
  BY DEF AdoptAll
<1>1. Touched(s)[s] \in Sound \cup {None}
  BY TouchedSound DEF Touched, SessionInv, SoundSessions
<1>2. SoundSessions'
  BY <1>1 DEF SoundSessions
<1>3. WellFormed("list", [NoJob EXCEPT !.op = "adoptAll", !.sid = s, !.force = force])
  BY NoJobWellFormed, QuotaAssumption DEF WellFormed, Job, Ops, Labels, Addressed
<1> QED BY <1>2, <1>3, StepKeepsInv DEF SessionInv

-----------------------------------------------------------------------------
(* Steps that build *)

\* check_quota decides and changes nothing.
LEMMA CheckQuotaKeepsInv ==
  ASSUME SessionInv, NEW t \in Requests, CheckQuota(t)
  PROVE  SessionInv'
<1>1. job[t] \in Job /\ job[t].sid \in Sids
  BY TaskFacts DEF SessionInv, CheckQuota, At
<1>2. SoundSessions' /\ workspaces' \subseteq Ids /\ UNCHANGED <<client, exported, state_file>>
  BY DEF SessionInv, SoundSessions, CheckQuota, At
<1>3. CASE Goto(t, "build", job[t])
  <2>1. WellFormed("build", job[t])
    BY <1>1 DEF WellFormed, Labels, Addressed
  <2> QED BY <1>2, <1>3, <2>1, StepKeepsInv
<1>4. CASE Goto(t, Refused(job[t]), [job[t] EXCEPT !.todo = 0])
  <2>1. WellFormed(Refused(job[t]), [job[t] EXCEPT !.todo = 0])
    BY <1>1, GoingLabels, QuotaAssumption DEF WellFormed, Labels, Addressed, Job
  <2> QED BY <1>2, <1>4, <2>1, StepKeepsInv
<1> QED BY <1>3, <1>4 DEF CheckQuota

\* The workspace manager registers one more id, or fails.
LEMMA MakeKeepsInv ==
  ASSUME SessionInv, NEW t \in Requests, Make(t)
  PROVE  SessionInv'
<1> DEFINE j == [job[t] EXCEPT !.todo = @ - 1]
<1>1. job[t] \in Job /\ job[t].sid \in Sids
  BY TaskFacts DEF SessionInv, Make, At
<1>2. job[t].todo - 1 \in 0..MaxBatch + 1
  <2>1. job[t].todo > 0
    BY DEF Make
  <2>2. job[t].todo \in 0..MaxBatch + 1
    BY <1>1 DEF Job
  <2> QED BY <2>1, <2>2, QuotaAssumption
<1>3. j \in Job /\ j.sid \in Sids
  BY <1>1, <1>2 DEF Job
<1>4. SoundSessions' /\ UNCHANGED <<client, exported, state_file>>
  BY DEF SessionInv, SoundSessions, Make, At
<1>5. CASE \E i \in Ids : /\ workspaces' = workspaces \cup {i}
                         /\ Goto(t, "build", [j EXCEPT !.made = @ \cup {i}])
  <2> PICK i \in Ids : /\ workspaces' = workspaces \cup {i}
                       /\ Goto(t, "build", [j EXCEPT !.made = @ \cup {i}])
    BY <1>5
  <2>1. j.made \cup {i} \in SUBSET Ids
    BY <1>3 DEF Job
  <2>2. WellFormed("build", [j EXCEPT !.made = @ \cup {i}])
    BY <1>3, <2>1 DEF WellFormed, Labels, Addressed, Job
  <2> QED BY <1>4, <2>2, StepKeepsInv DEF SessionInv
<1>6. CASE UNCHANGED workspaces /\ Goto(t, Going(j), j)
  <2>1. WellFormed(Going(j), j)
    BY <1>3, GoingLabels DEF WellFormed, Labels, Addressed
  <2> QED BY <1>4, <1>6, <2>1, StepKeepsInv DEF SessionInv
<1> QED BY <1>5, <1>6 DEF Make

\* Register, for the workspace i it registers and the job j it leaves.
RegisterStep(t, i, j) ==
  /\ At(t, "build") /\ UNCHANGED workspaces
  /\ \/ /\ Room(j.sid, 1) /\ sessions' = Registered(j.sid, i)
        /\ \/ Goto(t, Going(j), j)
           \/ \E label \in {"idle", "destroy"} : Goto(t, label, [j EXCEPT !.id = i])
     \/ /\ UNCHANGED sessions
        /\ \/ Goto(t, Going(j), j)
           \/ Goto(t, "destroy", [j EXCEPT !.id = i, !.made = job[t].made])

\* The session gains a workspace, or what was built is to be destroyed.
LEMMA RegisterKeepsInv ==
  ASSUME SessionInv, NEW t \in Requests, Register(t)
  PROVE  SessionInv'
<1> PICK i \in job[t].made : RegisterStep(t, i, [job[t] EXCEPT !.made = @ \ {i}])
  BY DEF Register, RegisterStep
<1> DEFINE j == [job[t] EXCEPT !.made = @ \ {i}]
<1> USE DEF RegisterStep
<1>1. job[t] \in Job /\ job[t].sid \in Sids
  BY TaskFacts DEF SessionInv, At
<1>2. i \in Ids /\ job[t].made \ {i} \in SUBSET Ids
  BY <1>1 DEF Job
<1>3. j \in Job /\ j.sid = job[t].sid
  BY <1>1, <1>2 DEF Job
<1>4. workspaces' \subseteq Ids /\ UNCHANGED <<client, exported, state_file>>
  BY DEF SessionInv, At
<1>5. SoundSessions'
  <2>1. CASE Room(j.sid, 1) /\ sessions' = Registered(j.sid, i)
    BY <1>1, <1>2, <1>3, <2>1, RegisteredSound DEF SessionInv, SoundSessions
  <2>2. CASE UNCHANGED sessions
    BY <2>2 DEF SessionInv, SoundSessions
  <2> QED BY <2>1, <2>2
<1>6. \E label, k : WellFormed(label, k) /\ Goto(t, label, k)
  <2>1. CASE Goto(t, Going(j), j)
    <3>1. WellFormed(Going(j), j)
      BY <1>1, <1>3, GoingLabels DEF WellFormed, Labels, Addressed
    <3> QED BY <2>1, <3>1
  <2>2. CASE \E label \in {"idle", "destroy"} : Goto(t, label, [j EXCEPT !.id = i])
    <3> PICK label \in {"idle", "destroy"} : Goto(t, label, [j EXCEPT !.id = i])
      BY <2>2
    <3>1. WellFormed(label, [j EXCEPT !.id = i])
      BY <1>1, <1>2, <1>3 DEF WellFormed, Labels, Addressed, Job
    <3> QED BY <3>1
  <2>3. CASE Goto(t, "destroy", [j EXCEPT !.id = i, !.made = job[t].made])
    <3>1. WellFormed("destroy", [j EXCEPT !.id = i, !.made = job[t].made])
      BY <1>1, <1>2, <1>3 DEF WellFormed, Labels, Addressed, Job
    <3> QED BY <2>3, <3>1
  <2> QED BY <2>1, <2>2, <2>3
<1> QED BY <1>4, <1>5, <1>6, StepKeepsInv

\* workspace_prepare looks for a workspace by name.
LEMMA CandidateKeepsInv ==
  ASSUME SessionInv, NEW t \in Requests, Candidate(t)
  PROVE  SessionInv'
<1>1. job[t] \in Job /\ job[t].sid \in Sids
  BY TaskFacts DEF SessionInv, Candidate, At
<1>2. /\ SoundSessions' /\ workspaces \subseteq Ids /\ workspaces' \subseteq Ids
      /\ UNCHANGED <<client, exported, state_file>>
  BY DEF SessionInv, SoundSessions, Candidate, At
<1>3. CASE \E i \in workspaces : Goto(t, "adopt", [job[t] EXCEPT !.id = i])
  <2> PICK i \in workspaces : Goto(t, "adopt", [job[t] EXCEPT !.id = i])
    BY <1>3
  <2>1. WellFormed("adopt", [job[t] EXCEPT !.id = i])
    BY <1>1, <1>2 DEF WellFormed, Labels, Addressed, Job
  <2> QED BY <1>2, <2>1, StepKeepsInv
<1>4. CASE Goto(t, "quota", [job[t] EXCEPT !.id = None, !.todo = 1])
  <2>1. 1 \in 0..MaxBatch + 1
    BY QuotaAssumption
  <2>2. WellFormed("quota", [job[t] EXCEPT !.id = None, !.todo = 1])
    BY <1>1, <2>1 DEF WellFormed, Labels, Addressed, Job
  <2> QED BY <1>2, <1>4, <2>2, StepKeepsInv
<1>5. CASE Goto(t, "idle", job[t])
  <2>1. WellFormed("idle", job[t])
    BY <1>1 DEF WellFormed, Labels, Addressed
  <2> QED BY <1>2, <1>5, <2>1, StepKeepsInv
<1> QED BY <1>3, <1>4, <1>5 DEF Candidate

-----------------------------------------------------------------------------
(* Steps that adopt and destroy *)

\* The check of the owner decides between destroying and adopting.
LEMMA CheckOwnerKeepsInv ==
  ASSUME SessionInv, NEW t \in Requests, CheckOwner(t)
  PROVE  SessionInv'
<1>1. job[t] \in Job /\ job[t].sid \in Sids /\ job[t].id \in Ids
  BY TaskFacts DEF SessionInv, CheckOwner, At, Addressed
<1>2. SoundSessions' /\ workspaces' \subseteq Ids /\ UNCHANGED <<client, exported, state_file>>
  BY DEF SessionInv, SoundSessions, CheckOwner, At
<1>3. \E label \in {"destroy", "adopt"} : Goto(t, label, job[t])
  BY DEF CheckOwner
<1>4. \A label \in {"destroy", "adopt"} : WellFormed(label, job[t])
  BY <1>1 DEF WellFormed, Labels, Addressed
<1> QED BY <1>2, <1>3, <1>4, StepKeepsInv

\* adopt_workspace for one id.
LEMMA AdoptOneKeepsInv ==
  ASSUME SessionInv, NEW t \in Requests, AdoptOne(t)
  PROVE  SessionInv'
<1> DEFINE force == job[t].force \/ job[t].op = "prepare"
<1>1. job[t] \in Job /\ job[t].sid \in Sids /\ job[t].id \in Ids
  BY TaskFacts DEF SessionInv, AdoptOne, At, Addressed
<1>2. workspaces' \subseteq Ids /\ UNCHANGED <<client, exported, state_file>>
  BY DEF SessionInv, AdoptOne, At
<1>3. SoundSessions'
  <2>1. force \in BOOLEAN
    BY <1>1 DEF Job
  <2>2. \/ AdoptWorkspace(job[t].sid, job[t].id, force)
        \/ AdoptRefused(job[t].sid, job[t].id, force)
    BY DEF AdoptOne
  <2> QED BY <1>1, <2>1, <2>2, AdoptKeepsSound DEF SessionInv
<1>4. \/ \E label \in {"destroy", "idle"} : Goto(t, label, job[t])
      \/ Goto(t, "candidate", [job[t] EXCEPT !.force = TRUE, !.id = None])
  BY DEF AdoptOne
<1>5. \A label \in {"destroy", "idle"} : WellFormed(label, job[t])
  BY <1>1 DEF WellFormed, Labels, Addressed
<1>6. WellFormed("candidate", [job[t] EXCEPT !.force = TRUE, !.id = None])
  BY <1>1 DEF WellFormed, Labels, Addressed, Job
<1> QED BY <1>2, <1>3, <1>4, <1>5, <1>6, StepKeepsInv

\* The end of a destroy leads on, to the rest of a build or to unregister.
LEMMA DestroyedGoes ==
  ASSUME NEW t, NEW j \in Job, j.sid \in Sids, j.id \in Ids, Destroyed(t, j)
  PROVE  \E label, k : WellFormed(label, k) /\ Goto(t, label, k)
<1> DEFINE rest == [j EXCEPT !.made = @ \ {j.id}, !.id = None]
<1>1. CASE Goto(t, Going(rest), rest)
  <2>1. j.made \ {j.id} \in SUBSET Ids
    BY DEF Job
  <2>2. rest \in Job /\ rest.sid \in Sids
    BY <2>1 DEF Job
  <2>3. WellFormed(Going(rest), rest)
    BY <2>2, GoingLabels DEF WellFormed, Labels, Addressed
  <2> QED BY <1>1, <2>3
<1>2. CASE Goto(t, "unregister", j)
  <2>1. WellFormed("unregister", j)
    BY DEF WellFormed, Labels, Addressed
  <2> QED BY <1>2, <2>1
<1> QED BY <1>1, <1>2 DEF Destroyed

\* The two steps of the destroy of the workspace manager.
LEMMA DestroyKeepsInv ==
  ASSUME SessionInv, NEW t \in Requests, DestroyOne(t) \/ Remove(t)
  PROVE  SessionInv'
<1>1. job[t] \in Job /\ job[t].sid \in Sids /\ job[t].id \in Ids
  BY TaskFacts DEF SessionInv, DestroyOne, Remove, At, Addressed
<1>2. SoundSessions' /\ workspaces' \subseteq Ids /\ UNCHANGED <<client, exported, state_file>>
  BY DEF SessionInv, SoundSessions, DestroyOne, Remove, At
<1>3. \/ \E label \in {"remove", "idle"} : Goto(t, label, job[t])
      \/ Destroyed(t, job[t])
  BY DEF DestroyOne, Remove
<1>4. \A label \in {"remove", "idle"} : WellFormed(label, job[t])
  BY <1>1 DEF WellFormed, Labels, Addressed
<1>5. \E label, k : WellFormed(label, k) /\ Goto(t, label, k)
  BY <1>1, <1>3, <1>4, DestroyedGoes
<1> QED BY <1>2, <1>5, StepKeepsInv

\* unregister_workspace ends a destroy.
LEMMA UnregisterKeepsInv ==
  ASSUME SessionInv, NEW t \in Requests, Unregister(t)
  PROVE  SessionInv'
<1>1. job[t] \in Job /\ job[t].sid \in Sids
  BY TaskFacts DEF SessionInv, Unregister, At
<1>2. workspaces' \subseteq Ids /\ UNCHANGED <<client, exported, state_file>>
  BY DEF SessionInv, Unregister, At
<1>3. SoundSessions'
  <2>1. \E units \in {0, 1} : sessions' = Unregistered(job[t].sid, job[t].id, units)
    BY DEF Unregister
  <2> QED BY <1>1, <2>1, UnregisteredSound DEF SessionInv, SoundSessions
<1>4. WellFormed("idle", job[t])
  BY <1>1 DEF WellFormed, Labels, Addressed
<1> QED BY <1>2, <1>3, <1>4, StepKeepsInv DEF Unregister

\* workspace_adopt without an id, step by step.
LEMMA AdoptEachKeepsInv ==
  ASSUME SessionInv, NEW t \in Requests, ListAll(t) \/ Candidates(t) \/ AdoptNext(t)
  PROVE  SessionInv'
<1>1. job[t] \in Job /\ job[t].sid \in Sids
  BY TaskFacts DEF SessionInv, ListAll, Candidates, AdoptNext, At
<1>2. \A made \in SUBSET Ids :
        /\ WellFormed("candidates", [job[t] EXCEPT !.made = made])
        /\ WellFormed(Remaining(made), [job[t] EXCEPT !.made = made])
  BY <1>1 DEF WellFormed, Labels, Addressed, Job, Remaining
<1>3. workspaces' \subseteq Ids /\ UNCHANGED <<client, exported, state_file>>
  BY DEF SessionInv, ListAll, Candidates, AdoptNext, At
<1>4. CASE ListAll(t)
  <2>1. SoundSessions'
    BY <1>4 DEF SessionInv, SoundSessions, ListAll
  <2> QED BY <1>2, <1>3, <1>4, <2>1, StepKeepsInv DEF ListAll, SessionInv
<1>5. CASE Candidates(t)
  <2> DEFINE chosen == {i \in job[t].made : IF job[t].force THEN ~Owns(job[t].sid, i)
                                            ELSE Owners(i) = {}}
  <2>1. SoundSessions' /\ Goto(t, Remaining(chosen), [job[t] EXCEPT !.made = chosen])
    BY <1>5 DEF SessionInv, SoundSessions, Candidates
  <2>2. chosen \in SUBSET Ids
    BY <1>1 DEF Job
  <2> HIDE DEF chosen
  <2> QED BY <1>2, <1>3, <2>1, <2>2, StepKeepsInv
<1>6. CASE AdoptNext(t)
  <2> PICK i \in job[t].made :
        /\ \/ AdoptWorkspace(job[t].sid, i, job[t].force)
           \/ AdoptRefused(job[t].sid, i, job[t].force)
        /\ Goto(t, Remaining(job[t].made \ {i}), [job[t] EXCEPT !.made = @ \ {i}])
    BY <1>1, <1>6 DEF AdoptNext, Job
  <2>1. i \in Ids /\ job[t].force \in BOOLEAN /\ job[t].made \ {i} \in SUBSET Ids
    BY <1>1 DEF Job
  <2>2. SoundSessions'
    BY <1>1, <2>1, AdoptKeepsSound DEF SessionInv
  <2> QED BY <1>2, <1>3, <2>1, <2>2, StepKeepsInv
<1> QED BY <1>4, <1>5, <1>6

\* Every step of a handler.
LEMMA CallKeepsInv ==
  ASSUME SessionInv, NEW t \in Requests, Call(t)
  PROVE  SessionInv'
BY FirstKeepsInv, AdoptAllKeepsInv, CheckQuotaKeepsInv, MakeKeepsInv, RegisterKeepsInv,
   CandidateKeepsInv, CheckOwnerKeepsInv, AdoptOneKeepsInv, DestroyKeepsInv,
   UnregisterKeepsInv, AdoptEachKeepsInv
   DEF Call

-----------------------------------------------------------------------------
(* Steps of the rest of the daemon *)

\* A step that changes nothing but sessions and their clients.
LEMMA SessionsOnlyKeepInv ==
  ASSUME SessionInv, SoundSessions', client' \in [Sids -> Clients],
         UNCHANGED <<workspaces, exported, state_file, pc, job>>
  PROVE  SessionInv'
BY DEF SessionInv, SoundTasks, SoundFile

\* Sessions that come, are heard of, fall silent and go.
LEMMA ConnectionsKeepInv ==
  ASSUME SessionInv, NEW s \in Sids, Touch(s) \/ MinutePasses(s) \/ Connect(s) \/ Disconnect(s)
  PROVE  SessionInv'
<1> USE DEF SessionInv
<1>1. CASE Touch(s)
  <2>1. SoundSessions'
    BY <1>1, TouchedSound DEF Touch, Touched, SoundSessions
  <2> QED BY <1>1, <2>1, SessionsOnlyKeepInv DEF Touch
<1>2. CASE MinutePasses(s)
  <2>1. SoundSessions'
    BY <1>2, TouchedSound DEF MinutePasses, SoundSessions
  <2> QED BY <1>2, <2>1, SessionsOnlyKeepInv DEF MinutePasses
<1>3. CASE Connect(s)
  <2>1. SoundSessions'
    BY <1>3, NewSessionSound DEF Connect, SoundSessions
  <2>2. client' \in [Sids -> Clients]
    BY <1>3 DEF Connect, Clients
  <2> QED BY <1>3, <2>1, <2>2, SessionsOnlyKeepInv DEF Connect
<1>4. CASE Disconnect(s)
  <2>1. SoundSessions'
    BY <1>4 DEF Disconnect, SoundSessions
  <2>2. client' \in [Sids -> Clients]
    BY <1>4 DEF Disconnect, Clients
  <2> QED BY <1>4, <2>1, <2>2, SessionsOnlyKeepInv DEF Disconnect
<1> QED BY <1>1, <1>2, <1>3, <1>4

\* A session that owns nothing is within any quota.
LEMMA NothingIsSmall == {} \in Small
BY FS_EmptySet, QuotaAssumption DEF Small

\* What save_state reads of a session fits the quota, since its counters do.
LEMMA SavesKeepInv ==
  ASSUME SessionInv, SaveSessions \/ SaveWorkspaces
  PROVE  SessionInv'
<1>1. CASE SaveSessions
  <2>1. \A s \in Sids : Known(s) => sessions[s].owned \in Small
    BY KnownSound, SoundIsSmall DEF SessionInv
  <2>2. Ownership \in [Sids -> Small]
    BY <2>1, NothingIsSmall DEF Ownership
  <2> QED BY <1>1, <2>2 DEF SaveSessions, SessionInv, SoundSessions, SoundTasks, SoundFile
<1>2. CASE SaveWorkspaces
  <2>1. exported \in [Sids -> Small] /\ workspaces \in SUBSET Ids
    BY <1>2 DEF SaveWorkspaces, SessionInv, SoundFile
  <2>2. state_file' \in [workspaces : SUBSET Ids, owners : [Sids -> Small]]
    BY <1>2, <2>1 DEF SaveWorkspaces
  <2> QED BY <1>2, <2>2 DEF SaveWorkspaces, SessionInv, SoundSessions, SoundTasks, SoundFile
<1> QED BY <1>1, <1>2

\* No handler survives a restart.
LEMMA IdleTasksSound ==
  ASSUME pc' = [t \in Requests |-> "idle"], job' = [t \in Requests |-> NoJob]
  PROVE  SoundTasks'
BY NoJobWellFormed DEF SoundTasks, Labels

\* The file fitted the quota, hence what is left of it does.
LEMMA RestartKeepsInv ==
  ASSUME SessionInv, Restart
  PROVE  SessionInv'
<1> PICK kept \in Kept, a, d \in Sids :
      /\ workspaces' = kept
      /\ sessions' = [s \in Sids |-> IF s \in {a, d} THEN NewSession
                                     ELSE Restored(StillThere(s, kept))]
      /\ client' = Started(a, d) /\ exported' = None
      /\ pc' = [t \in Requests |-> "idle"] /\ job' = [t \in Requests |-> NoJob]
      /\ UNCHANGED state_file
  BY DEF Restart
<1>1. workspaces' \subseteq Ids
  BY DEF Kept, SessionInv, SoundFile
<1>2. \A s \in Sids : Restored(StillThere(s, kept)) \in Sound \cup {None}
  <2> TAKE s \in Sids
  <2>1. state_file.owners[s] \in Small
    BY DEF SessionInv, SoundFile
  <2> QED BY <2>1, RestoredSound DEF StillThere
<1>3. SoundSessions'
  BY <1>2, NewSessionSound DEF SoundSessions
<1>4. client' \in [Sids -> Clients]
  BY DEF Started, Clients
<1>5. SoundTasks'
  BY IdleTasksSound
<1>6. SoundFile'
  BY DEF SessionInv, SoundFile
<1> QED BY <1>1, <1>3, <1>4, <1>5, <1>6 DEF SessionInv

-----------------------------------------------------------------------------
(* The specification *)

\* The daemon starts with two sessions that own nothing.
LEMMA InitEstablishesInv == Init => SessionInv
<1> SUFFICES ASSUME Init PROVE SessionInv
  OBVIOUS
<1> PICK a, d \in Sids :
      /\ sessions = [s \in Sids |-> IF s \in {a, d} THEN NewSession ELSE None]
      /\ client = Started(a, d)
  BY DEF Init
<1>1. SoundSessions
  BY NewSessionSound DEF SoundSessions
<1>2. client \in [Sids -> Clients]
  BY DEF Started, Clients
<1>3. SoundTasks
  BY NoJobWellFormed DEF Init, SoundTasks, Labels
<1>4. SoundFile
  BY NothingIsSmall DEF Init, SoundFile
<1> QED BY <1>1, <1>2, <1>3, <1>4 DEF Init, SessionInv

\* SessionInv is inductive.
LEMMA NextKeepsInv == SessionInv /\ [Next]_vars => SessionInv'
<1> SUFFICES ASSUME SessionInv, [Next]_vars PROVE SessionInv'
  OBVIOUS
<1>1. CASE \E t \in Requests : Call(t)
  BY <1>1, CallKeepsInv
<1>2. CASE Daemon
  BY <1>2, ConnectionsKeepInv, SavesKeepInv, RestartKeepsInv DEF Daemon
<1>3. CASE UNCHANGED vars
  BY <1>3 DEF vars, SessionInv, SoundSessions, SoundTasks, SoundFile
<1> QED BY <1>1, <1>2, <1>3 DEF Next

\* The history variable holds ids.
LEMMA DisputedAreIds ==
  /\ Init => disputed \subseteq Ids
  /\ disputed \subseteq Ids /\ [Next]_vars => (disputed \subseteq Ids)'
BY DEF Init, Next, Disputes, vars

\* The state keeps its shape, the quotas and locals of every handler included.
THEOREM SessionTypes == Spec => []TypeOK
<1>1. SessionInv /\ disputed \subseteq Ids => TypeOK
  BY DEF SessionInv, SoundSessions, SoundTasks, SoundFile, Sound, Small, Owned, TypeOK
<1> QED BY <1>1, InitEstablishesInv, NextKeepsInv, DisputedAreIds, PTL DEF Spec

\* No session ever owns more than its quota, whatever calls run at the same time
\* and however often the daemon restarts.
THEOREM SessionQuota == Spec => []WithinQuota
<1>1. SessionInv => WithinQuota
  <2> SUFFICES ASSUME SessionInv, NEW s \in Sids, Known(s)
               PROVE  /\ Cardinality(sessions[s].owned) <= MaxWorkspaces
                      /\ Cardinality(sessions[s].owned) <= MaxMemory
    BY DEF WithinQuota
  <2>1. sessions[s].owned \in Small
    BY KnownSound, SoundIsSmall DEF SessionInv
  <2> QED BY <2>1 DEF Small
<1> QED BY <1>1, InitEstablishesInv, NextKeepsInv, PTL DEF Spec
-----------------------------------------------------------------------------
(* Ownership: who may own a workspace that no two calls raced for          *)

\* What a task has made and not registered yet, and what it is about to remove.
Building(t, i) == i \in job[t].made /\ job[t].op # "adoptAll"
Unregistering(t, i) == pc[t] = "unregister" /\ job[t].id = i
Removing(t, i) ==
  job[t].id = i /\ i \notin job[t].made /\ pc[t] \in {"destroy", "remove", "unregister"}

\* What a task works on exists until the task takes it out of the registry; what it
\* builds has no owner yet, and what it removes has none but the session it serves.
TaskPeace(t, i) ==
  /\ Uses(t, i) => i \in workspaces \/ Unregistering(t, i)
  /\ Building(t, i) => Owners(i) = {}
  /\ Removing(t, i) => Owners(i) \subseteq {job[t].sid}

SavedOnce(owners, i) == \A s, r \in Sids : i \in owners[s] /\ i \in owners[r] => s = r

Peace(i) ==
  /\ \A s, r \in Owners(i) : s = r
  /\ exported # None => SavedOnce(exported, i)
  /\ SavedOnce(state_file.owners, i)
  /\ Owners(i) # {} => i \in workspaces \/ \E t \in Requests : Unregistering(t, i)
  /\ \A t \in Requests : TaskPeace(t, i)

\* A task that checks a quota or adopts has built nothing, one that unregisters does
\* not unregister what it builds, and only adopting all runs over a list.
Tidy(label, j) ==
  /\ label \in {"quota", "candidate", "owner", "adopt"} => j.made = {}
  /\ label = "unregister" => j.id \notin j.made
  /\ label # "idle" => (j.op = "adoptAll" <=> label \in {"list", "candidates", "adoptNext"})

TidyTasks == \A t \in Requests : Tidy(pc[t], job[t])
PeaceInv ==
  /\ SessionInv /\ TidyTasks
  /\ Disputes \subseteq disputed
  /\ \A i \in Ids \ disputed : Peace(i)

-----------------------------------------------------------------------------
(* What a change of the sessions does to the owners of a workspace *)

\* Touching a session gives it nothing.
LEMMA TouchedOwners ==
  ASSUME SoundSessions, NEW s \in Sids, NEW i, NEW heard, Known(s),
         sessions' = [sessions EXCEPT ![s].active = heard]
  PROVE  Owners(i)' \subseteq Owners(i)
<1>1. sessions[s] \in Session
  BY KnownSound DEF Sound
<1>2. sessions'[s].owned = sessions[s].owned /\ \A r \in Sids \ {s} : sessions'[r] = sessions[r]
  BY <1>1 DEF SoundSessions, Session
<1> QED BY <1>2 DEF Owners, Owns, Known

\* Sessions that are as they were, or gone, own no more than before.
LEMMA GoneOwners ==
  ASSUME NEW i, \A r \in Sids : sessions'[r] = sessions[r] \/ sessions'[r] = None
  PROVE  Owners(i)' \subseteq Owners(i)
BY DEF Owners, Owns, Known

\* Registering a workspace gives it one more owner, and no other workspace any.
LEMMA RegisteredOwners ==
  ASSUME SoundSessions, NEW s \in Sids, NEW x \in Ids, NEW i, Known(s),
         sessions' = Registered(s, x)
  PROVE  /\ Owners(i)' \subseteq Owners(i) \cup {s}
         /\ i # x => Owners(i)' \subseteq Owners(i)
<1>1. sessions[s] \in Session
  BY KnownSound DEF Sound
<1>2. sessions'[s].owned = sessions[s].owned \cup {x}
      /\ \A r \in Sids \ {s} : sessions'[r] = sessions[r]
  BY <1>1 DEF Registered, Gain, SoundSessions, Session
<1> QED BY <1>2 DEF Owners, Owns, Known

\* After an adoption the adopter is the only owner, if there was one at most.
LEMMA AdoptedOwners ==
  ASSUME SoundSessions, NEW s \in Sids, NEW x \in Ids, NEW i, NEW force \in BOOLEAN,
         AdoptWorkspace(s, x, force)
  PROVE  /\ i # x => Owners(i)' \subseteq Owners(i)
         /\ (\A r, q \in Owners(x) : r = q) => Owners(x)' \subseteq {s}
<1>1. CASE Owns(s, x) /\ sessions' = sessions
  BY <1>1 DEF Owners, Owns, Known
<1>2. CASE \E p \in TakenFrom(s, x, force) :
             ~Owns(s, x) /\ Room(s, 1) /\ sessions' = Moved(s, x, p)
  <2> PICK p \in TakenFrom(s, x, force) : ~Owns(s, x) /\ sessions' = Moved(s, x, p)
    BY <1>2
  <2>1. sessions[s] \in Session /\ Known(s)
    BY KnownSound DEF Sound, AdoptWorkspace
  <2>2. sessions'[s].owned = sessions[s].owned \cup {x}
    BY <2>1 DEF Moved, Gain, Session
  <2>3. ASSUME p \in Sids, p # s
        PROVE  Known(p) /\ Owns(p, x) /\ sessions'[p].owned = sessions[p].owned \ {x}
    <3>1. Known(p) /\ Owns(p, x)
      BY <2>3, SidsAssumption DEF TakenFrom, Others, Owners, Owns
    <3>2. sessions[p] \in Session
      BY <2>3, <3>1, KnownSound DEF Sound
    <3>3. sessions'[p] = Lose(sessions[p], x, 1)
      BY <2>3 DEF Moved
    <3> QED BY <3>1, <3>2, <3>3 DEF Lose, Session
  <2>4. \A r \in Sids \ {s, p} : sessions'[r] = sessions[r]
    BY DEF Moved
  <2>5. i # x => Owners(i)' \subseteq Owners(i)
    BY <2>1, <2>2, <2>3, <2>4 DEF Owners, Owns, Known
  <2>6. ASSUME \A r, q \in Owners(x) : r = q, NEW r \in Owners(x)', r # s
        PROVE  FALSE
    <3>1. r \in Sids /\ x \in sessions'[r].owned /\ sessions'[r] # None
      BY DEF Owners, Owns, Known
    <3>2. r # p
      BY <2>3, <2>6, <3>1
    <3>3. r \in Owners(x)
      BY <2>4, <2>6, <3>1, <3>2 DEF Owners, Owns, Known
    <3>4. p \in Owners(x)
      BY <2>6, <3>3 DEF TakenFrom, Others
    <3> QED BY <2>6, <3>2, <3>3, <3>4
  <2> QED BY <2>5, <2>6
<1> QED BY <1>1, <1>2 DEF AdoptWorkspace

\* Unregistering takes a workspace from its session, and nothing from another.
LEMMA UnregisteredOwners ==
  ASSUME SoundSessions, NEW s \in Sids, NEW x, NEW i, NEW units,
         sessions' = Unregistered(s, x, units)
  PROVE  /\ Owners(i)' \subseteq Owners(i)
         /\ Owners(x) \subseteq {s} => Owners(x)' = {}
<1>1. CASE Owns(s, x)
  <2>1. sessions[s] \in Session
    BY <1>1, KnownSound DEF Sound, Owns
  <2>2. sessions'[s].owned = sessions[s].owned \ {x}
        /\ \A r \in Sids \ {s} : sessions'[r] = sessions[r]
    BY <1>1, <2>1 DEF Unregistered, Lose, SoundSessions, Session
  <2>3. Owners(i)' \subseteq Owners(i) /\ Owners(x)' \subseteq Owners(x) /\ s \notin Owners(x)'
    BY <1>1, <2>2 DEF Owners, Owns, Known
  <2> QED BY <2>3
<1>2. CASE ~Owns(s, x)
  BY <1>2 DEF Unregistered, Owners, Owns, Known
<1> QED BY <1>1, <1>2
-----------------------------------------------------------------------------
(* What a step may do to a workspace *)

\* Two tasks at work on a workspace have made it disputed.
LEMMA OneUser ==
  ASSUME NEW i \in Ids, i \notin Disputes, NEW t \in Requests, NEW u \in Requests,
         Uses(t, i), Uses(u, i)
  PROVE  t = u
BY DEF Disputes

OthersStay(t) == \A u \in Requests \ {t} : pc'[u] = pc[u] /\ job'[u] = job[u]

\* A step of a task changes the owners of a workspace, or takes it from the registry,
\* only when the task works on it: the peace of the others is not disturbed.
LEMMA TaskKeepsPeace ==
  ASSUME NEW i \in Ids, Peace(i), i \notin Disputes, NEW t \in Requests,
         OthersStay(t), UNCHANGED <<exported, state_file>>,
         \/ Owners(i)' \subseteq Owners(i)
         \/ Uses(t, i) /\ \E s \in Sids : Owners(i)' \subseteq {s},
         i \in workspaces => i \in workspaces' \/ Uses(t, i),
         \/ Owners(i)' = {}
         \/ i \in workspaces' \/ Unregistering(t, i)'
         \/ i \notin workspaces /\ ~Unregistering(t, i) /\ Owners(i)' \subseteq Owners(i),
         TaskPeace(t, i)'
  PROVE  Peace(i)'
<1>1. \A s, r \in Owners(i)' : s = r
  BY DEF Peace
<1>2. (exported # None => SavedOnce(exported, i))' /\ SavedOnce(state_file.owners, i)'
  BY DEF Peace, SavedOnce
<1>3. \A u \in Requests \ {t} :
        /\ Uses(u, i)' = Uses(u, i) /\ Building(u, i)' = Building(u, i)
        /\ Removing(u, i)' = Removing(u, i) /\ Unregistering(u, i)' = Unregistering(u, i)
        /\ job'[u].sid = job[u].sid
  BY DEF OthersStay, Uses, Building, Removing, Unregistering
<1>4. (Owners(i) # {})' => i \in workspaces' \/ \E u \in Requests : Unregistering(u, i)'
  <2>1. CASE i \notin workspaces /\ ~Unregistering(t, i) /\ Owners(i)' \subseteq Owners(i)
    <3> SUFFICES ASSUME Owners(i)' # {} PROVE \E u \in Requests : Unregistering(u, i)'
      OBVIOUS
    <3>1. PICK u \in Requests : Unregistering(u, i)
      BY <2>1 DEF Peace
    <3>2. u # t
      BY <2>1, <3>1
    <3> QED BY <1>3, <3>1, <3>2
  <2> QED BY <2>1
<1>5. ASSUME NEW u \in Requests, u # t
      PROVE  TaskPeace(u, i)'
  <2>1. TaskPeace(u, i)
    BY DEF Peace
  <2>2. Uses(u, i) => ~Uses(t, i)
    BY <1>5, OneUser
  <2>3. Building(u, i) => Uses(u, i)
    BY DEF Building, Uses
  <2>4. Removing(u, i) => Uses(u, i)
    BY DEF Removing, Uses
  <2>5. /\ Uses(u, i)' = Uses(u, i) /\ Building(u, i)' = Building(u, i)
        /\ Removing(u, i)' = Removing(u, i) /\ Unregistering(u, i)' = Unregistering(u, i)
        /\ job'[u].sid = job[u].sid
    BY <1>3, <1>5
  <2>6. Uses(u, i)' => i \in workspaces' \/ Unregistering(u, i)'
    BY <2>1, <2>2, <2>5 DEF TaskPeace
  <2>7. Building(u, i)' => Owners(i)' = {}
    BY <2>1, <2>2, <2>3, <2>5 DEF TaskPeace
  <2>8. Removing(u, i)' => Owners(i)' \subseteq {job'[u].sid}
    BY <2>1, <2>2, <2>4, <2>5 DEF TaskPeace
  <2> QED BY <2>6, <2>7, <2>8 DEF TaskPeace
<1>6. \A u \in Requests : TaskPeace(u, i)'
  BY <1>5
<1> QED BY <1>1, <1>2, <1>4, <1>6 DEF Peace

\* A step that gives the workspace no owner and leaves it registered.
LEMMA KeeperKeepsPeace ==
  ASSUME NEW i \in Ids, Peace(i), i \notin Disputes, NEW t \in Requests,
         OthersStay(t), UNCHANGED <<exported, state_file>>,
         Owners(i)' \subseteq Owners(i), i \in workspaces => i \in workspaces',
         ~Unregistering(t, i),
         Uses(t, i)' => Uses(t, i) \/ i \in workspaces',
         Building(t, i)' => Building(t, i) \/ Owners(i) = {},
         Removing(t, i)' => Owners(i)' \subseteq {job[t].sid}'
  PROVE  Peace(i)'
<1>1. TaskPeace(t, i)
  BY DEF Peace
<1>2. TaskPeace(t, i)'
  BY <1>1 DEF TaskPeace
<1> QED BY <1>2, TaskKeepsPeace

\* A step that makes the session of the task the owner of what the task works on.
LEMMA GainerKeepsPeace ==
  ASSUME NEW i \in Ids, Peace(i), i \notin Disputes, NEW t \in Requests,
         OthersStay(t), UNCHANGED <<workspaces, exported, state_file>>,
         Uses(t, i), ~Unregistering(t, i),
         NEW s \in Sids, Owners(i)' \subseteq {s}, job'[t].sid = s \/ pc'[t] = "idle",
         ~Building(t, i)'
  PROVE  Peace(i)'
<1>1. i \in workspaces'
  BY DEF Peace, TaskPeace
<1>2. TaskPeace(t, i)'
  BY <1>1 DEF TaskPeace, Removing
<1> QED BY <1>1, <1>2, TaskKeepsPeace

\* A step of no task that gives the workspace no owner.
LEMMA QuietKeepsPeace ==
  ASSUME NEW i \in Ids, Peace(i), Owners(i)' \subseteq Owners(i),
         UNCHANGED <<workspaces, exported, state_file, pc, job>>
  PROVE  Peace(i)'
<1>1. \A u \in Requests :
        /\ Uses(u, i)' = Uses(u, i) /\ Building(u, i)' = Building(u, i)
        /\ Removing(u, i)' = Removing(u, i) /\ Unregistering(u, i)' = Unregistering(u, i)
        /\ job'[u].sid = job[u].sid
  BY DEF Uses, Building, Removing, Unregistering
<1>2. \A u \in Requests : TaskPeace(u, i)'
  BY <1>1 DEF Peace, TaskPeace
<1>3. \A s, r \in Owners(i)' : s = r
  BY DEF Peace
<1>4. (exported # None => SavedOnce(exported, i))' /\ SavedOnce(state_file.owners, i)'
  BY DEF Peace, SavedOnce
<1>5. (Owners(i) # {})' => i \in workspaces' \/ \E u \in Requests : Unregistering(u, i)'
  BY <1>1 DEF Peace
<1> QED BY <1>2, <1>3, <1>4, <1>5 DEF Peace

\* What nothing refers to is at peace.
LEMMA FreshIsPeaceful ==
  \A i \in Ids : Fresh(i) => Peace(i)
<1> SUFFICES ASSUME NEW i \in Ids, Fresh(i) PROVE Peace(i)
  OBVIOUS
<1>1. Owners(i) = {} /\ \A t \in Requests : ~Uses(t, i)
  BY DEF Fresh, Owners
<1>2. (exported # None => SavedOnce(exported, i)) /\ SavedOnce(state_file.owners, i)
  BY DEF Fresh, SavedOnce
<1>3. \A t \in Requests : TaskPeace(t, i)
  BY <1>1 DEF TaskPeace, Building, Uses
<1> QED BY <1>1, <1>2, <1>3 DEF Peace

-----------------------------------------------------------------------------
(* Where a task goes *)

\* Goto moves one task: to a label with a job, or to rest with none.
LEMMA GotoMoves ==
  ASSUME SoundTasks, NEW t \in Requests, NEW label, NEW j, Goto(t, label, j)
  PROVE  /\ OthersStay(t) /\ pc'[t] = label
         /\ label = "idle" => job'[t] = NoJob
         /\ label # "idle" => job'[t] = j
BY DEF SoundTasks, Goto, OthersStay

\* A task that goes on tidy leaves the tasks tidy.
LEMMA GotoKeepsTidy ==
  ASSUME SoundTasks, TidyTasks, NEW t \in Requests, NEW label, NEW j, Goto(t, label, j),
         label # "idle" => Tidy(label, j)
  PROVE  TidyTasks'
<1>1. Tidy(pc'[t], job'[t])
  BY GotoMoves DEF Tidy
<1>2. \A u \in Requests \ {t} : Tidy(pc'[u], job'[u])
  BY GotoMoves DEF TidyTasks, OthersStay
<1> QED BY <1>1, <1>2 DEF TidyTasks

\* A task without work uses no workspace.
LEMMA IdleUsesNothing ==
  ASSUME NEW t \in Requests, NEW i \in Ids, job[t] = NoJob
  PROVE  ~Uses(t, i) /\ ~Building(t, i) /\ ~Removing(t, i)
BY SidsAssumption DEF NoJob, Uses, Building, Removing

\* The same of the state after a step.
LEMMA IdleUsesNothingNext ==
  ASSUME NEW t \in Requests, NEW i \in Ids, job'[t] = NoJob
  PROVE  ~Uses(t, i)' /\ ~Building(t, i)' /\ ~Removing(t, i)'
BY SidsAssumption DEF NoJob, Uses, Building, Removing
-----------------------------------------------------------------------------
(* Ownership: steps of a handler that give nothing *)

KeepsPeace ==
  /\ TidyTasks'
  /\ \A i \in Ids : Peace(i) /\ i \notin Disputes /\ i \notin Disputes' => Peace(i)'

\* Where a task may go when it gives no owner: it works on what it worked on or on
\* what is registered, builds what it built or what has no owner, and sets out to
\* remove only what has no owner but the session it serves.
Fits(t, label, j) ==
  /\ Tidy(label, j)
  /\ \A i \in Ids : i = j.id \/ i \in j.made => Uses(t, i) \/ i \in workspaces'
  /\ \A i \in j.made : j.op # "adoptAll" => Building(t, i) \/ Owners(i) = {}
  /\ label \in {"destroy", "remove", "unregister"} =>
       \A i \in Ids :
         (/\ i = j.id /\ i \notin j.made /\ Peace(i)
          /\ pc'[t] = label /\ job'[t] = j => i \notin Disputes')
           => Owners(i)' \subseteq {j.sid}

\* A step that gives no owner and goes where it fits keeps the peace.
LEMMA GoKeepsPeace ==
  ASSUME SessionInv, TidyTasks, NEW t \in Requests, NEW label, NEW j, Goto(t, label, j),
         UNCHANGED <<exported, state_file>>, pc[t] # "unregister",
         workspaces \subseteq workspaces', \A i \in Ids : Owners(i)' \subseteq Owners(i),
         label # "idle" => Fits(t, label, j)
  PROVE  KeepsPeace
<1>1. SoundTasks
  BY DEF SessionInv
<1>2. TidyTasks'
  BY <1>1, GotoKeepsTidy DEF Fits
<1>3. /\ OthersStay(t) /\ pc'[t] = label
      /\ label = "idle" => job'[t] = NoJob
      /\ label # "idle" => job'[t] = j
  BY <1>1, GotoMoves
<1>4. ASSUME NEW i \in Ids, Peace(i), i \notin Disputes, i \notin Disputes'
      PROVE  Peace(i)'
  <2>1. ~Unregistering(t, i)
    BY DEF Unregistering
  <2>2. CASE label = "idle"
    <3>1. ~Uses(t, i)' /\ ~Building(t, i)' /\ ~Removing(t, i)'
      BY <1>3, <2>2, IdleUsesNothingNext
    <3> QED BY <1>3, <1>4, <2>1, <3>1, KeeperKeepsPeace
  <2>3. CASE label # "idle"
    <3>1. Uses(t, i)' => Uses(t, i) \/ i \in workspaces'
      BY <1>3, <2>3 DEF Uses, Fits
    <3>2. Building(t, i)' => Building(t, i) \/ Owners(i) = {}
      BY <1>3, <2>3 DEF Building, Fits
    <3>3. Removing(t, i)' => Owners(i)' \subseteq {job[t].sid}'
      BY <1>3, <1>4, <2>3 DEF Removing, Fits
    <3> QED BY <1>3, <1>4, <2>1, <3>1, <3>2, <3>3, KeeperKeepsPeace
  <2> QED BY <2>2, <2>3
<1> QED BY <1>2, <1>4 DEF KeepsPeace

\* Sessions that are as they were own what they owned.
LEMMA SameOwners ==
  ASSUME sessions' = sessions
  PROVE  \A i : Owners(i)' = Owners(i)
BY DEF Owners, Owns, Known

\* The first step of a handler takes up no more than a registered workspace.
LEMMA EnterKeepsPeace ==
  ASSUME SessionInv, TidyTasks, NEW t \in Requests, NEW s \in Sids, NEW clients, NEW label,
         NEW j, Enter(t, s, clients, label, j),
         label \in {"quota", "build", "candidate", "owner", "adopt", "destroy"},
         j.op # "adoptAll", j.made = {}, j.sid = s, j.id \in workspaces \cup {None},
         label = "destroy" => client[s] = "dashboard"
  PROVE  KeepsPeace
<1>1. /\ Goto(t, label, j) /\ UNCHANGED <<workspaces, client, exported, state_file>>
      /\ pc[t] # "unregister"
  BY DEF Enter
<1>2. \A i \in Ids : Owners(i)' \subseteq Owners(i)
  BY TouchedOwners, SameOwners DEF Enter, Touched, SessionInv
<1>3. ASSUME NEW i \in Ids, i = j.id, label = "destroy", pc'[t] = label, job'[t] = j,
             i \notin Disputes'
      PROVE  Owners(i)' \subseteq {j.sid}
  <2>1. Uses(t, i)'
    BY <1>3 DEF Uses
  <2>2. client'[job'[t].sid] = "dashboard"
    BY <1>1, <1>3
  <2>3. Others(j.sid, i)' = {}
    BY <1>3, <2>1, <2>2 DEF Disputes, Others
  <2> QED BY <2>3 DEF Others
<1>4. pc'[t] = label
  BY <1>1, GotoMoves DEF SessionInv
<1>5. job'[t] = j
  BY <1>1, GotoMoves DEF SessionInv
<1>6. Fits(t, label, j)
  BY <1>1, <1>3, <1>4, <1>5, SidsAssumption DEF Fits, Tidy
<1> QED BY <1>1, <1>2, <1>6, GoKeepsPeace

\* The first steps: a workspace that is to be destroyed or adopted is registered.
LEMMA FirstKeepsPeace ==
  ASSUME SessionInv, TidyTasks, NEW t \in Requests,
         Create(t) \/ Fork(t) \/ Prepare(t) \/ Destroy(t) \/ Adopt(t)
  PROVE  KeepsPeace
<1>1. CASE Create(t)
  <2> PICK s \in Sids :
        Enter(t, s, {"agent", "dashboard"},
              IF client[s] = "dashboard" THEN "build" ELSE "quota",
              [NoJob EXCEPT !.op = "create", !.sid = s, !.todo = 1])
    BY <1>1 DEF Create
  <2> DEFINE label == IF client[s] = "dashboard" THEN "build" ELSE "quota"
             j == [NoJob EXCEPT !.op = "create", !.sid = s, !.todo = 1]
  <2>1. j.op = "create" /\ j.made = {} /\ j.sid = s /\ j.id = None
    BY DEF NoJob
  <2>2. label \in {"build", "quota"} /\ Enter(t, s, {"agent", "dashboard"}, label, j)
    OBVIOUS
  <2> HIDE DEF j, label
  <2> QED BY <2>1, <2>2, EnterKeepsPeace
<1>2. CASE Fork(t)
  <2> PICK s \in Sids, i \in workspaces, n \in 1..MaxBatch :
        Enter(t, s, {"agent"}, "quota",
              [NoJob EXCEPT !.op = "fork", !.sid = s, !.src = i, !.todo = n])
    BY <1>2 DEF Fork
  <2> DEFINE j == [NoJob EXCEPT !.op = "fork", !.sid = s, !.src = i, !.todo = n]
  <2>1. j.op = "fork" /\ j.made = {} /\ j.sid = s /\ j.id = None
    BY DEF NoJob
  <2>2. Enter(t, s, {"agent"}, "quota", j)
    OBVIOUS
  <2> HIDE DEF j
  <2> QED BY <2>1, <2>2, EnterKeepsPeace
<1>3. CASE Prepare(t)
  <2> PICK s \in Sids :
        Enter(t, s, {"agent", "bridge"}, "candidate",
              [NoJob EXCEPT !.op = "prepare", !.sid = s])
    BY <1>3 DEF Prepare
  <2> DEFINE j == [NoJob EXCEPT !.op = "prepare", !.sid = s]
  <2>1. j.op = "prepare" /\ j.made = {} /\ j.sid = s /\ j.id = None
    BY DEF NoJob
  <2>2. Enter(t, s, {"agent", "bridge"}, "candidate", j)
    OBVIOUS
  <2> HIDE DEF j
  <2> QED BY <2>1, <2>2, EnterKeepsPeace
<1>4. CASE Destroy(t)
  <2> PICK s \in Sids, i \in workspaces :
        Enter(t, s, {"agent", "dashboard"},
              IF client[s] = "dashboard" THEN "destroy" ELSE "owner",
              [NoJob EXCEPT !.op = "destroy", !.sid = s, !.id = i, !.force = TRUE])
    BY <1>4 DEF Destroy
  <2> DEFINE label == IF client[s] = "dashboard" THEN "destroy" ELSE "owner"
             j == [NoJob EXCEPT !.op = "destroy", !.sid = s, !.id = i, !.force = TRUE]
  <2>1. j.op = "destroy" /\ j.made = {} /\ j.sid = s /\ j.id = i
    BY DEF NoJob
  <2>2. /\ label \in {"destroy", "owner"}
        /\ label = "destroy" => client[s] = "dashboard"
        /\ Enter(t, s, {"agent", "dashboard"}, label, j)
    OBVIOUS
  <2> HIDE DEF j, label
  <2> QED BY <2>1, <2>2, EnterKeepsPeace
<1>5. CASE Adopt(t)
  <2> PICK s \in Sids, i \in workspaces, force \in BOOLEAN :
        Enter(t, s, {"agent", "dashboard"}, "adopt",
              [NoJob EXCEPT !.op = "adopt", !.sid = s, !.id = i, !.force = force])
    BY <1>5 DEF Adopt
  <2> DEFINE j == [NoJob EXCEPT !.op = "adopt", !.sid = s, !.id = i, !.force = force]
  <2>1. j.op = "adopt" /\ j.made = {} /\ j.sid = s /\ j.id = i
    BY DEF NoJob
  <2>2. Enter(t, s, {"agent", "dashboard"}, "adopt", j)
    OBVIOUS
  <2> HIDE DEF j
  <2> QED BY <2>1, <2>2, EnterKeepsPeace
<1> QED BY <1>1, <1>2, <1>3, <1>4, <1>5

\* The sessions that adopting all purges own nothing any more.
LEMMA AdoptAllKeepsPeace ==
  ASSUME SessionInv, TidyTasks, NEW t \in Requests, AdoptAll(t)
  PROVE  KeepsPeace
<1> PICK s \in Sids, force \in BOOLEAN :
      /\ Goto(t, "list", [NoJob EXCEPT !.op = "adoptAll", !.sid = s, !.force = force])
      /\ sessions' = [r \in Sids |-> IF r = s THEN Touched(s)[s] ELSE None]
      /\ UNCHANGED <<workspaces, client, exported, state_file>>
  BY DEF AdoptAll
<1>1. \A i \in Ids : Owners(i)' \subseteq Owners(i)
  <2>1. CASE Known(s)
    <3>1. sessions[s] \in Session
      BY <2>1, KnownSound DEF Sound, SessionInv
    <3>2. sessions'[s].owned = sessions[s].owned
      BY <2>1, <3>1 DEF Touched, Session, SessionInv, SoundSessions
    <3>3. \A r \in Sids \ {s} : sessions'[r] = None
      OBVIOUS
    <3> QED BY <2>1, <3>2, <3>3 DEF Owners, Owns, Known
  <2>2. CASE ~Known(s)
    <3>1. \A r \in Sids : sessions'[r] = sessions[r] \/ sessions'[r] = None
      BY <2>2 DEF Touched
    <3> QED BY <3>1, GoneOwners
  <2> QED BY <2>1, <2>2
<1>2. Fits(t, "list", [NoJob EXCEPT !.op = "adoptAll", !.sid = s, !.force = force])
  BY SidsAssumption DEF Fits, Tidy, NoJob
<1>3. pc[t] # "unregister"
  BY DEF AdoptAll
<1> QED BY <1>1, <1>2, <1>3, GoKeepsPeace

-----------------------------------------------------------------------------
(* Ownership: steps that build *)

\* A quota is checked before anything is built.
LEMMA CheckQuotaKeepsPeace ==
  ASSUME SessionInv, TidyTasks, NEW t \in Requests, CheckQuota(t)
  PROVE  KeepsPeace
<1>1. job[t] \in Job /\ Tidy("quota", job[t]) /\ pc[t] = "quota"
  BY TaskFacts DEF SessionInv, CheckQuota, At, TidyTasks
<1>2. /\ UNCHANGED <<exported, state_file, workspaces>>
      /\ \A i \in Ids : Owners(i)' \subseteq Owners(i)
  BY SameOwners DEF CheckQuota, At
<1>3. CASE Goto(t, "build", job[t])
  <2>1. Fits(t, "build", job[t])
    BY <1>1 DEF Fits, Tidy, Uses, Building
  <2> QED BY <1>1, <1>2, <1>3, <2>1, GoKeepsPeace
<1>4. CASE Goto(t, Refused(job[t]), [job[t] EXCEPT !.todo = 0])
  <2> DEFINE j == [job[t] EXCEPT !.todo = 0]
  <2>1. j.made = job[t].made /\ j.op = job[t].op /\ j.id = job[t].id
    BY <1>1 DEF Job
  <2>2. Fits(t, Refused(job[t]), j) \/ Refused(job[t]) = "idle"
    BY <1>1, <2>1 DEF Fits, Tidy, Uses, Refused
  <2>3. Goto(t, Refused(job[t]), j)
    BY <1>4
  <2> HIDE DEF j
  <2> QED BY <1>1, <1>2, <2>2, <2>3, GoKeepsPeace
<1> QED BY <1>3, <1>4 DEF CheckQuota

\* What is built has an id that nothing refers to, hence no owner.
LEMMA MakeKeepsPeace ==
  ASSUME SessionInv, TidyTasks, NEW t \in Requests, Make(t)
  PROVE  KeepsPeace
<1> DEFINE j == [job[t] EXCEPT !.todo = @ - 1]
<1>1. job[t] \in Job /\ Tidy("build", job[t]) /\ pc[t] = "build"
  BY TaskFacts DEF SessionInv, Make, At, TidyTasks
<1>2. UNCHANGED <<exported, state_file>> /\ \A i \in Ids : Owners(i)' \subseteq Owners(i)
  BY SameOwners DEF Make, At
<1>3. j.made = job[t].made /\ j.op = job[t].op /\ j.id = job[t].id
  BY <1>1 DEF Job
<1>4. CASE \E i \in Ids : /\ Fresh(i) /\ workspaces' = workspaces \cup {i}
                         /\ Goto(t, "build", [j EXCEPT !.made = @ \cup {i}])
  <2> PICK i \in Ids : /\ Fresh(i) /\ workspaces' = workspaces \cup {i}
                       /\ Goto(t, "build", [j EXCEPT !.made = @ \cup {i}])
    BY <1>4
  <2> DEFINE k == [j EXCEPT !.made = @ \cup {i}]
  <2>1. k.made = job[t].made \cup {i} /\ k.op = job[t].op /\ k.id = job[t].id
    BY <1>1 DEF Job
  <2>2. Owners(i) = {}
    BY DEF Fresh, Owners
  <2> HIDE DEF k
  <2>3. Fits(t, "build", k)
    BY <1>1, <2>1, <2>2 DEF Fits, Tidy, Uses, Building
  <2>4. Goto(t, "build", k)
    BY DEF k
  <2> QED BY <1>1, <1>2, <2>3, <2>4, GoKeepsPeace
<1>5. CASE UNCHANGED workspaces /\ Goto(t, Going(j), j)
  <2>1. Fits(t, Going(j), j) \/ Going(j) = "idle"
    BY <1>1, <1>3 DEF Fits, Tidy, Uses, Building, Going, Refused
  <2> HIDE DEF j
  <2> QED BY <1>1, <1>2, <1>5, <2>1, GoKeepsPeace
<1> QED BY <1>4, <1>5 DEF Make

\* Registering makes the session the owner of what the task built, which had none.
LEMMA RegisterKeepsPeace ==
  ASSUME SessionInv, TidyTasks, NEW t \in Requests, Register(t)
  PROVE  KeepsPeace
<1> PICK x \in job[t].made : RegisterStep(t, x, [job[t] EXCEPT !.made = @ \ {x}])
  BY DEF Register, RegisterStep
<1> DEFINE j == [job[t] EXCEPT !.made = @ \ {x}]
<1>1. job[t] \in Job /\ job[t].sid \in Sids /\ Tidy("build", job[t]) /\ pc[t] = "build"
  BY TaskFacts DEF SessionInv, RegisterStep, At, TidyTasks
<1>2. x \in Ids /\ j.made = job[t].made \ {x} /\ j.op = job[t].op /\ j.id = job[t].id
      /\ j.sid = job[t].sid /\ job[t].op # "adoptAll"
  BY <1>1 DEF Job, Tidy
<1>3. UNCHANGED <<exported, state_file, workspaces>> /\ SoundSessions /\ SoundTasks
  BY DEF RegisterStep, At, SessionInv
<1>4. \E label, k :
        /\ label \in {"idle", "destroy", "build", "candidate"}
        /\ Goto(t, label, k)
        /\ k.op = job[t].op /\ k.sid = job[t].sid
        /\ label = "candidate" => k.made = {}
        /\ \/ k.made = job[t].made \ {x} /\ k.id = job[t].id /\ label # "destroy"
           \/ k.made = job[t].made \ {x} /\ k.id = x /\ sessions' = Registered(job[t].sid, x)
           \/ k.made = job[t].made /\ k.id = x /\ sessions' = sessions
  <2>1. CASE Goto(t, Going(j), j)
    <3>1. /\ Going(j) \in {"idle", "build", "candidate"}
          /\ Going(j) = "candidate" => j.made = {}
      BY DEF Going, Refused
    <3> HIDE DEF j
    <3> QED BY <1>2, <2>1, <3>1
  <2>2. CASE /\ sessions' = Registered(j.sid, x)
             /\ \E label \in {"idle", "destroy"} : Goto(t, label, [j EXCEPT !.id = x])
    <3> PICK label \in {"idle", "destroy"} : Goto(t, label, [j EXCEPT !.id = x])
      BY <2>2
    <3> DEFINE k == [j EXCEPT !.id = x]
    <3>1. k.op = job[t].op /\ k.sid = job[t].sid /\ k.made = job[t].made \ {x} /\ k.id = x
      BY <1>1 DEF Job
    <3>2. Goto(t, label, k) /\ sessions' = Registered(job[t].sid, x)
      BY <1>2, <2>2
    <3> HIDE DEF k
    <3> QED BY <3>1, <3>2
  <2>3. CASE sessions' = sessions /\ Goto(t, "destroy", [j EXCEPT !.id = x, !.made = job[t].made])
    <3> DEFINE k == [j EXCEPT !.id = x, !.made = job[t].made]
    <3>1. k.op = job[t].op /\ k.sid = job[t].sid /\ k.made = job[t].made /\ k.id = x
      BY <1>1 DEF Job
    <3>2. Goto(t, "destroy", k)
      BY <2>3
    <3> HIDE DEF k
    <3> QED BY <2>3, <3>1, <3>2
  <2> QED BY <2>1, <2>2, <2>3 DEF RegisterStep
<1> PICK label, k :
        /\ label \in {"idle", "destroy", "build", "candidate"}
        /\ Goto(t, label, k)
        /\ k.op = job[t].op /\ k.sid = job[t].sid
        /\ label = "candidate" => k.made = {}
        /\ \/ k.made = job[t].made \ {x} /\ k.id = job[t].id /\ label # "destroy"
           \/ k.made = job[t].made \ {x} /\ k.id = x /\ sessions' = Registered(job[t].sid, x)
           \/ k.made = job[t].made /\ k.id = x /\ sessions' = sessions
  BY <1>4
<1>5. sessions' = sessions \/ (Known(job[t].sid) /\ sessions' = Registered(job[t].sid, x))
  BY <1>2 DEF RegisterStep, Room
<1>6. CASE sessions' = sessions
  <2>1. Fits(t, label, k) \/ label = "idle"
    <3>1. CASE k.made = job[t].made \ {x} /\ k.id = job[t].id /\ label # "destroy"
      BY <1>1, <1>2, <3>1 DEF Fits, Tidy, Uses, Building
    <3>2. CASE k.made = job[t].made /\ k.id = x
      BY <1>1, <1>2, <3>2 DEF Fits, Tidy, Uses, Building
    <3>3. CASE k.made = job[t].made \ {x} /\ k.id = x /\ sessions' = Registered(job[t].sid, x)
      <4>1. ASSUME NEW i \in Ids, i = k.id, Peace(i) PROVE Owners(i)' \subseteq {k.sid}
        <5>1. Owners(i) = {}
          BY <1>2, <3>3, <4>1 DEF Peace, TaskPeace, Building
        <5> QED BY <1>6, <5>1, SameOwners
      <4> QED BY <1>1, <1>2, <3>3, <4>1 DEF Fits, Tidy, Uses, Building
    <3> QED BY <3>1, <3>2, <3>3
  <2>2. \A i \in Ids : Owners(i)' \subseteq Owners(i)
    BY <1>6, SameOwners
  <2> QED BY <1>1, <1>3, <2>1, <2>2, GoKeepsPeace
<1>7. CASE Known(job[t].sid) /\ sessions' = Registered(job[t].sid, x) /\ sessions' # sessions
  <2>1. k.made = job[t].made \ {x} /\ (k.id = x \/ k.id = job[t].id)
    BY <1>7
  <2>2. k.id # x => label # "destroy"
    BY <1>7
  <2>3. TidyTasks'
    <3>1. label # "idle" => Tidy(label, k)
      BY <1>2 DEF Tidy
    <3> QED BY <1>3, <3>1, GotoKeepsTidy
  <2>4. /\ OthersStay(t) /\ pc'[t] = label
        /\ label = "idle" => job'[t] = NoJob
        /\ label # "idle" => job'[t] = k
    BY <1>3, GotoMoves
  <2>5. ASSUME NEW i \in Ids, Peace(i), i \notin Disputes
        PROVE  Peace(i)'
    <3>1. ~Unregistering(t, i)
      BY <1>1 DEF Unregistering
    <3>2. CASE i = x
      <4>1. Uses(t, i) /\ Owners(i) = {}
        BY <1>2, <2>5, <3>2 DEF Uses, Peace, TaskPeace, Building
      <4>2. Owners(i)' \subseteq {job[t].sid}
        BY <1>1, <1>2, <1>3, <1>7, <4>1, RegisteredOwners
      <4>3. ~Building(t, i)'
        BY <2>1, <2>4, <3>2, IdleUsesNothingNext DEF Building
      <4>4. job'[t].sid = job[t].sid \/ pc'[t] = "idle"
        BY <2>4
      <4> QED BY <1>1, <1>3, <2>4, <2>5, <3>1, <4>1, <4>2, <4>3, <4>4, GainerKeepsPeace
    <3>3. CASE i # x
      <4>1. Owners(i)' \subseteq Owners(i)
        BY <1>1, <1>2, <1>3, <1>7, <3>3, RegisteredOwners
      <4>2. Uses(t, i)' => Uses(t, i)
        BY <2>1, <2>4, <3>3, IdleUsesNothingNext DEF Uses
      <4>3. Building(t, i)' => Building(t, i)
        BY <2>1, <2>4, <3>3, IdleUsesNothingNext DEF Building
      <4>4. ~Removing(t, i)'
        BY <2>1, <2>2, <2>4, <3>3, IdleUsesNothingNext DEF Removing
      <4> QED BY <1>3, <2>4, <2>5, <3>1, <4>1, <4>2, <4>3, <4>4, KeeperKeepsPeace
    <3> QED BY <3>2, <3>3
  <2> QED BY <2>3, <2>5 DEF KeepsPeace
<1> QED BY <1>5, <1>6, <1>7

\* The candidate workspace_prepare finds is registered.
LEMMA CandidateKeepsPeace ==
  ASSUME SessionInv, TidyTasks, NEW t \in Requests, Candidate(t)
  PROVE  KeepsPeace
<1>1. /\ job[t] \in Job /\ Tidy("candidate", job[t]) /\ pc[t] = "candidate"
      /\ workspaces \subseteq Ids
  BY TaskFacts DEF SessionInv, Candidate, At, TidyTasks
<1>2. /\ UNCHANGED <<exported, state_file, workspaces>>
      /\ \A i \in Ids : Owners(i)' \subseteq Owners(i)
  BY SameOwners DEF Candidate, At
<1>3. CASE \E i \in workspaces : Goto(t, "adopt", [job[t] EXCEPT !.id = i])
  <2> PICK i \in workspaces : Goto(t, "adopt", [job[t] EXCEPT !.id = i])
    BY <1>3
  <2> DEFINE k == [job[t] EXCEPT !.id = i]
  <2>1. k.made = job[t].made /\ k.op = job[t].op /\ k.id = i /\ Goto(t, "adopt", k)
    BY <1>1 DEF Job
  <2> HIDE DEF k
  <2>2. Fits(t, "adopt", k)
    BY <1>1, <1>2, <2>1 DEF Fits, Tidy, Uses, Building
  <2> QED BY <1>1, <1>2, <2>1, <2>2, GoKeepsPeace
<1>4. CASE Goto(t, "quota", [job[t] EXCEPT !.id = None, !.todo = 1])
  <2> DEFINE k == [job[t] EXCEPT !.id = None, !.todo = 1]
  <2>1. k.made = job[t].made /\ k.op = job[t].op /\ k.id = None /\ Goto(t, "quota", k)
    BY <1>1, <1>4 DEF Job
  <2> HIDE DEF k
  <2>2. Fits(t, "quota", k)
    BY <1>1, <2>1, SidsAssumption DEF Fits, Tidy, Uses, Building
  <2> QED BY <1>1, <1>2, <2>1, <2>2, GoKeepsPeace
<1>5. CASE Goto(t, "idle", job[t])
  BY <1>1, <1>2, <1>5, GoKeepsPeace
<1> QED BY <1>3, <1>4, <1>5 DEF Candidate

-----------------------------------------------------------------------------
(* Ownership: steps that adopt and destroy *)

\* The owner that was checked is the only one.
LEMMA CheckOwnerKeepsPeace ==
  ASSUME SessionInv, TidyTasks, NEW t \in Requests, CheckOwner(t)
  PROVE  KeepsPeace
<1>1. job[t] \in Job /\ job[t].sid \in Sids /\ Tidy("owner", job[t]) /\ pc[t] = "owner"
  BY TaskFacts DEF SessionInv, CheckOwner, At, TidyTasks
<1>2. UNCHANGED <<exported, state_file, workspaces>> /\ \A i \in Ids : Owners(i)' = Owners(i)
  BY SameOwners DEF CheckOwner, At
<1>3. CASE Owns(job[t].sid, job[t].id) /\ Goto(t, "destroy", job[t])
  <2>1. ASSUME NEW i \in Ids, i = job[t].id, Peace(i)
        PROVE  Owners(i)' \subseteq {job[t].sid}
    <3>1. job[t].sid \in Owners(i)
      BY <1>1, <1>3, <2>1 DEF Owners
    <3> QED BY <1>2, <2>1, <3>1 DEF Peace
  <2>2. Fits(t, "destroy", job[t])
    BY <1>1, <2>1 DEF Fits, Tidy, Uses, Building
  <2> QED BY <1>1, <1>2, <1>3, <2>2, GoKeepsPeace
<1>4. CASE Goto(t, "adopt", job[t])
  <2>1. Fits(t, "adopt", job[t])
    BY <1>1 DEF Fits, Tidy, Uses, Building
  <2> QED BY <1>1, <1>2, <1>4, <2>1, GoKeepsPeace
<1> QED BY <1>3, <1>4 DEF CheckOwner

\* A call that destroys goes on to remove the workspace once it has adopted it.
LEMMA AdoptOneKeepsPeace ==
  ASSUME SessionInv, TidyTasks, NEW t \in Requests, AdoptOne(t)
  PROVE  KeepsPeace
<1> DEFINE force == job[t].force \/ job[t].op = "prepare"
           x == job[t].id
           label == IF job[t].op = "destroy" THEN "destroy" ELSE "idle"
<1>1. /\ job[t] \in Job /\ job[t].sid \in Sids /\ x \in Ids /\ force \in BOOLEAN
      /\ Tidy("adopt", job[t]) /\ pc[t] = "adopt" /\ job[t].made = {}
  BY TaskFacts DEF SessionInv, AdoptOne, At, TidyTasks, Tidy, Addressed, Job
<1>2. UNCHANGED <<exported, state_file, workspaces>> /\ SoundSessions /\ SoundTasks
  BY DEF AdoptOne, At, SessionInv
<1>3. CASE AdoptWorkspace(job[t].sid, x, force) /\ Goto(t, label, job[t])
  <2>1. TidyTasks'
    <3>1. label # "idle" => Tidy(label, job[t])
      BY <1>1 DEF Tidy
    <3> QED BY <1>2, <1>3, <3>1, GotoKeepsTidy
  <2>2. /\ OthersStay(t) /\ pc'[t] = label
        /\ job'[t] = NoJob \/ job'[t] = job[t]
        /\ job'[t] = job[t] \/ pc'[t] = "idle"
    BY <1>2, <1>3, GotoMoves
  <2>3. ASSUME NEW i \in Ids, Peace(i), i \notin Disputes
        PROVE  Peace(i)'
    <3>1. ~Unregistering(t, i) /\ ~Building(t, i)'
      BY <1>1, <2>2, IdleUsesNothingNext DEF Unregistering, Building
    <3>2. CASE i = x
      <4>1. Uses(t, i)
        BY <3>2 DEF Uses
      <4>2. Owners(i)' \subseteq {job[t].sid}
        <5>1. \A r, q \in Owners(x) : r = q
          BY <2>3, <3>2 DEF Peace
        <5> HIDE DEF force, x
        <5> QED BY <1>1, <1>2, <1>3, <3>2, <5>1, AdoptedOwners
      <4> QED BY <1>1, <1>2, <2>2, <2>3, <3>1, <4>1, <4>2, GainerKeepsPeace
    <3>3. CASE i # x
      <4>1. Owners(i)' \subseteq Owners(i)
        <5> HIDE DEF force, x
        <5> QED BY <1>1, <1>2, <1>3, <3>3, AdoptedOwners
      <4>2. Uses(t, i)' => Uses(t, i)
        BY <2>2, IdleUsesNothingNext DEF Uses
      <4>3. ~Removing(t, i)'
        BY <2>2, <3>3, IdleUsesNothingNext DEF Removing
      <4> QED BY <1>2, <2>2, <2>3, <3>1, <4>1, <4>2, <4>3, KeeperKeepsPeace
    <3> QED BY <3>2, <3>3
  <2> QED BY <2>1, <2>3 DEF KeepsPeace
<1>4. CASE sessions' = sessions /\ Goto(t, "idle", job[t])
  BY <1>1, <1>2, <1>4, SameOwners, GoKeepsPeace
<1>5. CASE /\ sessions' = sessions /\ job[t].op = "prepare"
           /\ Goto(t, "candidate", [job[t] EXCEPT !.force = TRUE, !.id = None])
  <2> DEFINE k == [job[t] EXCEPT !.force = TRUE, !.id = None]
  <2>1. k.made = {} /\ k.op = "prepare" /\ k.id = None /\ Goto(t, "candidate", k)
    BY <1>1, <1>5 DEF Job
  <2> HIDE DEF k
  <2>2. Fits(t, "candidate", k)
    BY <2>1, SidsAssumption DEF Fits, Tidy
  <2>3. \A i \in Ids : Owners(i)' \subseteq Owners(i)
    BY <1>5, SameOwners
  <2> QED BY <1>1, <1>2, <2>1, <2>2, <2>3, GoKeepsPeace
<1>6. \/ AdoptWorkspace(job[t].sid, x, force) /\ Goto(t, label, job[t])
      \/ sessions' = sessions /\ Goto(t, "idle", job[t])
      \/ /\ sessions' = sessions /\ job[t].op = "prepare"
         /\ Goto(t, "candidate", [job[t] EXCEPT !.force = TRUE, !.id = None])
  BY DEF AdoptOne, AdoptRefused
<1> QED BY <1>3, <1>4, <1>5, <1>6

\* The end of a destroy rolls a build back or leads to unregister.
LEMMA DestroyedLeaves ==
  ASSUME NEW t, NEW j \in Job, j.id \in Ids, Destroyed(t, j)
  PROVE  \E label, k :
           /\ label \in {"idle", "build", "candidate", "unregister"}
           /\ Goto(t, label, k) /\ k.op = j.op
           /\ \/ /\ k.made = j.made \ {j.id} /\ k.id = None /\ j.id \in j.made
                 /\ label # "unregister" /\ (label = "candidate" => k.made = {})
              \/ label = "unregister" /\ k = j /\ j.id \notin j.made
<1> DEFINE rest == [j EXCEPT !.made = @ \ {j.id}, !.id = None]
<1>1. CASE RollsBack(j) /\ Goto(t, Going(rest), rest)
  <2>1. rest.made = j.made \ {j.id} /\ rest.id = None /\ rest.op = j.op
    BY DEF Job
  <2>2. /\ Going(rest) \in {"idle", "build", "candidate"}
        /\ Going(rest) = "candidate" => rest.made = {}
    BY DEF Going, Refused
  <2>3. j.id \in j.made /\ Goto(t, Going(rest), rest)
    BY <1>1 DEF RollsBack
  <2> HIDE DEF rest
  <2> QED BY <2>1, <2>2, <2>3
<1>2. CASE ~RollsBack(j) /\ Goto(t, "unregister", j)
  BY <1>2 DEF RollsBack
<1> QED BY <1>1, <1>2 DEF Destroyed

\* The destroy begins with what is registered, or ends at once.
LEMMA DestroyOneKeepsPeace ==
  ASSUME SessionInv, TidyTasks, NEW t \in Requests, DestroyOne(t)
  PROVE  KeepsPeace
<1>1. job[t] \in Job /\ job[t].id \in Ids /\ Tidy("destroy", job[t]) /\ pc[t] = "destroy"
  BY TaskFacts DEF SessionInv, DestroyOne, At, TidyTasks, Addressed
<1>2. UNCHANGED <<exported, state_file, workspaces>> /\ \A i \in Ids : Owners(i)' = Owners(i)
  BY SameOwners DEF DestroyOne, At
<1>3. ASSUME NEW i \in Ids, i = job[t].id, i \notin job[t].made, Peace(i)
      PROVE  Owners(i)' \subseteq {job[t].sid}
  BY <1>1, <1>2, <1>3 DEF Peace, TaskPeace, Removing
<1>4. CASE Goto(t, "remove", job[t])
  <2>1. Fits(t, "remove", job[t])
    BY <1>1, <1>3 DEF Fits, Tidy, Uses, Building
  <2> QED BY <1>1, <1>2, <1>4, <2>1, GoKeepsPeace
<1>5. CASE Goto(t, "idle", job[t])
  BY <1>1, <1>2, <1>5, GoKeepsPeace
<1>6. CASE Destroyed(t, job[t])
  <2> PICK label, k :
           /\ label \in {"idle", "build", "candidate", "unregister"}
           /\ Goto(t, label, k) /\ k.op = job[t].op
           /\ \/ /\ k.made = job[t].made \ {job[t].id} /\ k.id = None
                 /\ label # "unregister" /\ (label = "candidate" => k.made = {})
              \/ label = "unregister" /\ k = job[t] /\ job[t].id \notin job[t].made
    BY <1>1, <1>6, DestroyedLeaves
  <2>1. Fits(t, label, k) \/ label = "idle"
    <3>1. CASE label = "unregister" /\ k = job[t] /\ job[t].id \notin job[t].made
      BY <1>1, <1>3, <3>1 DEF Fits, Tidy, Uses, Building
    <3>2. CASE /\ k.made = job[t].made \ {job[t].id} /\ k.id = None
               /\ label # "unregister" /\ (label = "candidate" => k.made = {})
      BY <1>1, <3>2, SidsAssumption DEF Fits, Tidy, Uses, Building
    <3> QED BY <3>1, <3>2
  <2> QED BY <1>1, <1>2, <2>1, GoKeepsPeace
<1> QED BY <1>4, <1>5, <1>6 DEF DestroyOne

\* What is taken from the registry has no owner, or one until the next step.
LEMMA RemoveKeepsPeace ==
  ASSUME SessionInv, TidyTasks, NEW t \in Requests, Remove(t)
  PROVE  KeepsPeace
<1> DEFINE x == job[t].id
<1>1. /\ job[t] \in Job /\ x \in Ids /\ Tidy("remove", job[t]) /\ pc[t] = "remove"
      /\ job[t].op # "adoptAll"
  BY TaskFacts DEF SessionInv, Remove, At, TidyTasks, Addressed, Tidy
<1>2. /\ UNCHANGED <<exported, state_file>> /\ \A i \in Ids : Owners(i)' = Owners(i)
      /\ workspaces' = workspaces \ {x} /\ SoundTasks
  BY SameOwners DEF Remove, At, SessionInv
<1> PICK label, k :
         /\ label \in {"idle", "build", "candidate", "unregister"}
         /\ Goto(t, label, k) /\ k.op = job[t].op
         /\ \/ /\ k.made = job[t].made \ {job[t].id} /\ k.id = None /\ job[t].id \in job[t].made
               /\ label # "unregister" /\ (label = "candidate" => k.made = {})
            \/ label = "unregister" /\ k = job[t] /\ job[t].id \notin job[t].made
  BY <1>1, DestroyedLeaves DEF Remove
<1>3. TidyTasks'
  <2>1. label # "idle" => Tidy(label, k)
    BY <1>1 DEF Tidy
  <2> QED BY <1>2, <2>1, GotoKeepsTidy
<1>4. /\ OthersStay(t) /\ pc'[t] = label
      /\ label = "idle" => job'[t] = NoJob
      /\ label # "idle" => job'[t] = k
  BY <1>2, GotoMoves
<1>5. ASSUME NEW i \in Ids, Peace(i), i \notin Disputes
      PROVE  Peace(i)'
  <2>1. ~Unregistering(t, i)
    BY <1>1 DEF Unregistering
  <2>2. TaskPeace(t, i)
    BY <1>5 DEF Peace
  <2>3. CASE i = x /\ x \in job[t].made
    <3>1. Uses(t, i) /\ Owners(i) = {}
      BY <1>1, <2>2, <2>3 DEF TaskPeace, Building, Uses
    <3>2. k.made = job[t].made \ {x} /\ k.id = None
      BY <2>3
    <3>3. ~Uses(t, i)' /\ ~Building(t, i)' /\ ~Removing(t, i)'
      BY <1>4, <2>3, <3>2, IdleUsesNothingNext, SidsAssumption DEF Uses, Building, Removing
    <3>4. TaskPeace(t, i)'
      BY <3>3 DEF TaskPeace
    <3> QED BY <1>2, <1>4, <1>5, <3>1, <3>4, TaskKeepsPeace
  <2>4. CASE i = x /\ x \notin job[t].made
    <3>1. Uses(t, i) /\ Owners(i) \subseteq {job[t].sid}
      BY <1>1, <2>2, <2>4 DEF TaskPeace, Removing, Uses
    <3>2. pc'[t] = "unregister" /\ job'[t] = job[t]
      BY <1>4, <2>4
    <3>3. Unregistering(t, i)' /\ ~Building(t, i)'
      BY <2>4, <3>2 DEF Unregistering, Building
    <3>4. TaskPeace(t, i)'
      BY <1>2, <3>1, <3>2, <3>3 DEF TaskPeace
    <3> QED BY <1>2, <1>4, <1>5, <3>1, <3>3, <3>4, TaskKeepsPeace
  <2>5. CASE i # x
    <3>1. /\ Uses(t, i)' => Uses(t, i)
          /\ Building(t, i)' => Building(t, i)
      BY <1>4, <2>5, IdleUsesNothingNext, SidsAssumption DEF Uses, Building
    <3>2. ~Removing(t, i)'
      BY <1>4, <2>5, IdleUsesNothingNext, SidsAssumption DEF Removing
    <3> QED BY <1>2, <1>4, <1>5, <2>1, <2>5, <3>1, <3>2, KeeperKeepsPeace
  <2> QED BY <2>3, <2>4, <2>5
<1> QED BY <1>3, <1>5 DEF KeepsPeace

\* The last owner of what is gone gives it back.
LEMMA UnregisterKeepsPeace ==
  ASSUME SessionInv, TidyTasks, NEW t \in Requests, Unregister(t)
  PROVE  KeepsPeace
<1> DEFINE x == job[t].id
<1>1. /\ job[t] \in Job /\ job[t].sid \in Sids /\ x \in Ids /\ pc[t] = "unregister"
      /\ x \notin job[t].made
  BY TaskFacts DEF SessionInv, Unregister, At, TidyTasks, Addressed, Tidy
<1>2. /\ UNCHANGED <<exported, state_file, workspaces>> /\ SoundTasks /\ SoundSessions
      /\ Goto(t, "idle", job[t])
  BY DEF Unregister, At, SessionInv
<1>3. PICK units : sessions' = Unregistered(job[t].sid, x, units)
  BY DEF Unregister
<1>4. TidyTasks'
  BY <1>2, GotoKeepsTidy
<1>5. OthersStay(t) /\ pc'[t] = "idle" /\ job'[t] = NoJob
  BY <1>2, GotoMoves
<1>6. ASSUME NEW i \in Ids, Peace(i), i \notin Disputes
      PROVE  Peace(i)'
  <2>1. Owners(i)' \subseteq Owners(i)
    BY <1>1, <1>2, <1>3, UnregisteredOwners
  <2>2. ~Uses(t, i)' /\ ~Building(t, i)' /\ ~Removing(t, i)'
    BY <1>5, IdleUsesNothingNext
  <2>3. CASE i = x
    <3>1. Owners(x) \subseteq {job[t].sid}
      BY <1>1, <1>6, <2>3 DEF Peace, TaskPeace, Removing
    <3>2. Owners(i)' = {}
      BY <1>1, <1>2, <1>3, <2>3, <3>1, UnregisteredOwners
    <3>3. TaskPeace(t, i)'
      BY <2>2 DEF TaskPeace
    <3> QED BY <1>2, <1>5, <1>6, <2>1, <3>2, <3>3, TaskKeepsPeace
  <2>4. CASE i # x
    <3>1. ~Unregistering(t, i)
      BY <2>4 DEF Unregistering
    <3> QED BY <1>2, <1>5, <1>6, <2>1, <2>2, <3>1, KeeperKeepsPeace
  <2> QED BY <2>3, <2>4
<1> QED BY <1>4, <1>6 DEF KeepsPeace

\* What adopting all has chosen was registered when it looked.
LEMMA AdoptEachKeepsPeace ==
  ASSUME SessionInv, TidyTasks, NEW t \in Requests, ListAll(t) \/ Candidates(t) \/ AdoptNext(t)
  PROVE  KeepsPeace
<1>1. /\ job[t] \in Job /\ job[t].sid \in Sids /\ job[t].op = "adoptAll"
      /\ workspaces \subseteq Ids
  BY TaskFacts DEF SessionInv, ListAll, Candidates, AdoptNext, At, TidyTasks, Tidy
<1>2. UNCHANGED <<exported, state_file, workspaces>> /\ SoundTasks /\ SoundSessions
  BY DEF ListAll, Candidates, AdoptNext, At, SessionInv
<1>3. ASSUME NEW made \in SUBSET Ids, NEW label \in {"candidates", "adoptNext", "idle"},
             made \subseteq job[t].made \cup workspaces,
             sessions' = sessions, Goto(t, label, [job[t] EXCEPT !.made = made]),
             pc[t] # "unregister"
      PROVE  KeepsPeace
  <2> DEFINE k == [job[t] EXCEPT !.made = made]
  <2>1. k.made = made /\ k.op = job[t].op /\ k.id = job[t].id /\ Goto(t, label, k)
    BY <1>1, <1>3 DEF Job
  <2> HIDE DEF k
  <2>2. Fits(t, label, k) \/ label = "idle"
    BY <1>1, <1>2, <1>3, <2>1 DEF Fits, Tidy, Uses
  <2>3. \A i \in Ids : Owners(i)' \subseteq Owners(i)
    BY <1>3, SameOwners
  <2> QED BY <1>2, <1>3, <2>1, <2>2, <2>3, GoKeepsPeace
<1>4. CASE ListAll(t)
  <2>1. /\ sessions' = sessions /\ pc[t] # "unregister"
        /\ Goto(t, "candidates", [job[t] EXCEPT !.made = workspaces])
    BY <1>4 DEF ListAll, At
  <2> QED BY <1>1, <1>3, <2>1
<1>5. CASE Candidates(t)
  <2> DEFINE chosen == {i \in job[t].made : IF job[t].force THEN ~Owns(job[t].sid, i)
                                            ELSE Owners(i) = {}}
  <2>1. /\ sessions' = sessions /\ pc[t] # "unregister"
        /\ Goto(t, Remaining(chosen), [job[t] EXCEPT !.made = chosen])
    BY <1>5 DEF Candidates, At
  <2>2. chosen \in SUBSET Ids /\ chosen \subseteq job[t].made
    BY <1>1 DEF Job
  <2> HIDE DEF chosen
  <2>3. Remaining(chosen) \in {"candidates", "adoptNext", "idle"}
    BY DEF Remaining
  <2> QED BY <1>3, <2>1, <2>2, <2>3
<1>6. CASE AdoptNext(t)
  <2> PICK x \in job[t].made :
        /\ \/ AdoptWorkspace(job[t].sid, x, job[t].force)
           \/ AdoptRefused(job[t].sid, x, job[t].force)
        /\ Goto(t, Remaining(job[t].made \ {x}), [job[t] EXCEPT !.made = @ \ {x}])
        /\ pc[t] = "adoptNext"
    BY <1>1, <1>6 DEF AdoptNext, Job, At
  <2>1. x \in Ids /\ job[t].force \in BOOLEAN /\ job[t].made \ {x} \in SUBSET Ids
    BY <1>1 DEF Job
  <2> DEFINE k == [job[t] EXCEPT !.made = @ \ {x}]
             label == Remaining(job[t].made \ {x})
  <2>2. k.made = job[t].made \ {x} /\ k.op = "adoptAll" /\ k.id = job[t].id /\ Goto(t, label, k)
        /\ k.sid = job[t].sid
    BY <1>1 DEF Job
  <2>3. label \in {"adoptNext", "idle"}
    BY DEF Remaining
  <2>4. CASE AdoptRefused(job[t].sid, x, job[t].force)
    <3>1. sessions' = sessions
      BY <2>4 DEF AdoptRefused
    <3>2. Goto(t, label, [job[t] EXCEPT !.made = job[t].made \ {x}])
      BY <1>1 DEF Job
    <3> QED BY <1>3, <2>1, <2>3, <3>1, <3>2
  <2>5. CASE AdoptWorkspace(job[t].sid, x, job[t].force)
    <3> HIDE DEF k, label
    <3>1. TidyTasks'
      <4>1. label # "idle" => Tidy(label, k)
        BY <2>2, <2>3 DEF Tidy
      <4> QED BY <1>2, <2>2, <4>1, GotoKeepsTidy
    <3>2. /\ OthersStay(t) /\ pc'[t] = label
          /\ label = "idle" => job'[t] = NoJob
          /\ label # "idle" => job'[t] = k
      BY <1>2, <2>2, GotoMoves
    <3>3. ASSUME NEW i \in Ids, Peace(i), i \notin Disputes
          PROVE  Peace(i)'
      <4>1. ~Unregistering(t, i) /\ ~Building(t, i)' /\ ~Removing(t, i)'
        BY <2>2, <2>3, <3>2, IdleUsesNothingNext DEF Unregistering, Building, Removing
      <4>2. CASE i = x
        <5>1. Uses(t, i)
          BY <4>2 DEF Uses
        <5>2. Owners(i)' \subseteq {job[t].sid}
          BY <1>1, <1>2, <2>1, <2>5, <3>3, <4>2, AdoptedOwners DEF Peace
        <5>3. job'[t].sid = job[t].sid \/ pc'[t] = "idle"
          BY <2>2, <2>3, <3>2
        <5> QED BY <1>1, <1>2, <3>2, <3>3, <4>1, <5>1, <5>2, <5>3, GainerKeepsPeace
      <4>3. CASE i # x
        <5>1. Owners(i)' \subseteq Owners(i)
          BY <1>1, <1>2, <2>1, <2>5, <4>3, AdoptedOwners
        <5>2. Uses(t, i)' => Uses(t, i)
          BY <2>2, <2>3, <3>2, IdleUsesNothingNext DEF Uses
        <5> QED BY <1>2, <3>2, <3>3, <4>1, <5>1, <5>2, KeeperKeepsPeace
      <4> QED BY <4>2, <4>3
    <3> QED BY <3>1, <3>3 DEF KeepsPeace
  <2> QED BY <2>4, <2>5
<1> QED BY <1>4, <1>5, <1>6

\* Every step of a handler.
LEMMA CallKeepsPeace ==
  ASSUME SessionInv, TidyTasks, NEW t \in Requests, Call(t)
  PROVE  KeepsPeace
BY FirstKeepsPeace, AdoptAllKeepsPeace, CheckQuotaKeepsPeace, MakeKeepsPeace,
   RegisterKeepsPeace, CandidateKeepsPeace, CheckOwnerKeepsPeace, AdoptOneKeepsPeace,
   DestroyOneKeepsPeace, RemoveKeepsPeace, UnregisterKeepsPeace, AdoptEachKeepsPeace
   DEF Call
-----------------------------------------------------------------------------
(* Ownership: steps of the rest of the daemon *)

\* Sessions that come, are heard of, fall silent and go gain nothing.
LEMMA ConnectionsKeepPeace ==
  ASSUME SessionInv, TidyTasks, NEW s \in Sids,
         Touch(s) \/ MinutePasses(s) \/ Connect(s) \/ Disconnect(s)
  PROVE  KeepsPeace
<1>1. UNCHANGED <<workspaces, exported, state_file, pc, job>> /\ SoundSessions
  BY DEF Touch, MinutePasses, Connect, Disconnect, SessionInv
<1>2. \A i \in Ids : Owners(i)' \subseteq Owners(i)
  <2>1. CASE Touch(s)
    BY <1>1, <2>1, TouchedOwners, SameOwners DEF Touch, Touched
  <2>2. CASE MinutePasses(s)
    BY <1>1, <2>2, TouchedOwners DEF MinutePasses
  <2>3. CASE Connect(s)
    <3>1. sessions'[s].owned = {} /\ \A r \in Sids \ {s} : sessions'[r] = sessions[r]
      BY <1>1, <2>3 DEF Connect, NewSession, SoundSessions
    <3> QED BY <3>1 DEF Owners, Owns, Known
  <2>4. CASE Disconnect(s)
    BY <2>4, SameOwners DEF Disconnect
  <2> QED BY <2>1, <2>2, <2>3, <2>4
<1>3. TidyTasks'
  BY <1>1 DEF TidyTasks
<1> QED BY <1>1, <1>2, <1>3, QuietKeepsPeace DEF KeepsPeace

\* What save_state reads, and what it writes later, names one owner at most.
LEMMA SavesKeepPeace ==
  ASSUME SessionInv, TidyTasks, SaveSessions \/ SaveWorkspaces
  PROVE  KeepsPeace
<1>1. UNCHANGED <<workspaces, sessions, pc, job>>
  BY DEF SaveSessions, SaveWorkspaces
<1>2. TidyTasks'
  BY <1>1 DEF TidyTasks
<1>3. ASSUME NEW i \in Ids, Peace(i)
      PROVE  Peace(i)'
  <2>1. Owners(i)' = Owners(i)
    BY <1>1, SameOwners
  <2>2. \A t \in Requests : Unregistering(t, i)' = Unregistering(t, i)
    BY <1>1 DEF Unregistering
  <2>3. \A t \in Requests : TaskPeace(t, i)'
    BY <1>1, <1>3, <2>1, <2>2 DEF Peace, TaskPeace, Uses, Building, Removing
  <2>4. (exported # None => SavedOnce(exported, i))' /\ SavedOnce(state_file.owners, i)'
    <3>1. CASE SaveSessions
      <4>1. SavedOnce(Ownership, i)
        BY <1>3 DEF Peace, SavedOnce, Ownership, Owners, Owns
      <4> QED BY <1>3, <3>1, <4>1 DEF SaveSessions, Peace, SavedOnce
    <3>2. CASE SaveWorkspaces
      BY <1>3, <3>2 DEF SaveWorkspaces, Peace, SavedOnce
    <3> QED BY <3>1, <3>2
  <2> QED BY <1>1, <1>3, <2>1, <2>2, <2>3, <2>4 DEF Peace
<1> QED BY <1>2, <1>3 DEF KeepsPeace

\* A restart gives a workspace back to the one session the file names, or to none.
LEMMA RestartKeepsPeace ==
  ASSUME SessionInv, TidyTasks, Restart
  PROVE  KeepsPeace
<1> PICK kept \in Kept, a, d \in Sids :
      /\ workspaces' = kept
      /\ sessions' = [s \in Sids |-> IF s \in {a, d} THEN NewSession
                                     ELSE Restored(StillThere(s, kept))]
      /\ client' = Started(a, d) /\ exported' = None
      /\ pc' = [t \in Requests |-> "idle"] /\ job' = [t \in Requests |-> NoJob]
      /\ UNCHANGED state_file
  BY DEF Restart
<1>1. TidyTasks'
  BY DEF TidyTasks, Tidy
<1>2. ASSUME NEW i \in Ids, Peace(i)
      PROVE  Peace(i)'
  <2>1. \A s \in Owners(i)' : i \in state_file.owners[s] /\ i \in kept
    <3> SUFFICES ASSUME NEW s \in Owners(i)'
                 PROVE  i \in state_file.owners[s] /\ i \in kept
      OBVIOUS
    <3>1. s \in Sids /\ sessions'[s] # None /\ i \in sessions'[s].owned
      BY DEF Owners, Owns, Known
    <3>2. s \notin {a, d}
      BY <3>1 DEF NewSession
    <3>3. sessions'[s] = Restored(StillThere(s, kept))
      BY <3>1, <3>2
    <3>4. sessions'[s].owned = StillThere(s, kept)
      BY <3>1, <3>3 DEF Restored
    <3> QED BY <3>1, <3>4 DEF StillThere
  <2>2. \A s, r \in Owners(i)' : s = r
    BY <1>2, <2>1 DEF Peace, SavedOnce, Owners
  <2>3. \A t \in Requests : ~Uses(t, i)' /\ ~Building(t, i)' /\ ~Removing(t, i)'
    BY IdleUsesNothingNext
  <2>4. \A t \in Requests : TaskPeace(t, i)'
    BY <2>3 DEF TaskPeace
  <2>5. (Owners(i) # {})' => i \in workspaces'
    BY <2>1
  <2>6. (exported # None => SavedOnce(exported, i))' /\ SavedOnce(state_file.owners, i)'
    BY <1>2 DEF Peace, SavedOnce
  <2> QED BY <2>2, <2>4, <2>5, <2>6 DEF Peace
<1> QED BY <1>1, <1>2 DEF KeepsPeace

\* The same of the state after a step.
LEMMA FreshNextIsPeaceful == (\A i \in Ids : Fresh(i) => Peace(i))'
BY FreshIsPeaceful, PTL

\* Nothing is owned when the daemon starts.
LEMMA InitEstablishesPeace == Init => PeaceInv
<1> SUFFICES ASSUME Init PROVE PeaceInv
  OBVIOUS
<1>1. SessionInv
  BY InitEstablishesInv
<1>2. TidyTasks
  BY DEF Init, TidyTasks, Tidy
<1>3. \A t \in Requests : job[t] = NoJob /\ pc[t] = "idle"
  BY DEF Init
<1>4. \A t \in Requests, i \in Ids : ~Uses(t, i) /\ ~Building(t, i) /\ ~Removing(t, i)
  BY <1>3, IdleUsesNothing
<1>5. Disputes = {}
  BY <1>4 DEF Disputes
<1>6. ASSUME NEW i \in Ids
      PROVE  Peace(i)
  <2>1. Owners(i) = {}
    BY DEF Init, NewSession, Owners, Owns, Known
  <2>2. (exported # None => SavedOnce(exported, i)) /\ SavedOnce(state_file.owners, i)
    BY DEF Init, SavedOnce
  <2>3. \A t \in Requests : TaskPeace(t, i)
    BY <1>4 DEF TaskPeace
  <2> QED BY <2>1, <2>2, <2>3 DEF Peace
<1> QED BY <1>1, <1>2, <1>5, <1>6 DEF PeaceInv

\* PeaceInv is inductive: what a step leaves undisputed is fresh, or was undisputed.
LEMMA NextKeepsPeace == PeaceInv /\ [Next]_vars => PeaceInv'
<1> SUFFICES ASSUME PeaceInv, [Next]_vars PROVE PeaceInv'
  OBVIOUS
<1>1. SessionInv' /\ SessionInv /\ TidyTasks
  BY NextKeepsInv DEF PeaceInv
<1>2. CASE Next
  <2>1. KeepsPeace
    <3>1. CASE \E t \in Requests : Call(t)
      BY <1>1, <3>1, CallKeepsPeace
    <3>2. CASE Daemon
      BY <1>1, <3>2, ConnectionsKeepPeace, SavesKeepPeace, RestartKeepsPeace DEF Daemon
    <3> QED BY <1>2, <3>1, <3>2 DEF Next
  <2>2. disputed' = {i \in disputed \cup Disputes' : ~Fresh(i)'}
    BY <1>2 DEF Next
  <2>3. (Disputes \subseteq disputed)'
    <3>1. \A i \in Disputes' : \E t \in Requests : Uses(t, i)'
      BY DEF Disputes
    <3>2. \A i : (\E t \in Requests : Uses(t, i)') => ~Fresh(i)'
      BY DEF Fresh
    <3> QED BY <2>2, <3>1, <3>2
  <2>4. ASSUME NEW i \in Ids \ disputed'
        PROVE  Peace(i)'
    <3>1. CASE Fresh(i)'
      BY <3>1, FreshNextIsPeaceful
    <3>2. CASE ~Fresh(i)'
      <4>1. i \notin disputed /\ i \notin Disputes'
        BY <2>2, <2>4, <3>2
      <4>2. Peace(i) /\ i \notin Disputes
        BY <4>1 DEF PeaceInv
      <4> QED BY <2>1, <4>1, <4>2 DEF KeepsPeace
    <3> QED BY <3>1, <3>2
  <2> QED BY <1>1, <2>1, <2>3, <2>4 DEF PeaceInv, KeepsPeace
<1>3. CASE UNCHANGED vars
  <2>1. \A i \in Ids : Owners(i)' = Owners(i)
    BY <1>3, SameOwners DEF vars
  <2>2. Disputes' = Disputes
    BY <1>3, <2>1 DEF vars, Disputes, Uses, Others, Owners, Owns, Known
  <2>3. TidyTasks'
    BY <1>1, <1>3 DEF vars, TidyTasks
  <2>4. \A i \in Ids : Peace(i) => Peace(i)'
    BY <1>3, <2>1, QuietKeepsPeace DEF vars
  <2> QED BY <1>1, <1>3, <2>2, <2>3, <2>4 DEF vars, PeaceInv
<1> QED BY <1>2, <1>3

\* Whatever handlers run at the same time, and over crashes and restarts: a workspace
\* no two calls raced for has one owner at most, and one that is owned exists or is
\* being removed by a call that has yet to give it back.
THEOREM SessionOwnership == Spec => []OwnershipSound
<1>1. PeaceInv => OwnershipSound
  BY DEF PeaceInv, Peace, OwnershipSound, SoleOwner, NoDeadOwnership, Unregistering, Uses
<1> QED BY <1>1, InitEstablishesPeace, NextKeepsPeace, PTL DEF Spec
-----------------------------------------------------------------------------
(* Ownership: who takes a workspace from its session                       *)

\* A session loses a workspace when it unregisters it, or, idle, to an adopter.
Taken(s, i) ==
  \/ Unregisters(s, i)
  \/ ~sessions[s].active /\ \E r \in Sids : Owns(r, i)' /\ ~Owns(r, i)

Lost(s, i) == Owns(s, i) /\ Known(s)' /\ ~Owns(s, i)'

\* Steps after which every session has what it had, or is unknown.
LEMMA NothingLost ==
  ASSUME NEW s \in Sids, NEW i,
         sessions'[s] = None \/ sessions[s].owned \subseteq sessions'[s].owned
  PROVE  ~Lost(s, i)
BY DEF Lost, Owns, Known

\* Touching a session takes nothing from it.
LEMMA TouchedLosesNothing ==
  ASSUME SoundSessions, NEW r \in Sids, NEW heard, Known(r),
         sessions' = [sessions EXCEPT ![r].active = heard], NEW s \in Sids, NEW i
  PROVE  ~Lost(s, i)
<1>1. sessions[r] \in Session
  BY KnownSound DEF Sound
<1>2. sessions'[s].owned = sessions[s].owned
  BY <1>1 DEF SoundSessions, Session
<1> QED BY <1>2, NothingLost

\* Registering a workspace takes none from anyone.
LEMMA RegisteredLosesNothing ==
  ASSUME SoundSessions, NEW r \in Sids, NEW x, Known(r), sessions' = Registered(r, x),
         NEW s \in Sids, NEW i
  PROVE  ~Lost(s, i)
<1>1. sessions[r] \in Session
  BY KnownSound DEF Sound
<1>2. sessions[s].owned \subseteq sessions'[s].owned
  BY <1>1 DEF Registered, Gain, SoundSessions, Session
<1> QED BY <1>2, NothingLost

\* What an adoption takes, it takes from an idle session for the adopter.
LEMMA AdoptedIsTaken ==
  ASSUME SoundSessions, NEW r \in Sids, NEW x \in Ids, NEW force \in BOOLEAN,
         AdoptWorkspace(r, x, force), NEW s \in Sids, NEW i \in Ids, Lost(s, i)
  PROVE  Taken(s, i)
<1>1. CASE sessions' = sessions
  BY <1>1 DEF Lost, Owns, Known
<1>2. CASE \E p \in TakenFrom(r, x, force) :
             ~Owns(r, x) /\ Room(r, 1) /\ sessions' = Moved(r, x, p)
  <2> PICK p \in TakenFrom(r, x, force) : ~Owns(r, x) /\ sessions' = Moved(r, x, p)
    BY <1>2
  <2>1. sessions[r] \in Session /\ Known(r)
    BY KnownSound DEF Sound, AdoptWorkspace
  <2>2. sessions'[r] = Gain(sessions[r], x)
    BY DEF Moved
  <2>3. sessions'[r].owned = sessions[r].owned \cup {x} /\ sessions'[r] \in Session
    <3>1. sessions[r].owned \cup {x} \in SUBSET Ids /\ sessions[r].count + 1 \in Nat
          /\ sessions[r].memory + 1 \in Nat
      BY <2>1 DEF Session
    <3> QED BY <2>1, <2>2, <3>1 DEF Gain, Session
  <2>4. Owns(r, x)' /\ ~Owns(r, x)
    BY <2>3, SessionAssumption DEF Owns, Known, Session
  <2>5. s # r
    BY <2>3, SessionAssumption DEF Lost, Owns, Known, Session
  <2>6. s = p
    BY <2>5 DEF Lost, Owns, Known, Moved
  <2>7. ~sessions[s].active
    BY <2>6, SidsAssumption DEF TakenFrom
  <2>8. i = x
    <3>1. sessions'[s] = Lose(sessions[s], x, 1) /\ Known(s)
      BY <2>5, <2>6 DEF Moved, Lost, Owns
    <3>2. sessions[s] \in Session
      BY <3>1, KnownSound DEF Sound
    <3>3. sessions'[s].owned = sessions[s].owned \ {x}
      BY <3>1, <3>2 DEF Lose, Session
    <3> QED BY <3>3 DEF Lost, Owns, Known
  <2> QED BY <2>4, <2>7, <2>8 DEF Taken
<1> QED BY <1>1, <1>2 DEF AdoptWorkspace

\* unregister_workspace takes only the workspace the call has destroyed.
LEMMA UnregisteredIsTaken ==
  ASSUME SessionInv, NEW t \in Requests, Unregister(t), NEW s \in Sids, NEW i \in Ids, Lost(s, i)
  PROVE  Unregisters(s, i)
<1> DEFINE x == job[t].id
           r == job[t].sid
<1>1. r \in Sids /\ pc[t] = "unregister" /\ SoundSessions
  BY TaskFacts DEF SessionInv, Unregister, At
<1>2. PICK units : sessions' = Unregistered(r, x, units)
  BY DEF Unregister
<1>3. CASE Owns(r, x)
  <2>1. sessions[r] \in Session
    BY <1>1, <1>3, KnownSound DEF Sound, Owns
  <2>2. sessions'[r].owned = sessions[r].owned \ {x}
        /\ \A q \in Sids \ {r} : sessions'[q] = sessions[q]
    BY <1>1, <1>2, <1>3, <2>1 DEF Unregistered, Lose, SoundSessions, Session
  <2>3. s = r /\ i = x
    BY <2>2 DEF Lost, Owns, Known
  <2> QED BY <1>1, <2>3 DEF Unregisters
<1>4. CASE ~Owns(r, x)
  BY <1>2, <1>4 DEF Unregistered, Lost, Owns, Known
<1> QED BY <1>3, <1>4

\* The first step of a handler takes nothing.
LEMMA EnterLosesNothing ==
  ASSUME SessionInv, NEW s \in Sids, NEW i, Lost(s, i),
         NEW t, NEW r \in Sids, NEW clients, NEW label, NEW j, Enter(t, r, clients, label, j)
  PROVE  FALSE
<1>1. SoundSessions
  BY DEF SessionInv
<1>2. CASE sessions' = sessions
  BY <1>2 DEF Lost, Owns, Known
<1>3. CASE Known(r) /\ sessions' = [sessions EXCEPT ![r].active = TRUE]
  BY <1>1, <1>3, TouchedLosesNothing
<1> QED BY <1>2, <1>3 DEF Enter, Touched

\* What a handler takes from a session is unregistered or adopted.
LEMMA CallTakes ==
  ASSUME SessionInv, NEW t \in Requests, Call(t), NEW s \in Sids, NEW i \in Ids, Lost(s, i)
  PROVE  Taken(s, i)
<1>1. SoundSessions /\ (sessions' = sessions => FALSE)
  BY DEF SessionInv, Lost, Owns, Known
<1>2. CASE Create(t) \/ Fork(t) \/ Prepare(t) \/ Destroy(t) \/ Adopt(t)
  BY <1>2, EnterLosesNothing DEF Create, Fork, Prepare, Destroy, Adopt
<1>3. CASE AdoptAll(t)
  <2> PICK r \in Sids : sessions' = [q \in Sids |-> IF q = r THEN Touched(r)[r] ELSE None]
    BY <1>3 DEF AdoptAll
  <2>1. s = r
    BY DEF Lost, Known
  <2>2. sessions[s] \in Session /\ Known(s)
    BY <1>1, KnownSound DEF Sound, Lost, Owns
  <2>3. sessions'[s].owned = sessions[s].owned
    BY <1>1, <2>1, <2>2 DEF Touched, Session, SoundSessions
  <2> QED BY <2>3, NothingLost
<1>4. CASE Register(t)
  <2>1. job[t].sid \in Sids
    BY <1>4, TaskFacts DEF SessionInv, Register, At
  <2> PICK x \in job[t].made : RegisterStep(t, x, [job[t] EXCEPT !.made = @ \ {x}])
    BY <1>4 DEF Register, RegisterStep
  <2>2. [job[t] EXCEPT !.made = @ \ {x}].sid = job[t].sid
    BY TaskFacts DEF SessionInv, Job
  <2>3. Known(job[t].sid) /\ sessions' = Registered(job[t].sid, x)
    BY <1>1, <2>2 DEF RegisterStep, Room
  <2> QED BY <1>1, <2>1, <2>3, RegisteredLosesNothing
<1>5. CASE AdoptOne(t)
  <2> DEFINE force == job[t].force \/ job[t].op = "prepare"
  <2>1. job[t].sid \in Sids /\ job[t].id \in Ids /\ force \in BOOLEAN
    BY <1>5, TaskFacts DEF SessionInv, AdoptOne, At, Addressed, Job
  <2>2. AdoptWorkspace(job[t].sid, job[t].id, force)
    BY <1>1, <1>5 DEF AdoptOne, AdoptRefused
  <2> HIDE DEF force
  <2> QED BY <1>1, <2>1, <2>2, AdoptedIsTaken
<1>6. CASE AdoptNext(t)
  <2>1. PICK x \in job[t].made :
          \/ AdoptWorkspace(job[t].sid, x, job[t].force)
          \/ AdoptRefused(job[t].sid, x, job[t].force)
    <3>1. job[t] \in Job
      BY TaskFacts DEF SessionInv
    <3> QED BY <1>6, <3>1 DEF AdoptNext, Job
  <2>2. job[t].sid \in Sids /\ x \in Ids /\ job[t].force \in BOOLEAN
    BY <1>6, TaskFacts DEF SessionInv, AdoptNext, At, Job
  <2> QED BY <1>1, <2>1, <2>2, AdoptedIsTaken DEF AdoptRefused
<1>7. CASE Unregister(t)
  BY <1>7, UnregisteredIsTaken DEF Taken
<1>8. CASE \/ CheckQuota(t) \/ Make(t) \/ Candidate(t) \/ CheckOwner(t) \/ DestroyOne(t)
           \/ Remove(t) \/ ListAll(t) \/ Candidates(t)
  BY <1>1, <1>8 DEF CheckQuota, Make, Candidate, CheckOwner, DestroyOne, Remove, ListAll,
     Candidates
<1> QED BY <1>2, <1>3, <1>4, <1>5, <1>6, <1>7, <1>8 DEF Call

\* The new agent of a restart was not the agent before: it is another run.
LEMMA DaemonTakesNothing ==
  ASSUME SessionInv, Daemon, SameRun, NEW s \in Sids, NEW i \in Ids, Lost(s, i)
  PROVE  FALSE
<1>1. SoundSessions /\ (sessions' = sessions => FALSE)
  BY DEF SessionInv, Lost, Owns, Known
<1>2. ASSUME NEW r \in Sids, Touch(r)
      PROVE  FALSE
  BY <1>1, <1>2, TouchedLosesNothing DEF Touch, Touched
<1>3. ASSUME NEW r \in Sids, MinutePasses(r)
      PROVE  FALSE
  BY <1>1, <1>3, TouchedLosesNothing DEF MinutePasses
<1>4. ASSUME NEW r \in Sids, Connect(r)
      PROVE  FALSE
  BY <1>1, <1>4 DEF Connect, Unused, SoundSessions, Lost, Owns, Known
<1>5. CASE Restart
  <2> PICK a, d \in Sids : client[a] # "agent" /\ client' = Started(a, d)
    BY <1>5 DEF Restart
  <2>1. client'[a] = "agent"
    BY DEF Started
  <2> QED BY <2>1 DEF SameRun
<1> QED BY <1>1, <1>2, <1>3, <1>4, <1>5 DEF Daemon, Disconnect, SaveSessions, SaveWorkspaces

\* Every step of the daemon within one run.
LEMMA StepTakes ==
  ASSUME SessionInv, [Next]_vars, SameRun, NEW s \in Sids, NEW i \in Ids, Lost(s, i)
  PROVE  Taken(s, i)
<1>1. CASE UNCHANGED vars
  BY <1>1 DEF vars, Lost, Owns, Known
<1> QED BY <1>1, CallTakes, DaemonTakesNothing DEF Next

\* While the daemon runs, no session that is still known loses a workspace but at the
\* end of a destroy of its own, or while it is idle to an adopter that then owns it:
\* register, adopt, purge and the quota checks between them lose nothing.
THEOREM SessionLosses == Spec => LosesOnlyToAdopters
<1>1. SessionInv /\ [Next]_vars =>
        [SameRun => \A s \in Sids, i \in Ids :
           Owns(s, i) /\ Known(s)' /\ ~Owns(s, i)' =>
             \/ Unregisters(s, i)
             \/ ~sessions[s].active /\ \E r \in Sids : Owns(r, i)' /\ ~Owns(r, i)]_vars
  BY StepTakes DEF Lost, Taken
<1> QED BY <1>1, InitEstablishesInv, NextKeepsInv, PTL DEF Spec, LosesOnlyToAdopters
=============================================================================
