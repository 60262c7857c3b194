------------------------------ MODULE MCFleet ------------------------------
\* A team with a sub-team, a swarm or an orchestration of two workers.
EXTENDS FleetRequests, TLC

Plan(kind, size, steps) ==
  [kind |-> kind, size |-> size, env |-> "env" \in steps, merge |-> "merge" \in steps,
   cleanup |-> "cleanup" \in steps,
   bridge |-> IF "bridge" \in steps THEN "enabled"
              ELSE IF "nobridge" \in steps THEN "disabled" ELSE "unwanted"]
SomePlans ==
  {Plan("swarm", 2, {"bridge", "cleanup"}), Plan("swarm", 1, {"env", "merge"}),
   Plan("swarm", 1, {"nobridge"}), Plan("orchestrate", 2, {"cleanup"})}

\* A team with two members, and a sub-team of it.
Order(name, parent, roles) == [name |-> name, parent |-> parent, roles |-> roles]
SomeOrders == {Order("core", None, 2), Order("sub", "core", 1)}

\* What comes after a race on a team is not followed: nothing is promised of it.
NoRaceYet == disputed = {}

Symmetry == Permutations(Ids) \cup Permutations(Requests)
=============================================================================
