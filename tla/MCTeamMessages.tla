--------------------------- MODULE MCTeamMessages ---------------------------
\* A worker and the agent that assigns tasks to it.
EXTENDS TeamMessages, TLC

ToWorker ==
  {[from |-> "lead", to |-> "worker", kind |-> "task"],
   [from |-> "lead", to |-> "*", kind |-> "malformed"]}
=============================================================================
