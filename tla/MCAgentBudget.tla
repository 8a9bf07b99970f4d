--------------------------- MODULE MCAgentBudget ---------------------------
(* Instances of AgentBudget for TLC.  A budget of 3 is reached by an      *)
(* enrichment (2) and a classification (1); 80% of it is 2.4.             *)
EXTENDS AgentBudget, TLC

CONSTANTS c1, j1, j2

OneChecker == {c1}
OneJob == {j1}
TwoJobs == {j1, j2}

\* Sound for the safety runs: no slot is told from another.
SlotSymmetry == Permutations(TwoJobs)
============================================================================
