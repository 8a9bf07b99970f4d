---------------------------- MODULE MCAgentRuns ----------------------------
EXTENDS AgentRuns

\* Two drafts, of which the one seen last is poison, and a feed that ends with
\* poison.
TwoCards == {1, 2}
TwoCandidates == {3, 4}
LastOnesFail == {2, 4}

=============================================================================
