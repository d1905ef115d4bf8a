------------------------- MODULE MCLeaderRequests -------------------------
EXTENDS LeaderRequests, TLC
CONSTANTS c1, c2, m1, m2
\* One client that changes its mind, and another that shares the agent with it.
OneBusyClient == c1 :> 2 @@ c2 :> 1
ModelSymmetry == Permutations(Models)
=============================================================================
