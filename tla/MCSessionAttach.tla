------------------------- MODULE MCSessionAttach -------------------------
EXTENDS SessionAttach, TLC
CONSTANTS a, b, i
ClientSymmetry == Permutations(Clients)
=============================================================================
