--------------------------- MODULE MCVibeWorkers ---------------------------
(* Two interchangeable workers.                                              *)
EXTENDS VibeWorkers, TLC

CONSTANTS w1, w2
TwoWorkers == {w1, w2}
OneWorker == {w1}
WorkerSymmetry == Permutations(TwoWorkers)
=============================================================================
