--------------------------- MODULE MCPooledHandle ---------------------------
(* Instances of PooledHandle for TLC: threads and handles are               *)
(* interchangeable (the symmetry serves the runs without liveness).         *)
EXTENDS PooledHandle, TLC

Symmetry == Permutations(Threads) \cup Permutations(Handles)
=============================================================================
