----------------------------- MODULE MCAutoCommit -----------------------------
(* An instance of AutoCommit for TLC.  Changes and statements are symmetric.  *)
EXTENDS AutoCommit, TLC

Symmetry == Permutations(Writes) \cup Permutations(Statements)
=============================================================================
