------------------------- MODULE MCStatementHandles -------------------------
(* Instances of StatementHandles for TLC: threads and addresses are         *)
(* interchangeable model values.                                            *)
EXTENDS StatementHandles, TLC

Symmetry == Permutations(Threads) \cup Permutations(Addrs) \cup Permutations(Ptrs)
=============================================================================
