------------------------ MODULE MCTransactionControl ------------------------
(* An instance of TransactionControl for TLC: connection 1 has explicit     *)
(* read-only support and nested savepoints, connection 2 has one savepoint. *)
EXTENDS TransactionControl, TLC

MCConns == {1, 2}
MCTransactionMode == <<"DEFERRED", "IMMEDIATE">>
MCExplicitReadOnly == <<TRUE, FALSE>>
MCMaxSavepoints == <<2, 1>>

\* Changes are interchangeable, connections are not.
Symmetry == Permutations(Writes)
=============================================================================
