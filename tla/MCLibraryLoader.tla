---------------------------- MODULE MCLibraryLoader ----------------------------
(* An instance of LibraryLoader for TLC: two threads of one machine and one   *)
(* thread of another.                                                         *)
EXTENDS LibraryLoader

CONSTANTS j1, j2, t1, t2, t3

MCJvmOf == [t \in Threads |-> IF t = t3 THEN j2 ELSE j1]
=============================================================================
