-------------------------- MODULE MCConnectionTimeout --------------------------
(* An instance of ConnectionTimeout for TLC: three calls, two of them of one  *)
(* thread, and callbacks one level deep.                                      *)
EXTENDS ConnectionTimeout

CONSTANTS t1, t2

MCTimeouts == 0..2
MCQueryTimeouts == 0..1
MCMaxCalls == [t \in Threads |-> IF t = t1 THEN 2 ELSE 1]
=============================================================================
