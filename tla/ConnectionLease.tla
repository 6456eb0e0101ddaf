--------------------------- MODULE ConnectionLease ---------------------------
(***************************************************************************)
(* What a pool expects of a pooled connection: one borrower at a time,     *)
(* each known by its handle; uncommitted changes are those of the current  *)
(* borrower; a connection comes back without any, is closed by its         *)
(* borrower or when nobody has it, and is not lent after that.  Nothing is *)
(* promised once the pool has been used in another way.                    *)
(***************************************************************************)
CONSTANTS Handles, NoHandle

VARIABLES
  lessee,   \* the open handle
  pending,  \* the handles whose changes are not committed yet
  alive,    \* the physical connection is open
  orderly   \* every handle was closed by its borrower, no commit failed half-way

leaseVars == <<lessee, pending, alive, orderly>>

Init == lessee = NoHandle /\ pending = {} /\ alive = TRUE /\ orderly = TRUE

Lend(h) ==
  /\ lessee = NoHandle /\ pending = {} /\ alive
  /\ lessee' = h /\ UNCHANGED <<pending, alive>>
Work(h)   == lessee = h /\ alive /\ pending' = {h} /\ UNCHANGED <<lessee, alive>>
Settle(h) == lessee = h /\ pending' = {} /\ UNCHANGED <<lessee, alive>>
Return(h) == lessee = h /\ pending = {} /\ lessee' = NoHandle /\ UNCHANGED <<pending, alive>>

\* The borrower closes the physical connection and loses its own changes.
Break(h) == lessee = h /\ alive' = FALSE /\ pending' = {} /\ UNCHANGED lessee

\* The pool, or the last borrower, has no more use for it.
Retire == lessee = NoHandle /\ pending = {} /\ alive' = FALSE /\ UNCHANGED <<lessee, pending>>

Abuse == orderly' = FALSE

Next ==
  \/ /\ Retire \/ \E h \in Handles : Lend(h) \/ Work(h) \/ Settle(h) \/ Return(h) \/ Break(h)
     /\ UNCHANGED orderly
  \/ Abuse

Spec == Init /\ [][Next]_leaseVars
=============================================================================
