------------------------------ MODULE AtomicCopy ------------------------------
(***************************************************************************)
(* What the caller of a backup or restore relies on: the target file       *)
(* becomes, in one step, what the source file is at that moment, or it     *)
(* keeps what it had.                                                      *)
(***************************************************************************)
CONSTANT Files   \* what a database file may hold

VARIABLES
  source,   \* the committed content of the source
  target,   \* the committed content of the target
  outcome   \* of the last call: "none", "running", "copied" or "failed"

copyVars == <<source, target, outcome>>

Init == source \in Files /\ target \in Files /\ outcome = "none"

Change == source' \in Files /\ UNCHANGED <<target, outcome>>
Call   == outcome # "running" /\ outcome' = "running" /\ UNCHANGED <<source, target>>
Copy   == /\ outcome = "running" /\ outcome' = "copied"
          /\ target' = source /\ UNCHANGED source
GiveUp == outcome = "running" /\ outcome' = "failed" /\ UNCHANGED <<source, target>>

Next == Change \/ Call \/ Copy \/ GiveUp

Spec == Init /\ [][Next]_copyVars
=============================================================================
