--------------------------- MODULE NativeStatements ---------------------------
(***************************************************************************)
(* What the sqlite3 C interface asks of its caller: a statement is used    *)
(* only between sqlite3_prepare_v2 and sqlite3_finalize, each is finalized *)
(* once, and sqlite3_close comes after the last of them.  Statements are   *)
(* known by the SafeStmtPtr that stands for them, since their addresses    *)
(* are used again.                                                         *)
(***************************************************************************)
CONSTANTS
  Ptrs,     \* SafeStmtPtr objects
  Addrs,    \* addresses of sqlite3_stmt objects
  NoPtr     \* no object

VARIABLES
  owner,    \* the object that stands for the statement at an address
  dbOpen,   \* the sqlite3 object exists
  called    \* the object whose statement was used last

nativeVars == <<owner, dbOpen, called>>

Init ==
  /\ owner = [a \in Addrs |-> NoPtr]
  /\ dbOpen = TRUE
  /\ called = NoPtr

\* sqlite3_prepare_v2
Prepare(p, a) ==
  /\ dbOpen
  /\ owner[a] = NoPtr /\ \A b \in Addrs : owner[b] # p
  /\ owner' = [owner EXCEPT ![a] = p]
  /\ called' = NoPtr
  /\ UNCHANGED dbOpen

\* sqlite3_step, _reset, _bind_*, _column_*
Use(p, a) ==
  /\ dbOpen
  /\ owner[a] = p
  /\ called' = p
  /\ UNCHANGED <<owner, dbOpen>>

\* sqlite3_finalize
Finalize(p, a) ==
  /\ dbOpen
  /\ owner[a] = p
  /\ owner' = [owner EXCEPT ![a] = NoPtr]
  /\ called' = NoPtr
  /\ UNCHANGED dbOpen

\* sqlite3_close
CloseDatabase ==
  /\ dbOpen
  /\ \A a \in Addrs : owner[a] = NoPtr
  /\ dbOpen' = FALSE
  /\ called' = NoPtr
  /\ UNCHANGED owner

Next ==
  \/ \E p \in Ptrs, a \in Addrs : Prepare(p, a) \/ Use(p, a) \/ Finalize(p, a)
  \/ CloseDatabase

Spec == Init /\ [][Next]_nativeVars
=============================================================================
