------------------------------ MODULE AutoCommit ------------------------------
(***************************************************************************)
(* The statements of one connection over SQLite's auto-commit.  JDBC wants *)
(* the changes of a call to be in the file when the call returns in        *)
(* auto-commit mode; SQLite commits when its last writing statement halts. *)
(* An update with a RETURNING clause goes on writing until its result has  *)
(* been read to the end or closed, and the changes of every other          *)
(* statement wait for it ("limbo").  DB.ensureAutoCommit runs              *)
(* "begin; commit;" after a statement against that.                        *)
(*                                                                         *)
(* One action is one section under the monitor of the DB: statements of    *)
(* any number of threads come between the sections of a batch and of       *)
(* setAutoCommit, commit and rollback, which one thread calls.             *)
(***************************************************************************)
EXTENDS Naturals

CONSTANTS
  Writes,        \* changes, each made by one execution
  Statements,    \* statements with a RETURNING clause
  OtherReaders   \* another connection may be reading when this one commits

ASSUME AutoCommitAssumption == OtherReaders \in BOOLEAN

VARIABLES
  flag,      \* SQLiteConnectionConfig.isAutoCommit()
  inTx,      \* SQLite's db->autoCommit = 0
  active,    \* the statements whose rows are being read: active writers
  pending,   \* changes made and not committed
  durable,   \* changes committed
  control,   \* what setAutoCommit, commit or rollback executes next
  batch,     \* the flag a batch has read on its way to the monitor
  acked,     \* changes of calls that returned normally in auto-commit mode
  dropped,   \* of these, what the close of a result set lost
  told       \* a call has thrown since SQLite is in a transaction in auto-commit mode

vars == <<flag, inTx, active, pending, durable, control, batch, acked, dropped, told>>

Flags == {"on", "off"}

TypeOK ==
  /\ flag \in Flags /\ inTx \in BOOLEAN /\ active \subseteq Statements
  /\ pending \subseteq Writes /\ durable \subseteq Writes
  /\ control \in {"idle", "begin", "commit"}
  /\ batch \in {"none"} \cup Flags
  /\ acked \subseteq Writes /\ dropped \subseteq acked /\ told \in BOOLEAN

Init ==
  /\ flag = "on" /\ inTx = FALSE /\ active = {}
  /\ pending = {} /\ durable = {}
  /\ control = "idle" /\ batch = "none"
  /\ acked = {} /\ dropped = {} /\ told = FALSE

Fresh == Writes \ (pending \cup durable \cup acked)

\* How a call ends: it returns, in auto-commit mode acknowledging the changes W,
\* or it throws, and what it has taken away is not believed any more.
Returns(W) ==
  /\ told' = (told /\ flag' = "on" /\ inTx')
  /\ acked' = IF flag = "on" THEN acked \cup W ELSE acked
  /\ UNCHANGED dropped

Throws ==
  /\ told' = (flag' = "on" /\ inTx')
  /\ acked' = (acked \cap (pending' \cup durable')) \cup dropped
  /\ UNCHANGED dropped

-----------------------------------------------------------------------------
(* SQLite, and ensureAutoCommit over it.                                   *)

\* A writer that has made the changes W halts: the last one commits.
Halt(W, others) ==
  IF inTx \/ others # {}
  THEN pending' = pending \cup W /\ UNCHANGED durable
  ELSE durable' = durable \cup pending \cup W /\ pending' = {}

\* The commit of the last writer is busy: everything is rolled back.
HaltBusy(W, others) ==
  /\ OtherReaders /\ ~inTx /\ others = {} /\ pending \cup W # {}
  /\ pending' = {} /\ UNCHANGED <<durable, inTx>>

\* Disk full, an i/o error or an interrupt.
RollbackAll == pending' = {} /\ inTx' = FALSE /\ UNCHANGED durable

\* MUTANT: "commit" is run although "begin" has failed.
EnsureAutoCommitAlways(W, f) ==
  IF f = "on" /\ active = {}
  THEN durable' = durable \cup pending \cup W /\ pending' = {} /\ inTx' = FALSE
  ELSE Halt(W, active) /\ inTx' = (inTx \/ f = "on")

\* An execution halts and ensureAutoCommit follows: "begin" does nothing in a
\* transaction, and "commit" fails while a writer is active.
EnsureAutoCommit(W, f) ==
  Halt(W, active) /\ inTx' = (inTx \/ (f = "on" /\ active # {}))

\* MUTANT: the result of "commit" is not looked at.
EnsureIgnores(f) == FALSE

EnsureThrows(f) == f = "on" /\ ~inTx /\ active # {}

-----------------------------------------------------------------------------
(* Statements.  A call that fails and changes nothing is left out.         *)

\* Through DB.execute and DB.executeUpdate: every prepared statement, execute()
\* of a plain one, and the entries of its batch.
Execute ==
  \E w \in Fresh :
    /\ UNCHANGED <<flag, active, control, batch>>
    /\ EnsureAutoCommit({w}, flag)
    /\ IF EnsureThrows(flag) THEN Throws ELSE Returns({w})

\* Statement.executeUpdate goes through sqlite3_exec, without ensureAutoCommit.
ExecuteUpdate ==
  \E w \in Fresh :
    /\ UNCHANGED <<flag, inTx, active, control, batch>>
    /\ Halt({w}, active) /\ Returns({w})

ExecuteBusy ==
  \E w \in Fresh :
    UNCHANGED <<flag, active, control, batch>> /\ HaltBusy({w}, active) /\ Throws

ExecuteFatal == UNCHANGED <<flag, active, control, batch>> /\ RollbackAll /\ Throws

\* The first step of an update with RETURNING makes every change; SQLITE_ROW.
ExecuteReturning(s) ==
  /\ s \notin active /\ active' = active \cup {s}
  /\ \E w \in Fresh : pending' = pending \cup {w}
  /\ UNCHANGED <<flag, inTx, durable, control, batch>>
  /\ Returns({})

Leave(s) == s \in active /\ active' = active \ {s} /\ UNCHANGED <<flag, control, batch>>

NextDone(s) == Leave(s) /\ Halt({}, active') /\ UNCHANGED inTx /\ Returns({})

\* MUTANT: next() takes the busy commit for the end of the rows.
NextBusyIsDone(s) == Leave(s) /\ HaltBusy({}, active') /\ Returns({})

NextBusy(s) == Leave(s) /\ HaltBusy({}, active') /\ Throws

NextFatal(s) == Leave(s) /\ RollbackAll /\ Throws

CloseResultSet(s) == Leave(s) /\ Halt({}, active') /\ UNCHANGED inTx /\ Returns({})

\* CoreResultSet.close does not look at the result of sqlite3_reset.
CloseDrops(s) ==
  /\ Leave(s) /\ HaltBusy({}, active')
  /\ dropped' = dropped \cup (acked \cap pending)
  /\ UNCHANGED <<acked, told>>

\* The argument getAutoCommit() of DB.executeBatch is evaluated before the monitor.
BatchCalled ==
  /\ batch = "none" /\ batch' = flag
  /\ UNCHANGED <<flag, inTx, active, pending, durable, control, acked, dropped, told>>

\* The rows W run, each halting by itself, and then the batch ends or a row fails.
ExecuteBatch ==
  /\ batch # "none" /\ batch' = "none"
  /\ UNCHANGED <<flag, active, control>>
  /\ \E W \in SUBSET Fresh :
       /\ EnsureAutoCommit(W, batch)
       /\ Throws \/ (~EnsureThrows(batch) /\ Returns(W))

\* ensureAutoCommit runs in the finally, after the transaction has been lost.
BatchFatal ==
  /\ batch # "none" /\ batch' = "none"
  /\ pending' = {} /\ inTx' = (batch = "on" /\ active # {})
  /\ UNCHANGED <<flag, active, durable, control>>
  /\ Throws

-----------------------------------------------------------------------------
(* Transaction control: setAutoCommit changes the flag first.              *)

SetAutoCommit ==
  /\ control = "idle"
  /\ \/ flag = "on" /\ flag' = "off" /\ control' = "begin"
     \/ flag = "off" /\ flag' = "on" /\ control' = "commit"
  /\ UNCHANGED <<inTx, active, pending, durable, batch>>
  /\ Returns({})

Begin ==
  /\ control = "begin" /\ control' = "idle"
  /\ UNCHANGED <<flag, active, pending, durable, batch>>
  /\ \/ ~inTx /\ inTx' = TRUE /\ Returns({})
     \/ UNCHANGED inTx /\ Throws       \* in a transaction, or busy

SqlCommit(next) ==
  \/ /\ inTx /\ active = {} /\ inTx' = FALSE
     /\ durable' = durable \cup pending /\ pending' = {}
     /\ UNCHANGED <<flag, active, batch>>
     /\ control' = next /\ Returns({})
  \/ /\ ~inTx \/ active # {} \/ (OtherReaders /\ pending # {})
     /\ UNCHANGED <<flag, inTx, active, pending, durable, batch>>
     /\ control' = "idle" /\ Throws

CommitAuto == control = "commit" /\ SqlCommit("idle")

Commit == control = "idle" /\ flag = "off" /\ SqlCommit("begin")

\* What the application rolls back was never to stay.
Rollback ==
  /\ control = "idle" /\ flag = "off"
  /\ UNCHANGED <<flag, active, batch>>
  /\ \/ /\ inTx /\ RollbackAll /\ control' = "begin"
        /\ acked' = acked \ pending /\ UNCHANGED <<dropped, told>>
     \/ ~inTx /\ UNCHANGED <<inTx, pending, durable, control>> /\ Throws

-----------------------------------------------------------------------------
Reading(s) ==
  \/ ExecuteReturning(s) \/ NextDone(s) \/ NextBusy(s) \/ NextFatal(s)
  \/ CloseResultSet(s) \/ CloseDrops(s)

Next ==
  \/ Execute \/ ExecuteUpdate \/ ExecuteBusy \/ ExecuteFatal
  \/ \E s \in Statements : Reading(s)
  \/ BatchCalled \/ ExecuteBatch \/ BatchFatal
  \/ SetAutoCommit \/ Begin \/ CommitAuto \/ Commit \/ Rollback

Spec == Init /\ [][Next]_vars

-----------------------------------------------------------------------------
(* Properties.                                                             *)

\* ensureAutoCommit may leave SQLite in a transaction that the application knows
\* nothing of, when another statement still writes; then a call has thrown.
TransactionIsReported == control = "idle" /\ flag = "on" /\ inTx => told

\* Limbo ends with the last open RETURNING result: outside a transaction every
\* change of a call that returned in auto-commit mode is then in the file, but
\* for those lost by the close of a result set, which reports nothing.
LimboEnds == ~inTx /\ active = {} => acked \subseteq durable \cup dropped

\* Nothing but commit() and setAutoCommit(true) commits a transaction: the commit
\* of ensureAutoCommit, for a batch with a flag that is stale, never does.
OnlyCommitCommits ==
  [][inTx /\ durable' # durable
     => control = "commit" \/ (control = "idle" /\ control' = "begin")]_vars

-----------------------------------------------------------------------------
\* The comment of DB.ensureAutoCommit: "when executeUpdate() returns in auto-commit
\* mode (the default), the programmer assumes the data has been written to disk ...
\* As a solution, we call "commit" after every statement in auto-commit mode."
AckedIsDurable ==
  flag = "on" /\ control = "idle" /\ active = {} => acked \subseteq durable

=============================================================================
