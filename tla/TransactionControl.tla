------------------------- MODULE TransactionControl -------------------------
(***************************************************************************)
(* How the driver keeps the JDBC view of a transaction (auto-commit flag,  *)
(* current transaction mode, read-only flag) in step with the transaction  *)
(* SQLite really has.                                                      *)
(*                                                                         *)
(* Several connections, each driven by one client thread, share one        *)
(* database file in rollback-journal mode.  A JDBC call that makes one     *)
(* call into SQLite is one action; a call that makes several is split      *)
(* there, because another connection may take a lock in between.           *)
(* SQLITE_BUSY is never chosen freely: it is the answer of the file locks. *)
(***************************************************************************)
EXTENDS Naturals, Sequences, FiniteSets

CONSTANTS
  Conns,          \* the connections
  Writes,         \* identities of row changes; each is issued at most once
  TransactionMode,  \* transaction mode in the configuration of each connection
  ExplicitReadOnly, \* SQLiteConfig.explicitReadOnly of each connection
  MaxSavepoints,  \* bound on the nesting of savepoints, for each connection
  Faulty          \* may a statement fail so badly that SQLite rolls back?

ASSUME ConfigAssumption ==
  /\ TransactionMode \in [Conns -> {"DEFERRED", "IMMEDIATE", "EXCLUSIVE"}]
  /\ ExplicitReadOnly \in [Conns -> BOOLEAN]
  /\ MaxSavepoints \in [Conns -> Nat]
  /\ Faulty \in BOOLEAN

VARIABLES
  \* the driver
  pc,          \* where the call in progress on a connection stands
  stmt,        \* the statement that call is to run
  autoCommit,  \* SQLiteConnectionConfig.autoCommit
  mode,        \* SQLiteConnection.currentTransactionMode
  readOnly,    \* JDBC3Connection.readOnly
  firstStatementExecuted,
  \* SQLite
  open,        \* the connection is inside a transaction (sqlite3.autoCommit = 0)
  savepoints,  \* stack of savepoints: what the transaction had changed then
  transactionSavepoint, \* the transaction was opened by the outermost savepoint
  queryOnly,   \* PRAGMA query_only
  lock,        \* lock held on the database file
  pending,     \* changes of the open transaction
  durable,     \* changes committed to the file
  \* history
  fresh,       \* changes not issued yet
  acked,       \* changes acknowledged since the JDBC transaction began
  excused      \* the client was told, since the views last agreed, that they may not

jdbcVars   == <<pc, stmt, autoCommit, mode, readOnly, firstStatementExecuted>>
sqliteVars == <<open, savepoints, transactionSavepoint, queryOnly, lock, pending, durable>>
vars       == <<jdbcVars, sqliteVars, fresh, acked, excused>>

Modes == {"null", "DEFERRED", "IMMEDIATE", "EXCLUSIVE"}
Locks == {"none", "shared", "reserved", "pending", "exclusive"}
WriteLocks == {"reserved", "pending", "exclusive"}

\* How a statement reaches SQLite: Statement.executeUpdate/executeBatch,
\* Statement.execute/executeQuery, or a PreparedStatement.
Apis  == {"update", "execute", "prepared"}
Stmts == [api : Apis, write : BOOLEAN]
NoStmt == [api |-> "update", write |-> FALSE]

PCs == {"closed", "idle", "commitBegin", "rollbackBegin", "upgradeBegin", "run"}

TypeOK ==
  /\ pc \in [Conns -> PCs]
  /\ stmt \in [Conns -> Stmts]
  /\ autoCommit \in [Conns -> BOOLEAN]
  /\ mode \in [Conns -> Modes]
  /\ readOnly \in [Conns -> BOOLEAN]
  /\ firstStatementExecuted \in [Conns -> BOOLEAN]
  /\ open \in [Conns -> BOOLEAN]
  /\ savepoints \in [Conns -> Seq(SUBSET Writes)]
  /\ transactionSavepoint \in [Conns -> BOOLEAN]
  /\ queryOnly \in [Conns -> BOOLEAN]
  /\ lock \in [Conns -> Locks]
  /\ pending \in [Conns -> SUBSET Writes]
  /\ durable \in SUBSET Writes
  /\ fresh \in SUBSET Writes
  /\ acked \in [Conns -> SUBSET Writes]
  /\ excused \in [Conns -> BOOLEAN]

Init ==
  /\ pc = [c \in Conns |-> "closed"]
  /\ stmt = [c \in Conns |-> NoStmt]
  /\ autoCommit = [c \in Conns |-> TRUE]
  /\ mode = [c \in Conns |-> "null"]
  /\ readOnly = [c \in Conns |-> FALSE]
  /\ firstStatementExecuted = [c \in Conns |-> FALSE]
  /\ open = [c \in Conns |-> FALSE]
  /\ savepoints = [c \in Conns |-> <<>>]
  /\ transactionSavepoint = [c \in Conns |-> FALSE]
  /\ queryOnly = [c \in Conns |-> FALSE]
  /\ lock = [c \in Conns |-> "none"]
  /\ pending = [c \in Conns |-> {}]
  /\ durable = {}
  /\ fresh = Writes
  /\ acked = [c \in Conns |-> {}]
  /\ excused = [c \in Conns |-> FALSE]

-----------------------------------------------------------------------------
(* SQLite's side: locks and the effect of one transaction statement.       *)

CanRead(c) ==
  lock[c] # "none" \/ \A d \in Conns \ {c} : lock[d] \notin {"pending", "exclusive"}
CanReserve(c)  == \A d \in Conns \ {c} : lock[d] \notin WriteLocks
CanExclude(c)  == \A d \in Conns \ {c} : lock[d] = "none"

\* The result of "begin ..." (OP_Transaction first, then OP_AutoCommit).
BeginResult(c, m) ==
  IF m # "DEFERRED" /\ queryOnly[c] THEN "READONLY"
  ELSE IF m = "IMMEDIATE" /\ ~CanReserve(c) THEN "BUSY"
  ELSE IF m = "EXCLUSIVE" /\ ~CanExclude(c) THEN "BUSY"
  ELSE IF open[c] THEN "ERROR"
  ELSE "OK"

BeginLock(c, m) ==
  CASE m = "DEFERRED"  -> lock[c]
    [] m = "IMMEDIATE" -> IF lock[c] \in WriteLocks THEN lock[c] ELSE "reserved"
    [] m = "EXCLUSIVE" -> "exclusive"

\* "begin ...": a refused OP_AutoCommit keeps the lock OP_Transaction took.
SqlBegin(c, m) ==
  /\ open' = [open EXCEPT ![c] = @ \/ BeginResult(c, m) = "OK"]
  /\ lock' = [lock EXCEPT ![c] =
                IF BeginResult(c, m) \in {"OK", "ERROR"} THEN BeginLock(c, m) ELSE @]
  /\ UNCHANGED <<savepoints, transactionSavepoint, pending, durable>>

CommitResult(c) ==
  IF ~open[c] THEN "ERROR"
  ELSE IF pending[c] # {} /\ ~CanExclude(c) THEN "BUSY"
  ELSE "OK"

\* SQLite's transaction is over; ch is what became durable.
EndTransaction(c, ch) ==
  /\ open' = [open EXCEPT ![c] = FALSE]
  /\ savepoints' = [savepoints EXCEPT ![c] = <<>>]
  /\ transactionSavepoint' = [transactionSavepoint EXCEPT ![c] = FALSE]
  /\ lock' = [lock EXCEPT ![c] = "none"]
  /\ pending' = [pending EXCEPT ![c] = {}]
  /\ durable' = durable \cup ch

\* "commit;": a busy commit keeps the transaction and a PENDING lock.
SqlCommit(c) ==
  CASE CommitResult(c) = "OK"    -> EndTransaction(c, pending[c])
    [] CommitResult(c) = "BUSY"  ->
         /\ lock' = [lock EXCEPT ![c] = IF @ = "reserved" THEN "pending" ELSE @]
         /\ UNCHANGED <<open, savepoints, transactionSavepoint, pending, durable>>
    [] CommitResult(c) = "ERROR" ->
         UNCHANGED <<open, savepoints, transactionSavepoint, lock, pending, durable>>

-----------------------------------------------------------------------------
(* The end of a JDBC call.  "told" says that the call threw, or did what   *)
(* its contract calls a commit: then the client cannot count on the two    *)
(* views agreeing until a later call has brought them together again.      *)

Return(c, told) ==
  /\ pc' = [pc EXCEPT ![c] = "idle"]
  /\ stmt' = [stmt EXCEPT ![c] = NoStmt]
  /\ excused' = [excused EXCEPT ![c] =
                   (autoCommit'[c] = open'[c]) /\ (@ \/ told)]

\* The call goes on; nothing is promised to the client yet.
Continue(c, at, s) ==
  /\ pc' = [pc EXCEPT ![c] = at]
  /\ stmt' = [stmt EXCEPT ![c] = s]
  /\ UNCHANGED excused

\* new SQLiteConnection: open, then the configuration is applied.
Open(c) ==
  /\ pc[c] = "closed"
  /\ autoCommit' = [autoCommit EXCEPT ![c] = TRUE]
  /\ mode' = [mode EXCEPT ![c] = TransactionMode[c]]
  /\ readOnly' = [readOnly EXCEPT ![c] = FALSE]
  /\ firstStatementExecuted' = [firstStatementExecuted EXCEPT ![c] = FALSE]
  /\ queryOnly' = [queryOnly EXCEPT ![c] = FALSE]
  /\ acked' = [acked EXCEPT ![c] = {}]
  /\ UNCHANGED <<open, savepoints, transactionSavepoint, lock, pending, durable, fresh>>
  /\ Return(c, FALSE)

\* Connection.close: sqlite3_close rolls an open transaction back.
Close(c) ==
  /\ pc[c] = "idle"
  /\ pc' = [pc EXCEPT ![c] = "closed"]
  /\ EndTransaction(c, {})
  /\ excused' = [excused EXCEPT ![c] = FALSE]
  /\ UNCHANGED <<stmt, autoCommit, mode, readOnly, firstStatementExecuted,
                 queryOnly, fresh, acked>>

-----------------------------------------------------------------------------
(* Transaction boundaries.                                                 *)

\* MUTANT: a failed "commit;" is swallowed.
SetAutoCommitTrueSilent(c) ==
  /\ pc[c] = "idle" /\ ~autoCommit[c]
  /\ autoCommit' = [autoCommit EXCEPT ![c] = TRUE]
  /\ SqlCommit(c)
  /\ mode' = [mode EXCEPT ![c] = IF CommitResult(c) = "OK" THEN "null" ELSE @]
  /\ Return(c, FALSE)
  /\ UNCHANGED <<readOnly, firstStatementExecuted, queryOnly, fresh, acked>>

\* MUTANT: the two commands of setAutoCommit are swapped.
SetAutoCommitTrueSwapped(c) ==
  /\ pc[c] = "idle" /\ ~autoCommit[c]
  /\ autoCommit' = [autoCommit EXCEPT ![c] = TRUE]
  /\ SqlBegin(c, TransactionMode[c])
  /\ Return(c, BeginResult(c, TransactionMode[c]) # "OK")
  /\ UNCHANGED <<mode, readOnly, firstStatementExecuted, queryOnly, fresh, acked>>

\* The flag is changed first; "commit;" may then fail and leave it so.
SetAutoCommitTrue(c) ==
  /\ pc[c] = "idle" /\ ~autoCommit[c]
  /\ autoCommit' = [autoCommit EXCEPT ![c] = TRUE]
  /\ SqlCommit(c)
  /\ mode' = [mode EXCEPT ![c] = IF CommitResult(c) = "OK" THEN "null" ELSE @]
  /\ Return(c, CommitResult(c) # "OK")
  /\ UNCHANGED <<readOnly, firstStatementExecuted, queryOnly, fresh, acked>>

SetAutoCommitFalse(c) ==
  LET began == BeginResult(c, TransactionMode[c]) = "OK" IN
  /\ pc[c] = "idle" /\ autoCommit[c]
  /\ autoCommit' = [autoCommit EXCEPT ![c] = FALSE]
  /\ SqlBegin(c, TransactionMode[c])
  /\ mode' = [mode EXCEPT ![c] = IF began THEN TransactionMode[c] ELSE @]
  /\ acked' = [acked EXCEPT ![c] = IF began THEN {} ELSE @]
  /\ Return(c, ~began)
  /\ UNCHANGED <<readOnly, firstStatementExecuted, queryOnly, fresh>>

\* MUTANT: the first result of commit() is not looked at.
CommitUnchecked(c) ==
  /\ pc[c] = "idle" /\ ~autoCommit[c]
  /\ SqlCommit(c)
  /\ UNCHANGED <<autoCommit, mode, readOnly, firstStatementExecuted, queryOnly, fresh, acked>>
  /\ Continue(c, "commitBegin", NoStmt)

\* Connection.commit, first db.exec.
Commit(c) ==
  /\ pc[c] = "idle" /\ ~autoCommit[c]
  /\ SqlCommit(c)
  /\ UNCHANGED <<autoCommit, mode, readOnly, firstStatementExecuted, queryOnly, fresh, acked>>
  /\ IF CommitResult(c) = "OK" THEN Continue(c, "commitBegin", NoStmt) ELSE Return(c, TRUE)

\* MUTANT: rollback() runs "commit;".
RollbackCommits(c) ==
  /\ pc[c] = "idle" /\ ~autoCommit[c] /\ open[c]
  /\ UNCHANGED <<autoCommit, mode, readOnly, firstStatementExecuted, queryOnly, fresh, acked>>
  /\ EndTransaction(c, pending[c])
  /\ Continue(c, "rollbackBegin", NoStmt)

\* Connection.rollback, first db.exec: only "no transaction is active" fails.
Rollback(c) ==
  /\ pc[c] = "idle" /\ ~autoCommit[c]
  /\ UNCHANGED <<autoCommit, mode, readOnly, firstStatementExecuted, queryOnly, fresh, acked>>
  /\ \/ /\ open[c]
        /\ EndTransaction(c, {})
        /\ Continue(c, "rollbackBegin", NoStmt)
     \/ /\ ~open[c]
        /\ UNCHANGED <<open, savepoints, transactionSavepoint, lock, pending, durable>>
        /\ Return(c, TRUE)

\* Second db.exec of commit and rollback: transactionPrefix().
BeginAgain(c) ==
  LET began == BeginResult(c, TransactionMode[c]) = "OK" IN
  /\ pc[c] \in {"commitBegin", "rollbackBegin"}
  /\ SqlBegin(c, TransactionMode[c])
  /\ mode' = [mode EXCEPT ![c] = IF began THEN TransactionMode[c] ELSE @]
  /\ firstStatementExecuted' = [firstStatementExecuted EXCEPT ![c] = @ /\ ~began]
  /\ acked' = [acked EXCEPT ![c] = {}]
  /\ UNCHANGED <<autoCommit, readOnly, queryOnly, fresh>>
  /\ Return(c, ~began)

SetReadOnly(c, ro) ==
  /\ pc[c] = "idle"
  /\ ExplicitReadOnly[c]
  /\ ro # readOnly[c] /\ ~firstStatementExecuted[c]
  /\ readOnly' = [readOnly EXCEPT ![c] = ro]
  /\ UNCHANGED <<pc, stmt, autoCommit, mode, firstStatementExecuted, sqliteVars,
                 fresh, acked, excused>>

-----------------------------------------------------------------------------
(* Savepoints.  A savepoint is known by its depth: the driver gives every  *)
(* one a name of its own.                                                  *)

SetSavepoint(c) ==
  /\ pc[c] = "idle"
  /\ Len(savepoints[c]) < MaxSavepoints[c]
  /\ autoCommit' = [autoCommit EXCEPT ![c] = FALSE]
  /\ savepoints' = [savepoints EXCEPT ![c] = Append(@, pending[c])]
  /\ transactionSavepoint' = [transactionSavepoint EXCEPT ![c] = @ \/ ~open[c]]
  /\ open' = [open EXCEPT ![c] = TRUE]
  /\ acked' = [acked EXCEPT ![c] = IF autoCommit[c] /\ ~open[c] THEN {} ELSE @]
  /\ UNCHANGED <<mode, readOnly, firstStatementExecuted, queryOnly, lock, pending, durable, fresh>>
  /\ Return(c, FALSE)

\* RELEASE of the savepoint that opened the transaction commits it.
ReleasesTransaction(c, i) == i = 1 /\ transactionSavepoint[c]

ReleaseSavepoint(c, i) ==
  /\ pc[c] = "idle" /\ ~autoCommit[c]
  /\ UNCHANGED <<autoCommit, mode, readOnly, firstStatementExecuted, queryOnly, fresh>>
  /\ \/ /\ ReleasesTransaction(c, i)
        /\ SqlCommit(c)
        /\ acked' = [acked EXCEPT ![c] = IF CommitResult(c) = "OK" THEN {} ELSE @]
        /\ Return(c, TRUE)
     \/ /\ ~ReleasesTransaction(c, i)
        /\ savepoints' = [savepoints EXCEPT ![c] = SubSeq(@, 1, i - 1)]
        /\ UNCHANGED <<open, transactionSavepoint, lock, pending, durable, acked>>
        /\ Return(c, FALSE)

\* MUTANT: the savepoint before the named one is used.
RollbackToOuterSavepoint(c, i) ==
  /\ pc[c] = "idle" /\ ~autoCommit[c]
  /\ i > 1
  /\ pending' = [pending EXCEPT ![c] = savepoints[c][i - 1]]
  /\ savepoints' = [savepoints EXCEPT ![c] = SubSeq(@, 1, i)]
  /\ acked' = [acked EXCEPT ![c] = @ \ (pending[c] \ savepoints[c][i])]
  /\ UNCHANGED <<autoCommit, mode, readOnly, firstStatementExecuted, open,
                 transactionSavepoint, queryOnly, lock, durable, fresh>>
  /\ Return(c, FALSE)

RollbackToSavepoint(c, i) ==
  /\ pc[c] = "idle" /\ ~autoCommit[c]
  /\ pending' = [pending EXCEPT ![c] = savepoints[c][i]]
  /\ savepoints' = [savepoints EXCEPT ![c] = SubSeq(@, 1, i)]
  /\ acked' = [acked EXCEPT ![c] = @ \ (pending[c] \ savepoints[c][i])]
  /\ UNCHANGED <<autoCommit, mode, readOnly, firstStatementExecuted, open,
                 transactionSavepoint, queryOnly, lock, durable, fresh>>
  /\ Return(c, FALSE)

-----------------------------------------------------------------------------
(* Statements.                                                             *)

Enforced(c) == ExplicitReadOnly[c] /\ ~autoCommit[c] /\ mode[c] # "null"
NeedsUpgrade(c) == Enforced(c) /\ ~readOnly[c] /\ mode[c] = "DEFERRED"

\* MUTANT: query_only is not switched on.
EnforceNothing(c, s) ==
  /\ pc[c] = "idle"
  /\ s.api # "update"
  /\ ~NeedsUpgrade(c)
  /\ UNCHANGED <<autoCommit, mode, readOnly, firstStatementExecuted, sqliteVars, fresh, acked>>
  /\ Continue(c, "run", s)

\* tryEnforceTransactionMode when nothing has to be upgraded.
Enforce(c, s) ==
  /\ pc[c] = "idle"
  /\ s.api # "update"
  /\ ~NeedsUpgrade(c)
  /\ queryOnly' = [queryOnly EXCEPT ![c] = @ \/ (Enforced(c) /\ readOnly[c])]
  /\ UNCHANGED <<autoCommit, mode, readOnly, firstStatementExecuted, open, savepoints,
                 transactionSavepoint, lock, pending, durable, fresh, acked>>
  /\ Continue(c, "run", s)

\* The upgrade: "commit;", then query_only = false ...
UpgradeCommit(c, s) ==
  /\ pc[c] = "idle"
  /\ s.api # "update"
  /\ NeedsUpgrade(c) /\ ~firstStatementExecuted[c]
  /\ SqlCommit(c)
  /\ queryOnly' = [queryOnly EXCEPT ![c] = @ /\ CommitResult(c) # "OK"]
  /\ UNCHANGED <<autoCommit, mode, readOnly, firstStatementExecuted, fresh, acked>>
  /\ IF CommitResult(c) = "OK" THEN Continue(c, "upgradeBegin", s) ELSE Return(c, TRUE)

\* MUTANT: the upgrade begins with the configured prefix.
UpgradeBeginDeferred(c) ==
  LET began == BeginResult(c, "DEFERRED") = "OK" IN
  /\ pc[c] = "upgradeBegin"
  /\ SqlBegin(c, "DEFERRED")
  /\ mode' = [mode EXCEPT ![c] = IF began THEN "IMMEDIATE" ELSE @]
  /\ UNCHANGED <<autoCommit, readOnly, firstStatementExecuted, queryOnly, fresh, acked>>
  /\ IF began THEN Continue(c, "run", stmt[c]) ELSE Return(c, TRUE)

\* ... then "BEGIN IMMEDIATE;".
UpgradeBegin(c) ==
  LET began == BeginResult(c, "IMMEDIATE") = "OK" IN
  /\ pc[c] = "upgradeBegin"
  /\ SqlBegin(c, "IMMEDIATE")
  /\ mode' = [mode EXCEPT ![c] = IF began THEN "IMMEDIATE" ELSE @]
  /\ UNCHANGED <<autoCommit, readOnly, firstStatementExecuted, queryOnly, fresh, acked>>
  /\ IF began THEN Continue(c, "run", stmt[c]) ELSE Return(c, TRUE)

\* One statement in SQLite.
SqlRead(c) ==
  /\ lock' = [lock EXCEPT ![c] =
                IF @ = "none" /\ open[c] /\ CanRead(c) THEN "shared" ELSE @]
  /\ UNCHANGED <<open, savepoints, transactionSavepoint, pending, durable, fresh, acked>>

WriteAllowed(c) ==
  /\ ~queryOnly[c]
  /\ IF open[c] THEN CanReserve(c) ELSE CanExclude(c)

SqlWrite(c, w) ==
  /\ WriteAllowed(c)
  /\ IF open[c]
     THEN /\ pending' = [pending EXCEPT ![c] = @ \cup {w}]
          /\ lock' = [lock EXCEPT ![c] = IF @ \in WriteLocks THEN @ ELSE "reserved"]
          /\ UNCHANGED durable
     ELSE /\ durable' = durable \cup {w}
          /\ UNCHANGED <<pending, lock>>
  /\ fresh' = fresh \ {w}
  /\ acked' = [acked EXCEPT ![c] = @ \cup {w}]
  /\ UNCHANGED <<open, savepoints, transactionSavepoint>>

\* BUSY, READONLY, or a constraint found when the write lock is already held.
SqlWriteFails(c) ==
  /\ lock' = [lock EXCEPT ![c] =
                IF open[c] /\ WriteAllowed(c) /\ @ \notin WriteLocks THEN "reserved" ELSE @]
  /\ UNCHANGED <<open, savepoints, transactionSavepoint, pending, durable, fresh, acked>>

\* SQLITE_FULL, IOERR, NOMEM, INTERRUPT: the transaction may be rolled back; the
\* exception is what takes its changes back.
SqlFatal(c) ==
  /\ Faulty
  /\ EndTransaction(c, {})
  /\ acked' = [acked EXCEPT ![c] = @ \ pending[c]]
  /\ UNCHANGED fresh

Run(c, s) ==
  /\ UNCHANGED <<autoCommit, mode, readOnly, queryOnly>>
  /\ \/ ~s.write /\ SqlRead(c) /\ Return(c, FALSE)
     \/ s.write /\ \E w \in fresh : SqlWrite(c, w) /\ Return(c, FALSE)
     \/ s.write /\ SqlWriteFails(c) /\ Return(c, FALSE)
     \/ s.write /\ open[c] /\ SqlFatal(c) /\ Return(c, TRUE)
  /\ firstStatementExecuted' =
       [firstStatementExecuted EXCEPT ![c] = @ \/ s.api = "execute"]

\* Statement.executeUpdate and Statement.executeBatch go to SQLite directly.
ExecuteUpdate(c) ==
  pc[c] = "idle" /\ Run(c, [api |-> "update", write |-> TRUE])

RunStatement(c) == pc[c] = "run" /\ Run(c, stmt[c])

Next ==
  \E c \in Conns :
    \/ Open(c)
    \/ Close(c)
    \/ SetAutoCommitTrue(c)
    \/ SetAutoCommitFalse(c)
    \/ Commit(c)
    \/ Rollback(c)
    \/ BeginAgain(c)
    \/ \E ro \in BOOLEAN : SetReadOnly(c, ro)
    \/ SetSavepoint(c)
    \/ \E i \in 1 .. Len(savepoints[c]) : ReleaseSavepoint(c, i)
    \/ \E i \in 1 .. Len(savepoints[c]) : RollbackToSavepoint(c, i)
    \/ \E s \in Stmts : Enforce(c, s)
    \/ \E s \in Stmts : UpgradeCommit(c, s)
    \/ UpgradeBegin(c)
    \/ ExecuteUpdate(c)
    \/ RunStatement(c)

Spec == Init /\ [][Next]_vars

-----------------------------------------------------------------------------
(* Properties.                                                             *)

\* Between calls, getAutoCommit() tells whether SQLite is in a transaction,
\* unless a call threw (or released the transaction's own savepoint) and the
\* two have not been brought together since.
Agreement ==
  \A c \in Conns :
    pc[c] = "idle" /\ ~excused[c] => (autoCommit[c] <=> ~open[c])

\* Changing the auto-commit flag repairs a disagreement, even when the call
\* throws: setAutoCommit(true) after a lost transaction, setAutoCommit(false)
\* after a busy commit.
FlagChangeRepairs ==
  [][\A c \in Conns :
       autoCommit'[c] # autoCommit[c] /\ autoCommit[c] = open[c]
       => autoCommit'[c] # open'[c]]_vars

\* rollback() never reports success with a change of that transaction in the
\* file, whatever BEGIN, COMMIT or a statement failed with before it, savepoints
\* or not.  (The read-only upgrade commits such changes itself; and a savepoint
\* set when there is no transaction opens one that is not the client's.)
RollbackDiscards ==
  [][\A c \in Conns :
       ~ExplicitReadOnly[c] /\ pc[c] = "idle" /\ ~transactionSavepoint[c]
       /\ pc'[c] = "rollbackBegin" => acked'[c] \cap durable' = {}]_vars

\* Once the first half of commit() has passed, every acknowledged change of
\* the transaction is in the file, whether or not the next BEGIN succeeds.
CommitPersists ==
  \A c \in Conns : pc[c] = "commitBegin" => acked[c] \subseteq durable

\* A change that was acknowledged, not rolled back by the client and not
\* reported lost is in the transaction or in the file, even while the two
\* views disagree.
AckedWritesSurvive ==
  \A c \in Conns : pc[c] = "idle" => acked[c] \subseteq pending[c] \cup durable

\* In an explicitly read-only transaction no statement that goes through
\* tryEnforceTransactionMode changes the database.
EnforcedReadOnly ==
  [][\A c \in Conns :
       pc[c] = "run" /\ Enforced(c) /\ readOnly[c] => acked'[c] \subseteq acked[c]]_vars

\* After the upgrade to BEGIN IMMEDIATE a statement of the transaction finds
\* the write lock held, so it cannot be refused with SQLITE_BUSY.  (A savepoint
\* set after the transaction was lost opens another one, and mode is stale.)
UpgradedHoldsWriteLock ==
  \A c \in Conns :
    pc[c] = "run" /\ Enforced(c) /\ mode[c] = "IMMEDIATE"
    /\ ~excused[c] /\ ~transactionSavepoint[c]
    => lock[c] \in WriteLocks

=============================================================================
