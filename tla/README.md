# Verification of the sqlite-jdbc driver

TLA+ models of the SQLite JDBC driver (`src/src/main/java/org/sqlite` and the
JNI layer `core/NativeDB.c` below it), TLC configurations that check them on
small instances, and theorems about them that TLAPS checks. The driver is a thin
layer of Java over SQLite, and its hard part is that **both sides keep state
about the same thing**: whether a transaction is open, which statements exist,
which row a cursor is on, which timeout is installed. The models put the two side
by side and ask whether they can come apart.

    tlc -config tc_mixed.cfg MCTransactionControl        # a run
    tlapm TransactionControlProofs.tla                   # the proofs

Paths below are relative to `src/src/main/java/org/sqlite`. The directory
`src/example_android` repeats the same Java classes for Android and is not modelled
a second time.

## 1. The system

| Part | State it keeps | Operations | What is hard about it |
|---|---|---|---|
| **Transaction control** `SQLiteConnection`, `jdbc3/JDBC3Connection`, `SQLiteConnectionConfig` | auto-commit flag, current transaction mode, read-only flag, `firstStatementExecuted`, savepoint counter; in SQLite the transaction, `query_only`, file locks | `setAutoCommit`, `commit`, `rollback`, savepoints, `setReadOnly`, the upgrade of a read-only transaction | each method is several SQL commands, any of which may meet `SQLITE_BUSY`; other connections run in between |
| **Native statement handles** `core/SafeStmtPtr`, `core/DB`, `core/CoreStatement` | address, closed flag and exception of a pointer; `DB.stmts`, `DB.begin`; the monitor of the `DB` | prepare, step, reset, close, `Connection.close`, `Statement.cancel` | threads share a connection; addresses are used again; `close` in the middle of everything |
| **Statement and result set** `jdbc3/JDBC3Statement`, `jdbc3/JDBC3PreparedStatement`, `core/CoreResultSet`, `jdbc3/JDBC3ResultSet`, `jdbc4/*` | `resultsWaiting`, `exhaustedResults`, `updateCount`, `closeOnCompletion`, `open`, `row`, `pastLastRow`, `emptyResultSet`, `closeStmt` | the execute family, `getResultSet`, `getMoreResults`, `next`, the closes | one result set object serves all executions; every call may fail half-way |
| **Pooled connections** `javax/SQLitePooledConnection` | `handleConn`, `isClosed` of each proxy, the listeners | `getConnection`, calls through a handle, `close` of a handle and of the pooled connection | the reset before the connection goes back is several calls, and nobody holds a lock |
| **Online backup** `ExtendedCommand`, `core/NativeDB.backup/restore`, `copyLoop` in `NativeDB.c` | the `sqlite3_backup` object, busy answers so far | `backup to`, `restore from` | the source changes while it is copied; locks; which handle the error is asked of |
| **Auto-commit of statements** `DB.ensureAutoCommit` | SQLite's transaction, the changes not yet committed, the statements whose `RETURNING` rows are being read | every execution in auto-commit mode, batches, `setAutoCommit` | SQLite commits when the last writer halts, JDBC when the call returns |
| **Batches** `core/CoreStatement`, `core/CorePreparedStatement` | one array of parameters or SQL texts, `batchPos`, `batchQueryCount` | setters, `addBatch`, `executeBatch`, `clearBatch` | the array is shared with ordinary executions and thrown away by some |
| **Timeouts and handlers** `BusyHandler`, `withConnectionTimeout` | the timeout in `SQLiteConfig`; the one busy handler slot of a connection and the global reference behind it | set, clear, save and restore around an execution | callbacks and other threads do the same meanwhile |
| **Listeners** in `core/DB` | two listener sets, the native hooks | add, remove, the call-backs | called on the thread inside SQLite, with the monitor held |
| **Monitors** of connection and `DB` | who is inside, how deep | entered by executions, re-entered by callbacks | the order they are taken in |
| **Library loading** `core/NativeDB.load`, `SQLiteJDBCLoader` | `isLoaded`, `loadSucceeded`, `extracted`; libraries and lock files in the temporary directory | extract, link, clean up | static fields without a lock; several JVMs share the directory, and exit or die |
| **Functions and collations** | global references held by SQLite | create, destroy | life of the references |
| **Configuration** `SQLiteConfig`, `JDBC`, data sources | | parse, format | none that lasts |
| **Column access, metadata, dates, logging, exceptions** | | conversions | none that lasts |

How they interact. A `SQLiteConnection` owns one `NativeDB`; every statement
holds a `SafeStmtPtr` into it and calls it through `safeRun*`, in the monitor of
the `DB`. `SQLiteConnection` runs its transaction commands through `DB.exec`, and
`DB.ensureAutoCommit` runs the shared `begin;` and `commit;` statements around an
update made in auto-commit mode. A pooled connection owns one physical
`SQLiteConnection` and gives out proxies. Extended commands and listeners work
inside calls of the same `DB`, on the same thread.

What makes each part correct:

- *transactions*: the flag JDBC reports tells the truth, `commit` persists,
  `rollback` discards, a read-only transaction does not write;
- *handles*: no statement is used after it was finalized (even if its address is
  alive again), none is finalized twice, none is forgotten by `DB.close`;
- *cursor*: the row Java counts is the row SQLite is on, and no query stays
  active that nobody can close;
- *pool*: one borrower at a time, and the next one finds a clean connection;
- *backup*: the target is a whole committed content of the source or unchanged,
  and the result code says which;
- *auto-commit*: what a call acknowledged in auto-commit mode gets into the file,
  and nobody else's transaction is committed for it;
- *batch*: `executeBatch` runs what was added, as it was when it was added;
- *timeout*: a statement runs with its own, and the connection gets its own back;
- *loader*: no cleanup takes away a library in use, a process links one copy, and
  every call of `load()` comes back.

## 2. Modules

    ConnectionLease   NativeStatements   AtomicCopy     EntryQueue        abstract: what is promised
          ^                 ^                ^              ^
    PooledHandle      StatementHandles   OnlineBackup   StatementBatch    detailed, shown to implement them
                                                            |  extends and implements
    TransactionControl   AutoCommit   LibraryLoader     StatementCursor   detailed, invariants of their own
    ConnectionTimeout
          |
    MC<module>: symmetry and sets for TLC;  <module>Proofs: theorems
    (those of StatementBatch are in StatementCursorProofs)

`^` is a refinement. `StatementHandles` and `OnlineBackup` have variables of the
abstract module's names; `PooledHandle` and `StatementBatch` compute what is mapped
(`INSTANCE ... WITH`: the lessee from the open handle, the queue from the array).
`OnlineBackup` needs no MC module.

### TransactionControl

Any number of connections on one database file in rollback-journal mode, one
thread each. The driver's half: `autoCommit`, `mode`
(`currentTransactionMode`), `readOnly`, `firstStatementExecuted`. SQLite's half:
`open`, `savepoints`, `transactionSavepoint`, `queryOnly`, `lock`, `pending`,
`durable`. A JDBC method that runs one command is one action; one that runs
several is split there, and `pc` says where it stands: `Commit` and `Rollback`
are followed by `BeginAgain`, `UpgradeCommit` by `UpgradeBegin`, then
`RunStatement`. `SQLITE_BUSY` is never chosen freely: `BeginResult`,
`CommitResult` and `WriteAllowed` compute it from the locks of the other
connections. A statement is known by the way it reaches SQLite (`Apis`), because
only some of them call `tryEnforceTransactionMode`, and only some set
`firstStatementExecuted`. The configuration (`TransactionMode`,
`ExplicitReadOnly`, `MaxSavepoints`) is a function of the connection, so one run
has connections of different kinds against each other.

`Agreement` cannot hold without exception: after an exception the client knows
that something went wrong. The history variable `excused` records just that. It
is cleared as soon as flag and transaction agree again, so a call that returns
normally must have left them in agreement.

### StatementHandles, over NativeStatements

Any number of threads share one connection and its statements. A critical
section of the `DB` monitor with at most one call into SQLite is one action;
`DB.prepare` and `DB.close` hold `lock` over several. What a thread read
before it entered the monitor (`this.pointer`) is in `held`, and may be stale
when used. Each of `Execute`, `CloseStatement`, `PrepareStatement`,
`ExecutePrepared`, `Call` and `CloseConnection` starts a call; `RsClose` to
`DbClosed` are its parts. `owner` maps an address to the pointer object whose
statement lives there: addresses are chosen freely among those not in use, so
they are used again at once. An empty SQL text has address 0 (`NoAddr`).

`NativeStatements` is the contract of the C interface: use between prepare and
finalize only, finalize once, close last. It is a refinement with the same
variables `owner`, `dbOpen` and `called`. The detailed module puts a pointer in `called`
whenever it makes a native call, whether or not the statement is still there;
the contract allows the step only if it is.

### StatementCursor

One statement, plain or prepared, and its one result set object, used by one
thread. `rs` is the Java object; `vm` is the `sqlite3_stmt` (`ready`, `run` on a row,
`halt`; a step from `halt` starts the query again, as sqlite3_step does). Actions are the
public calls, with one more for each way they fail (`ExecuteFails`,
`PreparedFatal`, `PreparedKeysFail`, `NextFails`...). Closing of the
result set by the statement and of the statement by the result set
(`closeStmt`, `closeOnCompletion`) are followed through in the same action. A prepared
statement inherits `closeOnCompletion` and the test for it in `ResultSet.close()`; since its
executions close the result set before they reset the statement, one with an open result
set closes itself there (`PreparedClosesItself`), and the call throws.

### PooledHandle, over ConnectionLease

The physical connection (`autoCommit`, `inTx`, `pending`), the proxies
(`isClosed`, `handleConn`) and a pool. The pool is external to the driver and is
modelled on `DummyPool` of `SQLiteConnectionPoolDataSourceTest`, which lends the
connection under a monitor of its own and takes it back in `connectionClosed`.
`Failures` says what may happen to the physical connection: a busy `begin`, a busy first half
of `commit`, a `statement` that loses the transaction, a client that closes the connection
itself (`ClosePhysical`).
`Step(t)` is the next piece of a running call: `check`, `getAuto`, `rollback`,
`setAuto`, `mark`, `notify` for a close, then whatever its caller does (`Closed`): end, make
a new handle, or close the physical connection (`shut`). `PooledConnection.close` is called
by the borrower (`Dispose`) or by the pool, of a connection it takes off its list (`Discard`).
`CloseTwice` lets another thread close the same handle or the pooled connection.

The driver does not promise the reset to everybody: a pool that lets two threads
close one handle at once, or whose connection met a failing commit, gets it back
unclean. The history variable `orderly` turns false at the step where that happens,
and `ReturnedClean`, `ResetsOnce` and `KeepsLease` are claimed as long as it is true.
`OneOpenHandle` and `GivenBack` are claimed throughout.

`ConnectionLease` has only a lessee and the set of borrowers with uncommitted
changes. `Lend` asks that there are none and that the physical connection is alive, so a proof
that `PooledHandle` implements it is a proof that nobody inherits changes or gets a dead
connection; `Retire` asks that nobody has a handle and nothing is uncommitted, and only a
borrower may `Break` the connection it has.

### OnlineBackup, over AtomicCopy

`copyLoop` and the calls around it (`BackupInit`, `Loop` with its steps,
`finish`), on two files that are sequences of pages. Other connections hold and
release locks (`HoldSource`, `HoldTarget`) and commit changes to the source; the
progress observer uses the connection that is backed up (`OwnBegin`,
`OwnCommit`, `OwnEnd`). `sqlite3_backup_step` is external code, modelled from
`src/sqlcipher/sqlite3.c`: `stale` makes it start again, a commit through the
same connection brings the copied pages up to date. In `AtomicCopy` the target
changes in one step, or not at all.

### StatementBatch, over EntryQueue and StatementCursor

The statement of `StatementCursor` with its batch. `cells`, `length`, `batchPos` and
`batchQueryCount` are the fields of `CoreStatement` and `CorePreparedStatement`: one
array, of SQL texts for a plain statement, of the parameters of all rows one behind
the other for a prepared one. It grows as the code makes it grow (`Grown`; a
plain one to ten entries and then to twice `batchPos`, a prepared one to twice its
length). Each action joins a call of `StatementCursor` with what it does to the
array; `InternalClose` is what `CoreStatement.internalClose` does to it.

`EntryQueue` knows neither array nor position: a queue of entries, the parameters
of the next one, and what the last execution ran. It has actions for what the driver
does and JDBC would not expect: `Forget`, `Restart` (the entry just added is the
only one left) and `Bind` (`execute()` binds the first queued row). The refinement says that
there is nothing else: no entry is run twice, mixed with the next or left over.

### AutoCommit

All statements of one connection over SQLite's auto-commit (`inTx` is
`db->autoCommit = 0`). `active` has the updates with a `RETURNING` clause whose rows
are still being read: while there is one, SQLite does not commit what the others
changed (`pending`; the comment at `DB.java:1206` calls it limbo), and `commit`
fails. `EnsureAutoCommit` is `begin; commit;` with each of its outcomes. A batch is
called with a flag that was read before the monitor was entered, so `BatchCalled`
and `ExecuteBatch` are two actions; so are the two halves of `setAutoCommit`,
`commit` and `rollback` (`control`). Other connections appear as a reader that may
make a commit busy (`OtherReaders`). `acked`, `dropped` and `told` are history: changes of calls that
returned, those lost by a result set's `close()`, and whether a call has
thrown since SQLite was last outside a transaction in auto-commit mode.

### LibraryLoader

`NativeDB.load()` called by any number of threads of any number of machines that share
a temporary directory. The static fields of a machine are `isLoaded`,
`loadSucceeded` and `extracted`; `LoadAgain` lets a thread see the current or the
first value of `loadSucceeded`, and `LoadFirst` lets it miss `isLoaded`, since both are
plain fields read without a lock. `mon` is the monitor of
`SQLiteJDBCLoader.initialize`. Libraries (`lib`) and lock files (`lck`) are named
by the thread that made them, since their names hold a random UUID. `List`, `TestLock`, `Delete` are the steps of
`cleanup()`, one file at a time; `CreateLock`, `Copy`, `Register`, `Compare`, `Link`
those of the extraction, each of which may fail. `Exit` runs the hooks of
`deleteOnExit` one file at a time (`DeleteOnExit`), and threads go on meanwhile; a
machine in `Mortal` may end at any step (`End`), with or without them.

### ConnectionTimeout

The one connection seen from its monitors. A thread has a stack of `frames`: a
call of `execute` or of a query, `setBusyTimeout`, or the installation of a busy handler, with the
place it has come to; while SQLite runs a statement, `Callback` puts another call
on top. `HoldsConn` and `HoldsDb` read off the stacks who is inside which monitor,
and both are reentrant. `config` is the field in `SQLiteConfig`, `slot` what SQLite calls when
it is busy. A Java handler is behind a `BusyHandlerContext` on the heap, which has its global
reference: `live` are the contexts not yet freed, `reference` is the field of `NativeDB`
that remembers the one to free next, and `context` the one a thread has just made.
`change_busy_handler` is two steps, as in C: `BusyHandler` makes a context and gives it to
SQLite, and `SetNewHandler` frees the old one and remembers the new (place `swap` in
between). That nobody else comes between them is not built into the steps: it follows from
the monitor of the `DB`, which a thread at `swap` has (`HoldsDb`).
`withConnectionTimeout` is the places `config` to `native` before and `configBack`,
`nativeBack` after the body; it reads `config` outside any lock. `overlapped`
records that two threads changed the busy handler at the same time.

## 3. Runs

All passing runs finish without error; sizes are distinct states.

| Run | Instance | Shows |
|---|---|---|
| `tc_mixed` | connection 1: `DEFERRED`, explicit read-only, savepoints 2 deep; connection 2: `IMMEDIATE`, one savepoint; 2 changes, statements may lose the transaction; 3,669,604 | `Agreement`, `RollbackDiscards`, `CommitPersists`, `AckedWritesSurvive`, `UpgradedHoldsWriteLock`, `FlagChangeRepairs`, `EnforcedReadOnly` |
| `sh_threads` | 2 threads, 1 `Statement`, 1 `PreparedStatement`, 5 pointers, 2 addresses, empty SQL; 575,549 | `RegistryExact`, `KeepsContract` |
| `ph_pool` | 2 threads, 3 handles, handles and the pooled connection closed by two threads, every failure; 814,077 | `ReturnedClean`, `ResetsOnce`, `OneOpenHandle`, `KeepsLease`, `NoDeadlock`, `GivenBack` |
| `ob_copy` | files of up to 2 pages of 2 contents, a page per step, one `SQLITE_BUSY` allowed; 104,450 | `CopyInSync`, `BackupReported`, `KeepsPromise`, `CopyEnds` |
| `sc_cursor` | queries of 0 to 2 rows, limits -1 to 1, rows of 2 parameters, batches past the first growth of the array; 2,044,348 | `RowIsPosition`, `CursorHasOwner`, `NoMoreIsNoMore`, `ClosesWithResultSet`, `CompletionCloses`, `RoomForRow`, `RunsWhatWasAdded` |
| `ac_limbo` | 2 statements with `RETURNING`, 5 changes, other readers; 16,464 | `TransactionIsReported`, `LimboEnds`, `OnlyCommitCommits` |
| `ll_loader` | a machine with 2 threads, another with 1 that may end at any step; 149,086 | `LibraryKept`, `OneLibrary`, `Settled`, `NoDeadlock`, `EveryLoadReturns` |
| `ct_threads` | 2 threads, 2 and 1 calls, callbacks 1 deep, timeouts 0 to 2, query timeouts 0 and 1, 1 handler, 2 contexts; 1,090,064 | `SlotIsLive`, `OwnTimeoutInForce`, `TimeoutRestored`, `NoDeadlock`, `EveryCallReturns` |
| `sh_finding_close` | 1 thread | violates `CloseCloses` |
| `ph_finding_busy` | `COMMIT` may be busy | violates `AlwaysReturnedClean` |
| `ob_finding_restore` | a restore | violates `RestoreReported` |
| `ac_finding` | 1 statement with `RETURNING` | violates `AckedIsDurable` |

The type invariants were checked in the same instances, are theorems now
(`TypeCorrect`), and are not checked again in every run.

Why the bounds are enough.

- *Connections and threads.* Every conflict over a file lock or a monitor is
  between two parties: one that holds it and one that wants it. A third
  connection could only hold another shared lock. The two connections of `tc_mixed`
  are of different kinds because a conflict needs one of each: the one that is
  upgraded or rolls back to a savepoint, and the one that takes the lock or commits
  meanwhile. The theorems have no such bound.
- *Changes* (`Writes`): two can tell "before" from "after" a savepoint or a
  commit. They are issued once each. In `ac_limbo` five are one for each of the two
  `RETURNING` statements, the update between them, and a batch of two rows.
- *Savepoints* (2 deep): the outermost, which may itself be the transaction, and a
  nested one. The connection without explicit read-only mode has one, which may open a
  transaction of its own or stand in one.
- *Pointers and addresses.* Two addresses for two statements and the `begin;`
  statement force an address to be used again while an old pointer still holds
  it. A pointer nobody refers to stands for one yet to be made; `Compile` needs
  an unused one and a free address, so with fewer the runs would only lose
  interleavings: the number is a bound, and five are enough for two
  statements, `begin;` and one stale pointer held by each thread.
- *Handles*: one per thread and one being made; a closed handle nobody refers to stands for
  one yet to be made, so more give nothing new. `MaxAvailable = 2` bounds
  the pool's list, which grows when a connection is given back twice.
- *Pages*: one copied and one yet to be copied. Three pages were tried as well
  (1,030,398 states) and gave nothing new.
- *Rows*: first and last; three rows were run without the batch. `RowBound` is
  twice `Rows`: `row` goes on counting after an exception although SQLite starts
  again, and the cap lets it pass every row twice. The limits have a negative
  value (rejected), none, and one below the number of rows.
- *Batches* (`MaxEntries`): 10 texts for a plain statement, whose array grows at the
  tenth, and 2 rows for a prepared one, whose array grows with each of them. Two
  parameters make a row that could overlap the next.
- *Machines*: the one that is in the middle of loading, and the one whose cleanup, exit or
  death disturbs it. Two threads of one machine race for its fields. Each thread
  calls `load()` once: a thread that comes after `isLoaded` is set stands for every
  later call. The end of a machine clears what only it could read.
- *Contexts*: two, the one in use and the one made before it is freed. With the monitor there
  are never more, and without it (the mutant of `HoldsDb`) two are enough for a violation.
- *Calls* (`MaxCalls`, `MaxDepth`): an execution, the call of another thread it
  races with, a callback in either, and one call afterwards that meets what
  they left. A statement makes one callback per execution.

`CHECK_DEADLOCK` is on, except in `ll_loader` (machines end), `ct_threads`
(threads make a bounded number of calls) and the two runs of the pool (once the
connection is closed there is nothing to lend): the liveness properties of the passing ones
say that calls that were begun come to their end. Symmetry is declared for sets of model values
and only in runs without liveness properties.

### Fairness

Four runs check liveness, always under weak fairness of the next step of a call that
has begun, which a JVM gives to every runnable thread; clients need not begin any.

- `PooledHandle.FairSpec`, `Step(t)`: no thread is blocked for ever, since the pool's
  monitor is released in the same call. `GivenBack` has an exception: after SQLite has
  lost the transaction, `rollback` throws at every close, and the connection neither
  comes back to the pool nor is closed by `PooledConnection.close`.
- `OnlineBackup.FairSpec`, `Loop`: the native thread goes on and the observer returns.
  Nothing is assumed about other connections: they may hold their locks for ever,
  and `CopyEnds` holds because busy answers are counted. It only speaks of a source
  that is eventually left alone: a writer that commits between any two steps makes the copy
  start again for ever, such steps return `SQLITE_OK`, and the loop counts
  `SQLITE_BUSY` only. With `pagesPerStep = 0` nothing is ever copied (`ZeroPagesCopyNothing`,
  section 5); the run takes 1.
- `LibraryLoader.Spec`, `Step(t)` of a running machine. `EveryLoadReturns` needs it through the
  monitor: the thread inside goes on, whatever fails, and lets the next one in.
- `ConnectionTimeout.Spec`, `Continue(t)`: SQLite ends its statements and callbacks
  return. `EveryCallReturns` rests on the absence of deadlock on the two monitors.

Fairness asks for a step only of a thread that has one. `NoDeadlock` of the pool, the loader and
the connection says where there is one, in
two halves: `SomeoneMayStep` (`SomeoneMayContinue`), while calls run some thread is held up by no
monitor; and whoever is held up by none has a step to take (`Proceeds`), whatever the others did. The backup loop is one thread that waits for
nobody, and has a step at each of its places by the shape of the loop, so nothing is checked there.

## 4. What the code does not do

Four runs show a disagreement between the code and what the repository says.

1. `sh_finding_close`. Preparing an empty text registers a null pointer in
   `DB.stmts` before `column_count` refuses it. `Connection.close` then tries to
   finalize it, throws, and leaves the connection open. Nothing else does
   (`CloseFailsOnlyOnEmpty`, section 5).
2. `ph_finding_busy`. `setAutoCommit(true)` sets the flag before the `commit;`
   that may be busy. Closing a pool handle looks at the flag alone, and gives
   back a connection with an open transaction and somebody else's changes. It takes a busy
   commit, or two threads that close one handle (`AlwaysReturnedCleanWithoutBusyCommit`).
3. `ob_finding_restore`. `restore` asks the source for the error code, and
   SQLite stores it in the target: a restore that copied nothing reports
   success. An error code can be believed (`NoFalseAlarmHolds`).
4. `ac_finding`. While the rows of an `UPDATE ... RETURNING` are being read, the
   `commit;` after another update fails and leaves SQLite in the transaction its
   `begin;` opened. That update throws. Every later one finds `begin;` failing, takes
   it for a transaction of the application and returns normally, uncommitted, also after
   the rows have been read; `DB.java:1198` promises that it is on disk by then. Without
   `RETURNING` and other readers it is (`AckedIsDurableWithoutReturning`).

Other things seen while modelling. They are in the models (unless marked *), but
no property says otherwise, since either no document of the repository promises
anything or the behaviour is a consequence of the above:

- `tryEnforceTransactionMode` replaces a read-only transaction by
  `commit; BEGIN IMMEDIATE` if "no statement has been executed"
  (`JDBC3Connection.java:39`). `Statement.executeUpdate` does not set
  `firstStatementExecuted`, so changes made through it are committed, and a later
  `rollback()` cannot take them back. `RollbackDiscards` speaks of the transaction
  that is open when `rollback()` is called.
- `query_only` outlives the transaction it was set in, while the comment at
  `JDBC3Connection.java:57` has it "evaluated on a per-transaction basis".
- `Statement.executeUpdate` and `executeBatch` may write as the first statements
  of an explicitly read-only transaction, while `JDBC3Connection.java:55` says
  that all writes are rejected by then.
- `setReadOnly` is accepted after prepared statements have run in the
  transaction (compare `USAGE.md:174`).
- Releasing the outermost savepoint leaves manual-commit mode without a
  transaction.
- After SQLite has rolled the transaction back by itself the flag still says manual commit,
  and statements commit one by one. A savepoint then opens a transaction, and a `rollback()`
  succeeds although those changes are in the file. Without the condition
  `~transactionSavepoint` TLC finds this as a violation of `RollbackDiscards`.
- `getMoreResults` does not close a result that `execute` left waiting: the
  query stays active, with its locks (`JDBC3Statement.java:390`).
- `executeQuery(sql, true)` on a statement that ran before loses `closeStmt`,
  and the native statement is not finalized with its result set
  (`JDBC3DatabaseMetaData.java:1386, 1433, 1518, 1555`).
- With `closeOnCompletion`, executing a statement whose result set is open closes the statement:
  a plain one is marked closed, and runs; a prepared one is finalized by its own `rs.close()`
  (`JDBC3PreparedStatement.java:46, 80, 117`), and the call throws.
- After `next()` has thrown, the next call starts the query again while `row`
  goes on ("number of current row", `CoreResultSet.java:43`).
- A failed execution leaves `resultsWaiting` of the last one, and
  `getResultSet()` opens a set whose first row was never loaded.
- `PreparedStatement.executeBatch` resets a statement under an open result set.
- `maxRows` is compared with `==`, so a limit below the current row is not met.
- `PreparedStatement.executeUpdate` leaves `updateCount` of an earlier call; the
  model only knows whether there is a count.
- Any error but a busy, locked, misuse or constraint code at the first step closes
  a prepared statement for good.
- After the connection was closed, the first `next()` of an unread result set
  returns true.
- `sqlite3_interrupt` is called outside the monitor and may meet a closed
  connection; SQLite forbids that (`sqlite3.c:3276`).
- `NativeDB.c:1539` says another thread may use the connection during a
  backup; `NativeDB.backup` is synchronized.*
- A pointer whose finalize threw throws the same exception at every later close,
  so a `Statement` that once ran an empty text cannot be used again.
- A call of another thread may pass the `isClosed` test of a pool handle and reach
  the physical connection after it was lent again.*
- An observer that throws leaves the exception pending while `copyLoop` goes on
  and calls it again; JNI leaves that undefined.*
- A plain statement throws its batch away when a statement is open
  (`CoreStatement.internalClose`): `addBatch`, `execute`, `addBatch` loses the first
  entry. `PreparedStatement.execute()` after `addBatch()` binds the first row of the batch, not
  the parameters set since.
- Closing the result of an update with `RETURNING` before its end may meet a busy
  commit; `CoreResultSet.java:144` does not look at the result of the reset, and all
  changes in limbo are rolled back without a word (`CloseDrops`).
- Two overlapping statements with query timeouts put back each other's value, and the timeout
  of one can stay for good, while the comment at `JDBC3Statement.java:468` says
  "reset connection timeout to the original value". `setBusyTimeout` during an
  execution is undone at its end in the same way. Without the condition `~overlapped`
  TLC finds both as violations of `TimeoutRestored`.
- A query timeout replaces the application's `BusyHandler` and puts back a timeout,
  so the handler is gone after the first such statement; its global reference stays
  until another is set.
- `Statement.executeLargeBatch` and `ResultSet.next` run without the query timeout.*
- A callback that calls `execute()` takes the monitor of the connection inside that of
  the `DB`; an `execute()` of another thread (`JDBC3Statement.java:54`) takes them the other
  way round, and both wait for ever. `Callback` is restricted to the calls that do not; the mutant
  that lifts the restriction deadlocks.
- When loading the library throws, `isLoaded` is set all the same: later calls of
  `load()` return false, `SQLiteConnection.open` (`SQLiteConnection.java:261`)
  ignores that, and the connection fails at its first native call.
- A machine that is killed leaves its library and lock file in the directory, and no cleanup
  removes them, since it takes the lock file for a running machine. The same happens when a
  machine exits during an extraction: `deleteOnExit` throws once the hooks run.
- `PooledConnection.close` leaves the physical connection open when the reset of
  its handle throws (`SQLitePooledConnection.java:72`), and has cleared the listeners by then:
  this is the state `Stuck` that `GivenBack` excepts.
- After a client has closed the physical connection behind its handle, a handle that was asked
  `isClosed()` counts as closed, and closing it tells the pool nothing (the other exception of
  `GivenBack`).
- A listener that is removed while an event is delivered may still be called: the sets
  are copied first (`DB.java:1096`).*

## 5. Proofs

Each theorem is stated for every value of the constants that satisfies the named
assumption of its module: `ConfigAssumption`, `HandleAssumption`,
`CursorAssumption`, `BatchAssumption`, `PoolAssumption`, `BackupAssumption`,
`AutoCommitAssumption`, `LoaderAssumption`, `TimeoutAssumption`. They only say what kinds of values the
constants have and that the null values are no objects; TLC evaluates them in the
runs. Three say a little more: there are finitely many threads (`LoaderAssumption`,
`TimeoutAssumption`), and more proxies than threads can hold at once (`PoolAssumption`), since the
driver makes a new one whenever it needs it. Where a property holds only under
a condition, the condition is a state of the system and part of the property:
`orderly` in the pool; in `RollbackDiscards` a connection without explicit read-only mode,
since the upgrade commits changes itself, and a transaction that no savepoint opened (section 4).

Every safety theorem goes the same way: Init implies `IInv`, every action
preserves it, it implies the property; the temporal step is the last. TLC
checked each `IInv` on the small instances before it was proved. What has to be
added to make the properties inductive is the interesting part:

- **TransactionControlProofs** (`TypeCorrect`, `AgreementHolds`,
  `FlagChangeRepairsHolds`, `RollbackDiscardsHolds`, `CommitPersistsHolds`,
  `AckedWritesSurviveHolds`, `UpgradedHoldsWriteLockHolds`, `EnforcedReadOnlyHolds`).
  `Agreement` speaks of connections between calls; the invariant must say what
  is true between the two commands of one call (after the first half of `commit`
  no transaction is open, and the flag still says manual). For the durability
  properties it must relate `acked`, `pending` and `durable` of *different* connections
  (`Disjoint`): what one has acknowledged and not committed is in nobody else's
  transaction, so no commit of theirs makes it durable. With savepoints of any depth
  it must say that what they remember grows towards what is pending (`Nested`), so
  that rolling back to one loses no change but those made since, and that acknowledged
  changes are pending or in the file (`KeptOf`). `RollbackDiscards` needs more than that: in a transaction
  that no savepoint opened they are pending, all of them (`PromiseOf`). For the read-only mode, the mode says
  `IMMEDIATE` only over a transaction with the write lock, and a statement about to run
  in a read-only transaction finds `query_only` on (`ReadOnlyOf`).
- **StatementHandlesProofs** (`TypeCorrect`, `RegistryExactHolds`,
  `KeepsContractHolds`). `Handles` says that a pointer is open exactly if it owns
  the statement at its address, and that two open pointers never have the same
  address, which is why removal from `stmts` by raw address removes the right one;
  `Control(t)` says what a thread may rely on at each place, in particular how
  little (`held` may have been closed by another thread); `Exclusive`, that a
  `PreparedStatement` under construction is seen by no other thread. `KeepsContract` is a step
  refinement: each action is a step of `NativeStatements` or leaves its variables
  alone.
- **StatementCursorProofs** (`RowIsPositionHolds`, `CursorHasOwnerHolds`,
  `NoMoreIsNoMoreHolds`, `ClosesWithResultSetHolds`,
  `CompletionClosesHolds`). Added: the counters of a result set that is not open
  are cleared (`IdleIsCleared`), a result that waits stands on its first row and nobody has
  opened it (`WaitingIsFirst`), `closeStmt` is only ever set on a plain statement, and a prepared statement that
  is closed has no pointer (`OnlyPlainCloses`), the request to close stays until it is served
  (`RequestKept`), and a pointer is open only while the connection is
  (`PointerNeedsConnection`). The same module has the theorems of `StatementBatch`:
  `ImplementsCursor` is `BatchSpec => Spec` (every action with the array is an action of
  `StatementCursor` or leaves its variables alone), so all of the above hold of a
  statement with a batch; the arithmetic of the growing array is the content of
  `RoomForRowHolds` (`BInv`) and of `RunsWhatWasAddedHolds`, the refinement of `EntryQueue`
  for any number of parameters and entries. It needs `QInv`: in an open prepared
  statement the position is the number of entries times the number of parameters, so the row
  being filled lies behind those added, and adding it makes the queue longer by just that
  row.
- **PooledHandleProofs** (`TypeCorrect`, `OneOpenHandleHolds`, `KeepsLeaseHolds`,
  `ReturnedCleanHolds`, `ResetsOnceHolds`, and below). `OneOpenHandle` needs only that a
  handle is created inside `getConnection`, which has the pool's monitor and has
  closed the old one (`Control`). The lease needs `OInv`, claimed while the pool is
  used in an orderly way: either the pool has the
  connection, clean and with every handle closed (`Free`), or one thread alone
  has it (`Sole`), through the open handle (`Leased`), on its way from or to the
  pool (`Between`) or about to close it (`Ending`), or nobody will have it again (`Gone`).
- **OnlineBackupProofs** (`TypeCorrect`, `CopyInSyncHolds`, `KeepsPromiseHolds`,
  `BackupReportedHolds`). `Control` ties the place in the loop to the
  state of the backup object, `Progress` says that the pages before `iNext` are
  in the working copy, and `CopyInSync` is what makes the commit of the target a `Copy`
  step of `AtomicCopy`.

- **AutoCommitProofs** (`TypeCorrect`, `TransactionIsReportedHolds`,
  `LimboEndsHolds`, `OnlyCommitCommitsHolds`). Limbo needs an open transaction or an
  active writer (`LimboNeedsWriter`), an acknowledged change is in the file, in limbo or
  dropped, and never in two of them (`AckedIsSomewhere`), `setAutoCommit` still has the flag
  it was called with (`ControlHasFlag`), and an unexpected transaction was reported or
  is just being committed (`ToldOrCommitting`).
- **LibraryLoaderProofs** (`TypeCorrect`, `LibraryKeptHolds`, `OneLibraryHolds`,
  `SettledHolds`). `Locked` is why cleanup is safe: as long as its machine runs, a library that is
  there, or that some cleanup has already listed, has its lock file, because the lock is
  made first and removed last. `Once` is why a second thread in the monitor extracts
  nothing, and `OnTheWay` that whoever found the library linked goes on to store `TRUE`.

- **ConnectionTimeoutProofs** (`TypeCorrect`, `SlotIsLiveHolds`,
  `OwnTimeoutInForceHolds`, `TimeoutRestoredHolds`). The stacks of calls may be of any depth.
  `NInv` and `OneRuns` say that the monitor of the `DB` excludes, whatever the nesting: `SwapHoldsDb`
  is that a thread between the halves of `change_busy_handler` has it. `MInv` is the heap in between:
  SQLite has the context of that thread, and those alive are it and the one the field remembers, which
  differ; `SlotIsLive` follows, since whoever enters the monitor finds nobody at `swap` (`NobodySwaps`).
  Unless calls have overlapped, one thread owns the timeout and all others run only calls
  that leave it alone (`Calm`). On the owner's stack the executions with timeouts of their own
  form a chain: each found, and will put back, the timeout the one below it installed, and
  the first the one the application set (`Chain`, `Base`, `Good`); what is installed
  is what the place of the innermost one says.

The liveness properties are theorems too: `GivenBackHolds`, `CopyEndsHolds`,
`EveryLoadReturnsHolds` and `EveryCallReturnsHolds`, for any number of threads, pages and
calls and callbacks of any depth. Each has the form `Spec /\ []NoDeadlock => ...`, that of the
backup `FairSpec /\ []LoopGoesOn => ...`: its loop always has a step, a fact about ENABLED that
TLAPS cannot prove. The first
half of `NoDeadlock` is proved as well (`SomeoneMayStepHolds` of the pool and the loader,
`SomeoneMayContinueHolds`); the second, which is about ENABLED, is beyond TLAPS 1.4.5 and
stays with TLC, which checks `NoDeadlock` as an invariant of the same runs. `LoopGoesOn` has no
run of its own: TLC checks `CopyEnds` itself, under the same fairness.

- `GivenBackHolds`: in an orderly pool a closing thread has the connection to itself, the pool's
  monitor is free, and its steps follow a fixed order (`After`); what another thread can do
  meanwhile is no orderly use.
- `CopyEndsHolds`: `Left` counts the pages to copy, the busy answers still put up with and the
  way through the loop. Every turn of the loop makes it smaller once the source is left alone, and no
  step of others makes it larger. `PagesPerStep # 0` is a hypothesis; `ZeroPagesCopyNothing` shows
  what becomes of the other case: no call ends with a copy and no step writes to the target.
- `EveryLoadReturnsHolds`: the chores of a machine are the stages of its threads and the paths
  their cleanups have still to look at. There are finitely many in all, every step does one and
  adds none, and whoever waits for the monitor has its holder in the same machine.
- `EveryCallReturnsHolds`: a call may start others (`Callback`), so what has to shrink is the
  weight of the whole stack. A frame that may still call back weighs ten for each level below
  it, more than whatever a callback can put on top. While a call runs, some thread may
  go on: a thread that waits for the `DB` waits for one that does not wait for the connection
  (`SomeoneMay`).

The last three are inductions over a number of remaining chores, on temporal formulas. The
propositional prover does each step, and the lemma `Induction` puts the steps together; it speaks of
the values of a function, which is 1 for the numbers the formula is true of.

### Without the exceptions

Several properties of the runs except a state of the system, and four documented promises
fail in the finding runs. A last group of theorems says what such an exception or failure
takes: under a named assumption on the constants the property holds without it. The
assumptions are configurations the driver really has (the default transaction mode, one
thread, an application that never uses `RETURNING`), and each instance was run by TLC before
the proof.

| Theorem | Assumes | Then |
|---|---|---|
| `DeferredAlwaysInTransaction` | `DEFERRED`, not `ExplicitReadOnly`, no savepoints, not `Faulty` | with auto-commit off the client is in a transaction at every call, whatever others lock; `rollback()` has one to end |
| `UpgradeAlwaysHoldsWriteLock` | `DEFERRED`, no savepoints, not `Faulty` | `UpgradedHoldsWriteLock` also after calls that threw |
| `AloneAlwaysAgrees` | one connection, no savepoints, not `Faulty`, `ExplicitReadOnly` only with `DEFERRED` | `Agreement` with nothing excused |
| `CloseClosesWithoutEmpty` | no empty SQL text | `CloseCloses` (`sh_finding_close`), for any threads |
| `AlwaysReturnedCleanWithoutBusyCommit` | no busy commit, one thread closes a handle | `AlwaysReturnedClean` (`ph_finding_busy`), with all other failures |
| `StuckNeedsFailure`, `GivenBackWithoutFailures` | no failure but a physical connection closed by the client, one thread closes a handle | no handle whose close throws for ever; `GivenBack` without exceptions (given `[]NoDeadlock`) |
| `SilenceIsDurableAlone` | no other reader | an idle connection in auto-commit mode has everything in the file unless a call threw, with any number of `RETURNING` results before |
| `AckedIsDurableWithoutReturning` | no other reader, no `RETURNING` | `AckedIsDurable` (`ac_finding`) |
| `OneThreadKeepsTimeouts` | one thread, and no query timeouts or no callbacks that execute | `TimeoutRestored` and `OwnTimeoutInForce` without `overlapped` |

The three about transactions share one step lemma, `MovesOf`: whatever all connections do, one
without savepoints sees only the moves `MoveOf` lists. Then a deferred `begin;` fails only inside a
transaction, and alone on the file no lock is ever refused. `StuckNeedsFailure` needs
`TransactionKept`: without failures the flag of the physical connection is off without a
transaction only between the two commands of one call. `OneThreadKeepsTimeouts` needs that one stack of calls
without nested timeouts never sets `overlapped` (`ApartHolds`).

Five theorems assume nothing and go with them. `MonitorHeldHolds`: a thread is in the middle of
`DB.prepare`, `DB.execute` or `DB.close` exactly while it has the monitor. From it follow
`CloseUndisturbedHolds`, an action property (while `DB.close` runs nothing is registered, so its
loop over the first element of `stmts` ends), and `CloseFailsOnlyOnEmpty`. `NobodyInheritsHolds`:
uncommitted changes belong to the open, newest handle, so a borrower never finds those of
another. `NoFalseAlarmHolds`: neither `backup` nor `restore` reports an error for a copy it
completed.

Only model-checked: the half of `NoDeadlock` that is about ENABLED, and the progress of the backup
loop (`LoopGoesOn`) as part of `CopyEnds`.

## 6. What is left out

- *In the modelled parts.* Several threads on one connection in
  TransactionControl (they are the subject of StatementHandles, AutoCommit and
  ConnectionTimeout); SQL text that itself says `BEGIN` or `COMMIT`; two savepoints
  of the same name; WAL mode. `DB.commit` is treated as `DB.begin` is. In the pool
  listeners added or removed later and `connectionErrorOccurred`, which nothing in the
  repository acts on. In the
  backup databases with different page sizes, changes of the target by others before it
  is locked, and an observer that uses the target of a restore (SQLite leaves that
  undefined). Generated keys, except that their query may fail; a batch of
  a statement without parameters, which is only a number; update counts; setters with an index out
  of range (`CorePreparedStatement.java:100` does not check it, so index 0 writes into the row
  before or throws). A failing `sqlite3_close`. In the loader the detection of operating system and processor, several
  class loaders in one machine, a temporary directory that others clean. In
  ConnectionTimeout query timeouts so long that `1000 * queryTimeout` overflows
  (`JDBC3Statement.java:461`), the waiting itself (everywhere else `SQLITE_BUSY` may be the
  answer whenever the file locks allow it), closing the connection meanwhile, and
  callbacks that deadlock by themselves (section 4).
- *Crashes.* The driver persists nothing of the database itself; recovery is SQLite's
  journal. The loader's files are the exception, and there machines are killed at any step.
- *Not modelled at all*, each with its reason in `PROJECT.json`. Update and commit
  listeners and the progress handler: added, removed and called on a thread that holds the
  monitor of the `DB`, so nothing comes between; what they may do to the connection is `Callback` of
  ConnectionTimeout. Functions and collations: one native callback within one step of a
  statement. URL, pragmas, data sources, column access, types, metadata, exceptions, dates,
  logging: parsing, formatting and conversion without state that lasts. These are most of
  the Java code, and a model of them would repeat it line by line.
- *Third-party code.* By far the most lines of the repository are the SQLCipher
  amalgamation `src/sqlcipher/sqlite3.c` and its header, OpenSSL headers, the extension
  functions, and the second copy of the driver under `src/example_android`. The modules map only
  the pieces of `sqlite3.c` whose rules the driver depends on (file locks, the end of a
  statement, savepoints, the backup interface). Measured against the driver's own state-changing
  code the models are close to complete; measured against all lines of the repository they are a
  small part, and will be.

What could still be added: a model of the listener sets together with `close`.
