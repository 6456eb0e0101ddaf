--------------------------- MODULE StatementCursor ---------------------------
(***************************************************************************)
(* One JDBC statement, plain or prepared, and the one result set object it *)
(* uses again for every execution, over the sqlite3_stmt both step.  The   *)
(* driver counts rows and remembers "open", "waiting" and "exhausted" on   *)
(* its own; SQLite keeps the position.  The actions are the public calls,  *)
(* with every way each of them can fail.                                   *)
(*                                                                         *)
(* One thread uses the statement: what several threads do to the pointer   *)
(* is the subject of StatementHandles.                                     *)
(***************************************************************************)
EXTENDS Integers

CONSTANTS
  Rows,   \* bound on the rows of a query
  Limits  \* what setMaxRows is called with; 0 is no limit

ASSUME CursorAssumption ==
  /\ Rows \in Nat \ {0}
  /\ Limits \subseteq Int

VARIABLES
  kind,         \* "plain" or "prepared"
  connOpen,     \* the connection has not been closed
  \* the statement
  pointerOpen,  \* CoreStatement.pointer is set and not closed
  query,        \* column_count # 0
  resultsWaiting, exhaustedResults,
  counted,      \* updateCount # -1
  closeOnCompletion,
  closed,       \* JDBC4Statement.closed
  maxRows,      \* CoreResultSet.maxRows, which close() leaves alone
  \* its result set
  rs,
  \* the sqlite3_stmt
  vm,
  \* history
  clean,        \* since the last execution that succeeded no call threw and no batch ran
  asked         \* the last execution was of an idle statement and asked that it
                \* be closed with its result set

stmtVars == <<resultsWaiting, exhaustedResults, counted>>
vars == <<kind, connOpen, pointerOpen, query, stmtVars, closeOnCompletion,
          closed, maxRows, rs, vm, clean, asked>>

ResultSets == [open : BOOLEAN, row : Nat, pastLastRow : BOOLEAN,
               emptyResultSet : BOOLEAN, closeStmt : BOOLEAN]

\* "ready": the next step starts the query; "run": on row pos; "halt": it
\* delivered pos rows, or failed after them, and the next step starts it again.
Machines == [state : {"ready", "run", "halt"}, pos : 0 .. Rows]

Ready    == [state |-> "ready", pos |-> 0]
FirstRow == [state |-> "run", pos |-> 1]

NoResultSet == [open |-> FALSE, row |-> 0, pastLastRow |-> FALSE,
                emptyResultSet |-> FALSE, closeStmt |-> FALSE]

TypeOK ==
  /\ kind \in {"plain", "prepared"}
  /\ connOpen \in BOOLEAN /\ pointerOpen \in BOOLEAN /\ query \in BOOLEAN
  /\ resultsWaiting \in BOOLEAN /\ exhaustedResults \in BOOLEAN
  /\ counted \in BOOLEAN /\ closeOnCompletion \in BOOLEAN /\ closed \in BOOLEAN
  /\ maxRows \in Nat
  /\ rs \in ResultSets /\ vm \in Machines
  /\ clean \in BOOLEAN /\ asked \in BOOLEAN

\* A prepared statement is compiled when it is made, a plain one when it runs.
Init ==
  /\ kind \in {"plain", "prepared"} /\ connOpen = TRUE
  /\ pointerOpen = (kind = "prepared") /\ query \in BOOLEAN
  /\ resultsWaiting = FALSE /\ exhaustedResults = FALSE /\ counted = TRUE
  /\ closeOnCompletion = FALSE /\ closed = FALSE /\ maxRows = 0
  /\ rs = NoResultSet /\ vm = Ready /\ clean = TRUE /\ asked = FALSE

-----------------------------------------------------------------------------
(* Closing.                                                                *)

\* MUTANT: JDBC4ResultSet.close asks isOpen() when the set has been closed.
ClosesStatementLate(r) == pointerOpen /\ r.closeStmt

\* ResultSet.close() goes on to close its statement, plain or prepared, if
\* r.closeStmt or closeOnCompletion asks for that.
ClosesStatement(r) ==
  \/ pointerOpen /\ r.closeStmt
  \/ r.open /\ closeOnCompletion /\ ~closed

\* MUTANT: close() forgets to clear the counters of the object that is used again.
ClosedResultSetKeepsRow(r) == [r EXCEPT !.open = ~pointerOpen /\ @, !.closeStmt = FALSE]

\* The fields are cleared before the early return for a closed pointer, which
\* leaves "open" as it was.
ClosedResultSet(r) ==
  IF pointerOpen
  THEN NoResultSet
  ELSE [r EXCEPT !.row = 0, !.pastLastRow = FALSE, !.emptyResultSet = FALSE]

\* MUTANT: close() does not reset the query.
ClosedMachineRuns(r) == vm

\* The query is reset unless there was nothing to close.
ClosedMachine(r) == IF pointerOpen /\ (r.open \/ r.closeStmt) THEN Ready ELSE vm

\* MUTANT: internalClose clears closeStmt although there is nothing to close.
IdleResultSetForgets(r) == NoResultSet

\* CoreStatement.internalClose does nothing to a statement without a pointer.
IdleResultSet(r) == IF pointerOpen THEN NoResultSet ELSE r
IdleClosed(r)    == closed \/ (pointerOpen /\ ClosesStatement(r))

ResultSetClosed ==
  /\ rs' = ClosedResultSet(rs)
  /\ closed' = (closed \/ ClosesStatement(rs))
  /\ pointerOpen' = (pointerOpen /\ ~ClosesStatement(rs))
  /\ vm' = ClosedMachine(rs)

CloseResultSet ==
  /\ ResultSetClosed
  /\ UNCHANGED <<kind, connOpen, query, stmtVars, closeOnCompletion, maxRows, clean, asked>>

Close ==
  /\ rs' = IdleResultSet(rs)
  /\ closed' = TRUE
  /\ pointerOpen' = FALSE
  /\ vm' = Ready
  /\ UNCHANGED <<kind, connOpen, query, stmtVars, closeOnCompletion, maxRows, clean, asked>>

\* DB.close finalizes every statement and tells no JDBC object.
CloseConnection ==
  /\ connOpen /\ connOpen' = FALSE
  /\ pointerOpen' = FALSE
  /\ vm' = Ready
  /\ UNCHANGED <<kind, query, stmtVars, closeOnCompletion, closed, maxRows, rs,
                 clean, asked>>

\* "We support a single result set, close it": one that execute left waiting and
\* nobody fetched is not open, so the query behind it stays where it is.
GetMoreResults ==
  /\ pointerOpen
  /\ ResultSetClosed
  /\ counted' = FALSE /\ exhaustedResults' = TRUE
  /\ UNCHANGED <<kind, connOpen, query, resultsWaiting, closeOnCompletion,
                 maxRows, clean, asked>>

SetCloseOnCompletion ==
  /\ ~closed
  /\ closeOnCompletion' = TRUE
  /\ UNCHANGED <<kind, connOpen, pointerOpen, query, stmtVars, closed, maxRows,
                 rs, vm, clean, asked>>

SetMaxRows ==
  /\ \E max \in Limits : max >= 0 /\ maxRows' = max
  /\ UNCHANGED <<kind, connOpen, pointerOpen, query, stmtVars, closeOnCompletion,
                 closed, rs, vm, clean, asked>>

-----------------------------------------------------------------------------
(* Executing.                                                              *)

\* The first step of a query found a row, or none; without columns, never one.
FirstSteps(q) == {FALSE, q}
Stepped(row)  == IF row THEN FirstRow ELSE Ready

Opened(r, waiting) == [r EXCEPT !.open = TRUE, !.emptyResultSet = ~waiting]

GetResultSet ==
  /\ pointerOpen /\ query /\ ~exhaustedResults /\ ~rs.open
  /\ rs' = Opened(rs, resultsWaiting)
  /\ resultsWaiting' = FALSE
  /\ UNCHANGED <<kind, connOpen, pointerOpen, query, exhaustedResults, counted,
                 closeOnCompletion, closed, maxRows, vm, clean, asked>>

-----------------------------------------------------------------------------
(* A plain statement: every call closes the last statement and compiles a  *)
(* new one.                                                                *)

\* executeQuery(sql, true) asks for the closing before it closes the last one.
Requested(close) == IF close THEN [rs EXCEPT !.closeStmt = TRUE] ELSE rs

Recompiled(close) ==
  /\ kind = "plain" /\ connOpen
  /\ rs' = IdleResultSet(Requested(close))
  /\ closed' = IdleClosed(Requested(close))
  /\ UNCHANGED <<kind, connOpen, closeOnCompletion, maxRows>>

\* executeUpdate, addBatch, executeBatch and "backup to" leave no statement
\* behind, and neither does SQL that does not compile.
WithoutCursor(close) ==
  /\ Recompiled(close)
  /\ pointerOpen' = FALSE /\ vm' = Ready /\ asked' = FALSE
  /\ UNCHANGED <<query, stmtVars, clean>>

ExecuteWithoutCursor == \E close \in BOOLEAN : WithoutCursor(close)

\* exec() throws before the first step: an open result set, or a refused upgrade
\* of a read-only transaction.  The new pointer stays.
ExecuteRejected ==
  /\ \E close \in BOOLEAN : Recompiled(close)
  /\ pointerOpen' = TRUE /\ query' \in BOOLEAN /\ vm' = Ready
  /\ clean' = FALSE /\ asked' = FALSE
  /\ UNCHANGED stmtVars

ExecuteFails ==
  /\ \E close \in BOOLEAN : Recompiled(close)
  /\ pointerOpen' = FALSE /\ query' \in BOOLEAN /\ vm' = Ready
  /\ resultsWaiting' = FALSE /\ clean' = FALSE /\ asked' = FALSE
  /\ UNCHANGED <<exhaustedResults, counted>>

\* updateGeneratedKeys may throw when the statement itself has been executed.
Execute ==
  /\ Recompiled(FALSE) /\ ~rs'.open
  /\ pointerOpen' = TRUE /\ query' \in BOOLEAN
  /\ resultsWaiting' \in FirstSteps(query') /\ vm' = Stepped(resultsWaiting')
  /\ asked' = FALSE
  /\ \/ counted' = TRUE /\ exhaustedResults' = FALSE /\ clean' = TRUE
     \/ clean' = FALSE /\ UNCHANGED <<exhaustedResults, counted>>

ExecuteQuery(close) ==
  LET idle == IdleResultSet(Requested(close)) IN
  /\ kind = "plain" /\ connOpen /\ ~idle.open
  /\ closed' = IdleClosed(Requested(close))
  /\ pointerOpen' = TRUE /\ query' = TRUE
  /\ \E row \in BOOLEAN : rs' = Opened(idle, row) /\ vm' = Stepped(row)
  /\ resultsWaiting' = FALSE /\ exhaustedResults' = FALSE
  /\ clean' = TRUE /\ asked' = (close /\ ~pointerOpen)
  /\ UNCHANGED <<kind, connOpen, counted, closeOnCompletion, maxRows>>

\* executeQuery of SQL without columns: it ran, is closed again, and the call throws.
ExecuteQueryOfUpdate ==
  \E close \in BOOLEAN :
    LET idle == IdleResultSet(Requested(close)) IN
    /\ kind = "plain" /\ connOpen /\ ~idle.open
    /\ rs' = NoResultSet
    /\ closed' = (IdleClosed(Requested(close)) \/ idle.closeStmt)
    /\ pointerOpen' = FALSE /\ query' = FALSE /\ vm' = Ready
    /\ resultsWaiting' = FALSE /\ clean' = FALSE /\ asked' = FALSE
    /\ UNCHANGED <<kind, connOpen, exhaustedResults, counted, closeOnCompletion,
                   maxRows>>

-----------------------------------------------------------------------------
(* A prepared statement: every call resets the statement it keeps.         *)

\* execute, executeQuery and executeUpdate close the result set before they reset
\* the statement: if closeOnCompletion closes the statement with it, they throw.
PreparedClosesItself ==
  /\ kind = "prepared" /\ pointerOpen /\ ClosesStatement(rs)
  /\ ResultSetClosed
  /\ clean' = FALSE
  /\ UNCHANGED <<kind, connOpen, query, stmtVars, closeOnCompletion, maxRows, asked>>

\* MUTANT: A prepared statement executed again stays "exhausted".
RestartedExhausted ==
  /\ kind = "prepared" /\ pointerOpen /\ ~ClosesStatement(rs)
  /\ rs' = ClosedResultSet(rs)
  /\ UNCHANGED <<kind, connOpen, query, exhaustedResults, closeOnCompletion,
                 closed, maxRows, asked>>

Restarted ==
  /\ kind = "prepared" /\ pointerOpen /\ ~ClosesStatement(rs)
  /\ rs' = ClosedResultSet(rs)
  /\ exhaustedResults' = FALSE
  /\ UNCHANGED <<kind, connOpen, query, closeOnCompletion, closed, maxRows, asked>>

\* Busy, locked, misuse, a constraint or a refused upgrade keep the statement.
PreparedFails ==
  /\ Restarted
  /\ vm' = Ready /\ clean' = FALSE
  /\ UNCHANGED <<pointerOpen, resultsWaiting, counted>>

\* Any other error of the first step closes it for good.
PreparedFatal ==
  /\ Restarted
  /\ pointerOpen' = FALSE /\ vm' = Ready /\ clean' = FALSE
  /\ UNCHANGED <<resultsWaiting, counted>>

PreparedKeysFail ==
  /\ Restarted
  /\ resultsWaiting' \in FirstSteps(query)
  /\ vm' = Ready /\ clean' = FALSE
  /\ UNCHANGED <<pointerOpen, counted>>

PreparedExecute ==
  /\ Restarted
  /\ resultsWaiting' \in FirstSteps(query) /\ vm' = Stepped(resultsWaiting')
  /\ counted' = TRUE /\ clean' = TRUE
  /\ UNCHANGED pointerOpen

PreparedExecuteQuery ==
  /\ kind = "prepared" /\ pointerOpen /\ query /\ ~ClosesStatement(rs)
  /\ \E row \in BOOLEAN :
       rs' = Opened(ClosedResultSet(rs), row) /\ vm' = Stepped(row)
  /\ resultsWaiting' = FALSE /\ exhaustedResults' = FALSE /\ clean' = TRUE
  /\ UNCHANGED <<kind, connOpen, pointerOpen, query, counted, closeOnCompletion,
                 closed, maxRows, asked>>

\* executeUpdate of a statement without columns; it leaves updateCount alone.
PreparedExecuteUpdate ==
  /\ ~query /\ Restarted
  /\ vm' = Ready /\ clean' = TRUE
  /\ UNCHANGED <<pointerOpen, resultsWaiting, counted>>

\* executeBatch resets the statement under a result set that stays open.
PreparedExecuteBatch ==
  /\ kind = "prepared" /\ pointerOpen
  /\ vm' = Ready /\ clean' = FALSE
  /\ UNCHANGED <<kind, connOpen, pointerOpen, query, stmtVars, closeOnCompletion,
                 closed, maxRows, rs, asked>>

-----------------------------------------------------------------------------
(* ResultSet.next().  A call that returns false at once changes nothing.   *)

Iterating == rs.open /\ ~rs.emptyResultSet /\ ~rs.pastLastRow

\* execute() has loaded the first row already.
NextFirst ==
  /\ Iterating /\ rs.row = 0
  /\ rs' = [rs EXCEPT !.row = 1]
  /\ UNCHANGED <<kind, connOpen, pointerOpen, query, stmtVars, closeOnCompletion,
                 closed, maxRows, vm, clean, asked>>

AtLimit  == maxRows # 0 /\ rs.row = maxRows
RowBound == 2 * Rows  \* bound on the count of a query that was started again

\* A step of a statement that has halted starts it again.
Position == IF vm.state = "run" THEN vm.pos ELSE 0

StepMeets(state, pos) ==
  /\ Iterating /\ rs.row # 0 /\ ~AtLimit /\ pointerOpen
  /\ vm' = [state |-> state, pos |-> pos]
  /\ UNCHANGED <<kind, connOpen, pointerOpen, query, stmtVars, closeOnCompletion,
                 closed, maxRows, asked>>

NextRow ==
  /\ Position < Rows /\ rs.row < RowBound
  /\ StepMeets("run", Position + 1)
  /\ rs' = [rs EXCEPT !.row = @ + 1]
  /\ UNCHANGED clean

NextDone ==
  /\ StepMeets("halt", Position)
  /\ rs' = [rs EXCEPT !.pastLastRow = TRUE]
  /\ UNCHANGED clean

NextFails ==
  /\ StepMeets("halt", Position)
  /\ clean' = FALSE
  /\ UNCHANGED rs

-----------------------------------------------------------------------------
ExecutePlain ==
  \/ ExecuteWithoutCursor \/ ExecuteRejected \/ ExecuteFails \/ Execute
  \/ \E close \in BOOLEAN : ExecuteQuery(close)
  \/ ExecuteQueryOfUpdate

ExecutePrepared ==
  \/ PreparedClosesItself \/ PreparedFails \/ PreparedFatal \/ PreparedKeysFail
  \/ PreparedExecute \/ PreparedExecuteQuery \/ PreparedExecuteUpdate
  \/ PreparedExecuteBatch

Next ==
  \/ CloseResultSet \/ Close \/ CloseConnection
  \/ GetMoreResults \/ SetCloseOnCompletion \/ SetMaxRows \/ GetResultSet
  \/ ExecutePlain \/ ExecutePrepared
  \/ NextFirst \/ NextRow \/ NextDone \/ NextFails

Spec == Init /\ [][Next]_vars

-----------------------------------------------------------------------------
(* Properties.                                                             *)

\* The row number Java counts is the row SQLite stands on, and "past the last
\* row" and "empty" are said only of a query that has ended, for as long as no
\* call has thrown and no batch has run since the query was executed.
RowIsPosition ==
  connOpen /\ clean /\ rs.open =>
    CASE rs.emptyResultSet -> vm.state # "run"
      [] rs.pastLastRow    -> vm = [state |-> "halt", pos |-> rs.row]
      [] OTHER -> vm = [state |-> "run", pos |-> IF rs.row = 0 THEN 1 ELSE rs.row]

\* While the connection lives no result set stays open over a closed pointer; the
\* next execution would stop at "SQLite JDBC internal error: rs.isOpen() on exec".
OpenHasPointer == connOpen /\ rs.open => pointerOpen

\* No query stays active, with its locks, unless a result set that can be read
\* stands for it or the statement knows that one is waiting; and no result set
\* stands for a query whose pointer is closed.
CursorHasOwner ==
  /\ vm.state = "run" => pointerOpen /\ (rs.open \/ resultsWaiting)
  /\ OpenHasPointer

\* After getMoreResults said "no more", and until the next execution, there is
\* neither an update count nor a result set, so the loop the tests use ends.
NoMoreIsNoMore == exhaustedResults => ~counted /\ ~rs.open

\* A statement made for one result set only (the catalog queries) is finalized
\* with it, if it had not run before.
ClosesWithResultSet == asked /\ ~rs.open => closed /\ ~pointerOpen

\* closeOnCompletion: no statement survives its result set, whether a call closes
\* the set or another execution takes its place (the row goes back).  A prepared
\* statement has lost its pointer by then, so no execution can take its place.
CompletionCloses ==
  [][closeOnCompletion /\ rs.open /\ (~rs'.open \/ rs'.row < rs.row)
     => closed' /\ (kind = "prepared" => ~pointerOpen')]_vars

=============================================================================
