--------------------------- MODULE StatementHandles ---------------------------
(***************************************************************************)
(* How the driver guards the native statements of one connection: every    *)
(* sqlite3_stmt is behind a SafeStmtPtr, calls on it run in the monitor of *)
(* the DB and check that it is open, and DB.stmts remembers the ones that  *)
(* DB.close must finalize.  Any thread may run, close or re-prepare any    *)
(* statement or close the connection; between two critical sections of a   *)
(* JDBC call the other threads run.                                        *)
(*                                                                         *)
(* A critical section that makes at most one call into SQLite is one       *)
(* action; a longer one holds "lock" over several.                         *)
(***************************************************************************)
EXTENDS Naturals, FiniteSets

CONSTANTS
  Threads,
  Statements,   \* JDBC statements
  Prepared,     \* those that are PreparedStatements
  Ptrs,         \* SafeStmtPtr objects
  Addrs,        \* addresses of sqlite3_stmt objects
  NoPtr,        \* null
  NoAddr,       \* the null pointer: the SQL text was empty
  NoThread,
  EmptySql      \* may the SQL text be empty?

ASSUME HandleAssumption ==
  /\ Prepared \subseteq Statements
  /\ NoPtr \notin Ptrs /\ NoAddr \notin Addrs /\ NoThread \notin Threads
  /\ EmptySql \in BOOLEAN
  /\ Statements # {}

VARIABLES
  \* threads
  pc, st, goal, \* where the call of a thread stands, on which statement, why
  held,         \* the SafeStmtPtr the thread has read and is to call
  lock,         \* holder of the monitor of DB across actions
  \* Java objects
  pointer,      \* CoreStatement.pointer
  begin,        \* DB.begin; DB.commit is treated the same, right after it
  addr, closed, closeException,  \* fields of a SafeStmtPtr
  stmts,        \* DB.stmts
  dbClosed,     \* DB.closed
  \* SQLite
  owner, dbOpen, called

threadVars == <<pc, st, goal, held, lock>>
javaVars   == <<pointer, begin, addr, closed, closeException, stmts, dbClosed>>
nativeVars == <<owner, dbOpen, called>>
vars == <<threadVars, javaVars, nativeVars>>

PCs == {"idle", "rsClose", "readClose", "close", "prepare", "compile", "step",
        "stepClose", "ensure", "ensureRun", "read", "use",
        "dbEnter", "dbClose", "interrupt"}
Goals == {"execute", "construct", "prepared", "close"}

TypeOK ==
  /\ pc \in [Threads -> PCs]
  /\ st \in [Threads -> Statements]
  /\ goal \in [Threads -> Goals]
  /\ held \in [Threads -> Ptrs \cup {NoPtr}]
  /\ lock \in Threads \cup {NoThread}
  /\ pointer \in [Statements -> Ptrs \cup {NoPtr}]
  /\ begin \in Ptrs \cup {NoPtr}
  /\ addr \in [Ptrs -> Addrs \cup {NoAddr}]
  /\ closed \in [Ptrs -> BOOLEAN]
  /\ closeException \in [Ptrs -> BOOLEAN]
  /\ stmts \in SUBSET Ptrs
  /\ dbClosed \in BOOLEAN
  /\ owner \in [Addrs -> Ptrs \cup {NoPtr}]
  /\ dbOpen \in BOOLEAN
  /\ called \in Ptrs \cup {NoPtr}

Init ==
  /\ pc = [t \in Threads |-> "idle"]
  /\ st = [t \in Threads |-> CHOOSE s \in Statements : TRUE]
  /\ goal = [t \in Threads |-> "close"]
  /\ held = [t \in Threads |-> NoPtr]
  /\ lock = NoThread
  /\ pointer = [s \in Statements |-> NoPtr]
  /\ begin = NoPtr
  /\ addr = [p \in Ptrs |-> NoAddr]
  /\ closed = [p \in Ptrs |-> TRUE]
  /\ closeException = [p \in Ptrs |-> FALSE]
  /\ stmts = {}
  /\ dbClosed = FALSE
  /\ owner = [a \in Addrs |-> NoPtr]
  /\ dbOpen = TRUE
  /\ called = NoPtr

-----------------------------------------------------------------------------
(* Calls on a SafeStmtPtr, inside the monitor.                             *)

Monitor(t) == lock \in {NoThread, t}

\* safeRun*: the callback makes one native call, or the JNI layer refuses 0.
Usable(p) == ~closed[p] /\ addr[p] # NoAddr

\* MUTANT: ensureOpen is left out.
NativeCallUnchecked(p) ==
  /\ called' = IF addr[p] # NoAddr THEN p ELSE called
  /\ UNCHANGED <<owner, dbOpen>>

NativeCall(p) ==
  /\ called' = IF Usable(p) THEN p ELSE called
  /\ UNCHANGED <<owner, dbOpen>>

CloseThrows(p) == IF closed[p] THEN closeException[p] ELSE addr[p] = NoAddr

\* MUTANT: the pointer is not removed from DB.stmts.
ClosePtrStaysRegistered(p) ==
  IF closed[p]
  THEN UNCHANGED <<closed, closeException, stmts, nativeVars>>
  ELSE /\ closed' = [closed EXCEPT ![p] = TRUE]
       /\ closeException' = [closeException EXCEPT ![p] = addr[p] = NoAddr]
       /\ owner' = [a \in Addrs |-> IF a = addr[p] THEN NoPtr ELSE owner[a]]
       /\ called' = IF addr[p] = NoAddr THEN called ELSE NoPtr
       /\ UNCHANGED <<stmts, dbOpen>>

\* internalClose: finalize, then forget every equal pointer in DB.stmts.
ClosePtr(p) ==
  IF closed[p]
  THEN UNCHANGED <<closed, closeException, stmts, nativeVars>>
  ELSE /\ closed' = [closed EXCEPT ![p] = TRUE]
       /\ closeException' = [closeException EXCEPT ![p] = addr[p] = NoAddr]
       /\ stmts' = {q \in stmts : addr[q] # addr[p]}
       /\ owner' = [a \in Addrs |-> IF a = addr[p] THEN NoPtr ELSE owner[a]]
       /\ called' = IF addr[p] = NoAddr THEN called ELSE NoPtr
       /\ UNCHANGED dbOpen

\* An object no variable refers to stands for one that Java has yet to make.
Referenced ==
  stmts \cup {begin} \cup {pointer[s] : s \in Statements} \cup {held[t] : t \in Threads}
NewPtr(p, a) ==
  /\ p \in Ptrs \ Referenced
  /\ addr' = [addr EXCEPT ![p] = a]
  /\ closed' = [closed EXCEPT ![p] = FALSE]
  /\ closeException' = [closeException EXCEPT ![p] = FALSE]

\* prepare_utf8: a fresh address, or 0.
Allocate(p, a) ==
  /\ dbOpen
  /\ \/ a \in Addrs /\ owner[a] = NoPtr
     \/ a = NoAddr /\ EmptySql
  /\ NewPtr(p, a)
  /\ owner' = [b \in Addrs |-> IF b = a THEN p ELSE owner[b]]
  /\ called' = IF a = NoAddr THEN called ELSE NoPtr
  /\ UNCHANGED dbOpen

Goto(t, at) == pc' = [pc EXCEPT ![t] = at]
Stay(t, at) == Goto(t, at) /\ UNCHANGED <<st, goal, held>>
Return(t) ==
  /\ Goto(t, "idle")
  /\ st' = [st EXCEPT ![t] = CHOOSE s \in Statements : TRUE]
  /\ goal' = [goal EXCEPT ![t] = "close"]
  /\ held' = [held EXCEPT ![t] = NoPtr]
Start(t, s, g, at) ==
  /\ pc[t] = "idle"
  /\ Goto(t, at)
  /\ st' = [st EXCEPT ![t] = s]
  /\ goal' = [goal EXCEPT ![t] = g]
  /\ UNCHANGED held

\* this.pointer is read before the monitor is entered.
ReadPtr(t, s) == held' = [held EXCEPT ![t] = pointer[s]]

-----------------------------------------------------------------------------
(* The beginning of a JDBC call: what it checks without the monitor.       *)

\* A statement is not shared before its constructor has returned.
Published(s) == pointer[s] # NoPtr /\ \A u \in Threads : goal[u] = "construct" => st[u] # s

\* CoreStatement.internalClose finds an open pointer of an open connection.
MustClose(s) == pointer[s] # NoPtr /\ ~closed[pointer[s]]

\* Statement.execute and executeQuery
Execute(t, s) ==
  /\ s \notin Prepared
  /\ ~(MustClose(s) /\ dbClosed)
  /\ Start(t, s, "execute", IF MustClose(s) THEN "rsClose" ELSE "prepare")
  /\ UNCHANGED <<lock, javaVars, nativeVars>>

\* Statement.close
CloseStatement(t, s) ==
  /\ Published(s) /\ MustClose(s) /\ ~dbClosed
  /\ Start(t, s, "close", "rsClose")
  /\ UNCHANGED <<lock, javaVars, nativeVars>>

\* Connection.prepareStatement: the constructor of CorePreparedStatement.
PrepareStatement(t, s) ==
  /\ s \in Prepared /\ pointer[s] = NoPtr
  /\ \A u \in Threads : goal[u] = "construct" => st[u] # s
  /\ Start(t, s, "construct", "prepare")
  /\ UNCHANGED <<lock, javaVars, nativeVars>>

\* PreparedStatement.execute, executeQuery, executeUpdate
ExecutePrepared(t, s) ==
  /\ s \in Prepared /\ Published(s) /\ ~closed[pointer[s]]
  /\ Start(t, s, "prepared", "step")
  /\ UNCHANGED <<lock, javaVars, nativeVars>>

\* Any method that makes one call through safeRun: setters, ResultSet.next, ...
Call(t, s) ==
  /\ Published(s)
  /\ Start(t, s, "close", "read")
  /\ UNCHANGED <<lock, javaVars, nativeVars>>

\* Connection.close
CloseConnection(t) ==
  /\ ~dbClosed
  /\ Start(t, st[t], "close", "dbEnter")
  /\ UNCHANGED <<lock, javaVars, nativeVars>>

-----------------------------------------------------------------------------
(* Its steps.                                                              *)

\* Statement.cancel: sqlite3_interrupt, outside the monitor ...
Cancel(t) ==
  /\ dbOpen
  /\ Start(t, st[t], "close", "interrupt")
  /\ UNCHANGED <<lock, javaVars, nativeVars>>

\* ... on the handle it has read.
Interrupt(t) ==
  /\ pc[t] = "interrupt"
  /\ Return(t)
  /\ UNCHANGED <<lock, javaVars, nativeVars>>

\* An exception leaves a half-made PreparedStatement to the garbage collector.
Throw(t) ==
  /\ Return(t)
  /\ pointer' = IF goal[t] = "construct" THEN [pointer EXCEPT ![st[t]] = NoPtr] ELSE pointer

\* rs.close: resets the statement if the result set is open.
RsClose(t) ==
  /\ pc[t] = "rsClose" /\ Monitor(t)
  /\ UNCHANGED <<lock, javaVars>>
  /\ \/ UNCHANGED nativeVars /\ Stay(t, "readClose")
     \/ LET p == pointer[st[t]] IN
        /\ NativeCall(p)
        /\ IF ~closed[p] /\ addr[p] = NoAddr THEN Return(t) ELSE Stay(t, "readClose")

ReadForClose(t) ==
  /\ pc[t] = "readClose"
  /\ ReadPtr(t, st[t])
  /\ Goto(t, "close")
  /\ UNCHANGED <<st, goal, lock, javaVars, nativeVars>>

Close(t) ==
  /\ pc[t] = "close" /\ Monitor(t)
  /\ ClosePtr(held[t])
  /\ UNCHANGED <<lock, pointer, begin, addr, dbClosed>>
  /\ IF goal[t] = "execute" /\ ~CloseThrows(held[t])
     THEN Goto(t, "prepare") /\ held' = [held EXCEPT ![t] = NoPtr] /\ UNCHANGED <<st, goal>>
     ELSE Return(t)

\* DB.prepare(CoreStatement), first half: the old pointer is closed.
Prepare(t) ==
  LET p == pointer[st[t]] IN
  /\ pc[t] = "prepare" /\ Monitor(t)
  /\ UNCHANGED <<begin, addr, dbClosed>>
  /\ IF p = NoPtr
     THEN UNCHANGED <<pointer, closed, closeException, stmts, nativeVars>>
     ELSE ClosePtr(p) /\ UNCHANGED pointer
  /\ IF p # NoPtr /\ CloseThrows(p)
     THEN Return(t) /\ UNCHANGED lock
     ELSE Stay(t, "compile") /\ lock' = t

\* Second half: the new one is registered, unless an equal one already is.
CompileFails(t) ==
  /\ pc[t] = "compile"
  /\ lock' = NoThread
  /\ Throw(t)
  /\ UNCHANGED <<begin, addr, closed, closeException, stmts, dbClosed, nativeVars>>

Added(a) == \A q \in stmts : addr[q] # a

Compile(t, p, a) ==
  /\ pc[t] = "compile"
  /\ lock' = NoThread
  /\ Allocate(p, a)
  /\ stmts' = stmts \cup (IF Added(a) THEN {p} ELSE {})
  /\ UNCHANGED <<begin, dbClosed>>
  /\ IF Added(a)
     THEN /\ pointer' = [pointer EXCEPT ![st[t]] = p]
          /\ Stay(t, IF goal[t] = "construct" THEN "read" ELSE "step")
     ELSE /\ pointer' = [pointer EXCEPT ![st[t]] = IF goal[t] = "construct" THEN NoPtr ELSE p]
          /\ Return(t)

\* After a failed step a Statement closes its pointer, a PreparedStatement
\* resets it.
StepFailed(t) ==
  /\ Goto(t, IF goal[t] = "execute" THEN "readClose" ELSE "read")
  /\ goal' = [goal EXCEPT ![t] = "close"]
  /\ UNCHANGED <<st, held>>

StepSucceeded(t) ==
  IF goal[t] = "execute" THEN Stay(t, "read") ELSE Return(t)

\* DB.execute(CoreStatement, Object[])
Step(t) ==
  LET p == pointer[st[t]] IN
  /\ pc[t] = "step" /\ Monitor(t)
  /\ NativeCall(p)
  /\ UNCHANGED javaVars
  /\ \/ StepFailed(t) /\ UNCHANGED lock                         \* closed, busy, constraint
     \/ Usable(p) /\ Stay(t, "stepClose") /\ lock' = t          \* any other error
     \/ Usable(p) /\ StepSucceeded(t) /\ UNCHANGED lock         \* a row
     \/ Usable(p) /\ Stay(t, "ensure") /\ lock' = t             \* done, in auto-commit mode

StepClose(t) ==
  /\ pc[t] = "stepClose"
  /\ ClosePtr(pointer[st[t]])
  /\ lock' = NoThread
  /\ StepFailed(t)
  /\ UNCHANGED <<pointer, begin, addr, dbClosed>>

\* ensureAutoCommit: "begin;" is prepared when it is first needed, which may
\* fail ...
EnsureBegin(t) ==
  /\ pc[t] = "ensure"
  /\ \/ /\ begin # NoPtr
        /\ Stay(t, "ensureRun")
        /\ UNCHANGED <<lock, javaVars, nativeVars>>
     \/ /\ begin = NoPtr
        /\ \E p \in Ptrs, a \in Addrs : Allocate(p, a) /\ begin' = p
        /\ Stay(t, "ensureRun")
        /\ UNCHANGED <<lock, pointer, stmts, dbClosed>>
     \/ /\ begin = NoPtr
        /\ StepFailed(t)
        /\ lock' = NoThread
        /\ UNCHANGED <<javaVars, nativeVars>>

\* ... and run.
EnsureRun(t) ==
  /\ pc[t] = "ensureRun"
  /\ NativeCall(begin)
  /\ lock' = NoThread
  /\ IF closed[begin] THEN StepFailed(t) ELSE StepSucceeded(t)
  /\ UNCHANGED javaVars

\* this.pointer.safeRun(...)
Read(t) ==
  /\ pc[t] = "read"
  /\ ReadPtr(t, st[t])
  /\ Goto(t, "use")
  /\ UNCHANGED <<st, goal, lock, javaVars, nativeVars>>

Use(t) ==
  /\ pc[t] = "use" /\ Monitor(t)
  /\ NativeCall(held[t])
  /\ IF Usable(held[t]) THEN Return(t) /\ UNCHANGED pointer ELSE Throw(t)
  /\ UNCHANGED <<lock, begin, addr, closed, closeException, stmts, dbClosed>>

\* DB.close
DbEnter(t) ==
  /\ pc[t] = "dbEnter" /\ Monitor(t)
  /\ lock' = t
  /\ Stay(t, "dbClose")
  /\ UNCHANGED <<javaVars, nativeVars>>

DbCloseStatement(t, p) ==
  /\ pc[t] = "dbClose"
  /\ ClosePtr(p)
  /\ UNCHANGED <<pointer, begin, addr, dbClosed>>
  /\ IF CloseThrows(p) THEN Return(t) /\ lock' = NoThread ELSE Stay(t, "dbClose") /\ UNCHANGED lock

DbCloseBegin(t) ==
  /\ pc[t] = "dbClose" /\ stmts = {}
  /\ begin # NoPtr /\ ~closed[begin]
  /\ ClosePtr(begin)
  /\ UNCHANGED <<pointer, begin, addr, dbClosed, lock>>
  /\ Stay(t, "dbClose")

DbClosed(t) ==
  /\ pc[t] = "dbClose" /\ stmts = {}
  /\ begin # NoPtr => closed[begin]
  /\ dbClosed' = TRUE
  /\ dbOpen' = FALSE
  /\ called' = IF dbOpen THEN NoPtr ELSE called
  /\ lock' = NoThread
  /\ Return(t)
  /\ UNCHANGED <<pointer, begin, addr, closed, closeException, stmts, owner>>

Next ==
  \E t \in Threads :
    \/ \E s \in Statements :
         \/ Execute(t, s) \/ CloseStatement(t, s) \/ PrepareStatement(t, s)
         \/ ExecutePrepared(t, s) \/ Call(t, s)
    \/ CloseConnection(t) \/ Cancel(t) \/ Interrupt(t)
    \/ RsClose(t) \/ ReadForClose(t) \/ Close(t)
    \/ Prepare(t) \/ CompileFails(t)
    \/ \E p \in Ptrs, a \in Addrs \cup {NoAddr} : Compile(t, p, a)
    \/ Step(t) \/ StepClose(t) \/ EnsureBegin(t) \/ EnsureRun(t)
    \/ Read(t) \/ Use(t)
    \/ DbEnter(t) \/ \E p \in stmts : DbCloseStatement(t, p)
    \/ DbCloseBegin(t) \/ DbClosed(t)

Spec == Init /\ [][Next]_vars

-----------------------------------------------------------------------------
(* Properties.                                                             *)

\* The driver keeps the contract of the C interface, whatever the threads
\* do: no call on a finalized statement, even when its address is in use
\* again; none finalized twice; nothing left when sqlite3_close is called.
Contract == INSTANCE NativeStatements
KeepsContract == Contract!Spec

\* DB.stmts is exactly the set of statements that exist in SQLite (with
\* "begin;"), so DB.close can finalize them all.
RegistryExact ==
  {owner[a] : a \in Addrs} \ {NoPtr}
    = {p \in stmts : addr[p] # NoAddr} \cup {p \in {begin} \ {NoPtr} : ~closed[p]}

\* DB.close "closes a database connection and finalizes any remaining
\* statements": a thread that leaves it has closed the connection.
CloseCloses ==
  [][\A t \in Threads : pc[t] = "dbClose" /\ pc'[t] = "idle" => dbClosed']_vars

=============================================================================
