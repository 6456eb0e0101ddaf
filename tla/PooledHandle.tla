----------------------------- MODULE PooledHandle -----------------------------
(***************************************************************************)
(* A pooled connection: the physical connection, the proxies ("handles")   *)
(* SQLitePooledConnection.getConnection makes for it, and a pool that      *)
(* lends it to threads and takes it back when a handle says it is closed.  *)
(* Closing a handle resets the physical connection in several calls; each  *)
(* is an action, since nothing but the pool's own monitor keeps other      *)
(* threads away.  PooledConnection.close closes the handle and then the    *)
(* physical connection; a client can close the latter behind its handle    *)
(* (Statement.getConnection().close()).  The pool is DummyPool of          *)
(* SQLiteConnectionPoolDataSourceTest, with one pooled connection: two of  *)
(* them share nothing.                                                     *)
(***************************************************************************)
EXTENDS Naturals, FiniteSets

CONSTANTS
  Threads,
  Handles,      \* proxies
  NoHandle, NoThread,
  CloseTwice,   \* may another thread close a handle too?
  MaxAvailable, \* bound on the pool's list: what comes back beyond is dropped
  Failures      \* what may go wrong: "begin" and "commit" (busy), "statement"
                \* (SQLite rolls the transaction back), "physical" (a client
                \* closes the physical connection)

\* One proxy for each thread leaves one that can be made.
ASSUME PoolAssumption ==
  /\ \A held \in [Threads -> Handles \cup {NoHandle}] :
       \E h \in Handles : \A t \in Threads : held[t] # h
  /\ NoHandle \notin Handles /\ NoThread \notin Threads
  /\ CloseTwice \in BOOLEAN /\ MaxAvailable \in Nat \ {0}
  /\ Failures \subseteq {"begin", "commit", "statement", "physical"}

VARIABLES
  pc, goal, hnd,  \* where the call of a thread stands, why, on which handle
  poolLock,       \* monitor of the pool, held during getConnection
  available,      \* how often the pool has the connection in its list
  listening,      \* the pool is in listeners
  handleConn,     \* SQLitePooledConnection.handleConn
  isClosed,       \* the field of each proxy
  physicalConn,   \* "open", "closed" or null
  autoCommit,     \* flag of the physical connection
  inTx,           \* SQLite is in a transaction
  pending,        \* handles whose changes it holds
  orderly         \* history: nobody closed the handle of another thread, and no
                  \* commit failed half-way

poolVars     == <<poolLock, available, listening>>
handleVars   == <<handleConn, isClosed>>
physicalVars == <<physicalConn, autoCommit, inTx, pending, orderly>>
vars == <<pc, goal, hnd, poolVars, handleVars, physicalVars>>

Calls == {"setAutoFalse", "write", "commitTx", "rollback", "setAuto"}
PCs   == Calls \cup {"idle", "check", "getAuto", "begin", "commit", "mark", "notify",
                     "create", "shut"}

\* Why a call is made: by the client on its handle, or to close it; the latter
\* also from getConnection, and from PooledConnection.close as the borrower or
\* the pool calls it.
Goals == {"call", "close", "reuse", "dispose", "discard"}

TypeOK ==
  /\ pc \in [Threads -> PCs]
  /\ goal \in [Threads -> Goals]
  /\ hnd \in [Threads -> Handles \cup {NoHandle}]
  /\ poolLock \in Threads \cup {NoThread}
  /\ available \in Nat
  /\ listening \in BOOLEAN
  /\ handleConn \in Handles \cup {NoHandle}
  /\ isClosed \in [Handles -> BOOLEAN]
  /\ physicalConn \in {"open", "closed", "null"}
  /\ autoCommit \in BOOLEAN
  /\ inTx \in BOOLEAN
  /\ pending \in SUBSET Handles
  /\ orderly \in BOOLEAN

Init ==
  /\ pc = [t \in Threads |-> "idle"]
  /\ goal = [t \in Threads |-> "call"]
  /\ hnd = [t \in Threads |-> NoHandle]
  /\ poolLock = NoThread
  /\ available = 1
  /\ listening = TRUE
  /\ handleConn = NoHandle
  /\ isClosed = [h \in Handles |-> TRUE]
  /\ physicalConn = "open"
  /\ autoCommit = TRUE
  /\ inTx = FALSE
  /\ pending = {}
  /\ orderly = TRUE

Goto(t, at) == pc' = [pc EXCEPT ![t] = at] /\ UNCHANGED <<goal, hnd>>
Start(t, at, g, h) ==
  /\ pc[t] = "idle"
  /\ pc' = [pc EXCEPT ![t] = at]
  /\ goal' = [goal EXCEPT ![t] = g]
  /\ hnd' = [hnd EXCEPT ![t] = h]
Finish(t, h) ==
  /\ pc' = [pc EXCEPT ![t] = "idle"]
  /\ goal' = [goal EXCEPT ![t] = "call"]
  /\ hnd' = [hnd EXCEPT ![t] = h]

\* A call that throws leaves its handle as it is; one of the pool has none.
Throw(t) ==
  /\ Finish(t, IF goal[t] \in {"reuse", "discard"} THEN NoHandle ELSE hnd[t])
  /\ poolLock' = IF goal[t] = "reuse" THEN NoThread ELSE poolLock
  /\ UNCHANGED <<available, listening>>

\* The next step of a call, or its end when the client made it.
Continue(t, at) == (IF goal[t] = "call" THEN Finish(t, hnd[t]) ELSE Goto(t, at)) /\ UNCHANGED poolVars

-----------------------------------------------------------------------------
(* The pool and getConnection.                                             *)

\* DummyPool.getConnection; getConnection first closes the old handle.
Take(t) ==
  /\ hnd[t] = NoHandle /\ poolLock = NoThread /\ available > 0
  /\ available' = available - 1
  /\ poolLock' = t
  /\ Start(t, IF handleConn = NoHandle THEN "create" ELSE "check", "reuse", handleConn)
  /\ UNCHANGED <<listening, handleVars, physicalVars>>

\* A proxy nobody refers to any more stands for one yet to be made.
Create(t, h) ==
  /\ pc[t] = "create"
  /\ h # handleConn /\ isClosed[h] /\ \A u \in Threads : hnd[u] # h
  /\ handleConn' = h
  /\ isClosed' = [isClosed EXCEPT ![h] = FALSE]
  /\ poolLock' = NoThread
  /\ Finish(t, h)
  /\ UNCHANGED <<available, listening, physicalVars>>

\* A pool takes the connection off its list and calls PooledConnection.close:
\* if (handleConn != null) { listeners.clear(); handleConn.close(); }
Discard(t) ==
  /\ hnd[t] = NoHandle /\ poolLock = NoThread /\ available > 0
  /\ available' = available - 1
  /\ listening' = (listening /\ handleConn = NoHandle)
  /\ Start(t, IF handleConn = NoHandle THEN "shut" ELSE "check", "discard", handleConn)
  /\ UNCHANGED <<poolLock, handleVars, physicalVars>>

\* if (physicalConn != null) try { physicalConn.close(); } finally { physicalConn = null; }
Shut(t) ==
  /\ pc[t] = "shut"
  /\ physicalConn' = "null" /\ inTx' = FALSE /\ pending' = {}
  /\ Finish(t, NoHandle)
  /\ UNCHANGED <<autoCommit, orderly, poolVars, handleVars>>

-----------------------------------------------------------------------------
(* The client: calls through its handle, and close.                        *)

\* Any other method: refused when the handle is closed.
Invoke(t, call) ==
  /\ hnd[t] # NoHandle /\ ~isClosed[hnd[t]]
  /\ Start(t, call, "call", hnd[t])
  /\ UNCHANGED <<poolVars, handleVars, physicalVars>>

CloseHandle(t) ==
  /\ hnd[t] # NoHandle
  /\ Start(t, "check", "close", hnd[t])
  /\ UNCHANGED <<poolVars, handleVars, physicalVars>>

\* Connection.close of a handle that another thread is using or closing.
CloseAgain(t) ==
  /\ CloseTwice
  /\ hnd[t] = NoHandle
  /\ \E u \in Threads : hnd[u] # NoHandle /\ Start(t, "check", "close", hnd[u])
  /\ orderly' = FALSE
  /\ UNCHANGED <<poolVars, handleVars, physicalConn, autoCommit, inTx, pending>>

\* MUTANT: the pool keeps listening while the handle is closed.
DisposeKeepsListeners(t) ==
  /\ handleConn # NoHandle
  /\ \/ hnd[t] = handleConn /\ UNCHANGED orderly
     \/ hnd[t] = NoHandle /\ CloseTwice /\ orderly' = FALSE
  /\ Start(t, "check", "dispose", handleConn)
  /\ UNCHANGED <<poolVars, handleVars, physicalConn, autoCommit, inTx, pending>>

\* PooledConnection.close by the borrower, or by another thread meanwhile.
Dispose(t) ==
  /\ handleConn # NoHandle
  /\ \/ hnd[t] = handleConn /\ UNCHANGED orderly
     \/ hnd[t] = NoHandle /\ CloseTwice /\ orderly' = FALSE
  /\ listening' = FALSE
  /\ Start(t, "check", "dispose", handleConn)
  /\ UNCHANGED <<poolLock, available, handleVars, physicalConn, autoCommit, inTx, pending>>

\* Statement.getConnection() is the physical connection, and close closes it.
ClosePhysical(t) ==
  /\ "physical" \in Failures
  /\ pc[t] = "idle" /\ hnd[t] # NoHandle /\ ~isClosed[hnd[t]] /\ physicalConn = "open"
  /\ physicalConn' = "closed" /\ inTx' = FALSE /\ pending' = {}
  /\ UNCHANGED <<pc, goal, hnd, autoCommit, orderly, poolVars, handleVars>>

\* isClosed of a handle asks the physical connection and keeps the answer.
IsClosed(t) ==
  /\ pc[t] = "idle" /\ hnd[t] # NoHandle /\ ~isClosed[hnd[t]] /\ physicalConn = "closed"
  /\ isClosed' = [isClosed EXCEPT ![hnd[t]] = TRUE]
  /\ UNCHANGED <<pc, goal, hnd, handleConn, poolVars, physicalVars>>

\* The close of a handle returns to whoever called it.
Closed(t) ==
  \/ goal[t] = "reuse" /\ Goto(t, "create")
  \/ goal[t] \in {"dispose", "discard"} /\ Goto(t, "shut")
  \/ goal[t] = "close" /\ Finish(t, NoHandle)

\* MUTANT: the handle is marked closed before the physical connection is reset.
CheckMarksFirst(t) ==
  /\ pc[t] = "check"
  /\ IF isClosed[hnd[t]] THEN Closed(t) ELSE Goto(t, "getAuto")
  /\ isClosed' = [isClosed EXCEPT ![hnd[t]] = TRUE]
  /\ UNCHANGED <<handleConn, poolVars, physicalVars>>

\* if (isClosed) return null;
Check(t) ==
  /\ pc[t] = "check"
  /\ IF isClosed[hnd[t]] THEN Closed(t) ELSE Goto(t, "getAuto")
  /\ UNCHANGED <<poolVars, handleVars, physicalVars>>

\* MUTANT: the condition is inverted.
GetAutoInverted(t) ==
  /\ pc[t] = "getAuto" /\ physicalConn = "open"
  /\ Goto(t, IF autoCommit THEN "rollback" ELSE "setAuto")
  /\ UNCHANGED <<poolVars, handleVars, physicalVars>>

\* if (!physicalConn.getAutoCommit()) ...
GetAuto(t) ==
  /\ pc[t] = "getAuto" /\ physicalConn = "open"
  /\ Goto(t, IF autoCommit THEN "setAuto" ELSE "rollback")
  /\ UNCHANGED <<poolVars, handleVars, physicalVars>>

\* MUTANT: the handle stays open.
MarkForgets(t) ==
  /\ pc[t] = "mark"
  /\ Goto(t, "notify")
  /\ UNCHANGED <<poolVars, handleVars, physicalVars>>

\* isClosed = true;
Mark(t) ==
  /\ pc[t] = "mark"
  /\ isClosed' = [isClosed EXCEPT ![hnd[t]] = TRUE]
  /\ Goto(t, "notify")
  /\ UNCHANGED <<poolVars, handleConn, physicalVars>>

\* MUTANT: the monitor of the pool is not reentrant.
NotifyOnce(t) ==
  /\ pc[t] = "notify"
  /\ IF listening
     THEN /\ poolLock = NoThread
          /\ available' = IF available < MaxAvailable THEN available + 1 ELSE available
     ELSE UNCHANGED available
  /\ Closed(t)
  /\ UNCHANGED <<poolLock, listening, handleVars, physicalVars>>

\* listener.connectionClosed: the pool, if it listens, takes the connection back.
Notify(t) ==
  /\ pc[t] = "notify"
  /\ IF listening
     THEN /\ poolLock \in {NoThread, t}
          /\ available' = IF available < MaxAvailable THEN available + 1 ELSE available
     ELSE UNCHANGED available
  /\ Closed(t)
  /\ UNCHANGED <<poolLock, listening, handleVars, physicalVars>>

-----------------------------------------------------------------------------
(* Calls into the physical connection, by a client or by close.            *)

\* "database connection closed", or physicalConn is null.
Refused(t) ==
  /\ pc[t] \in Calls \cup {"getAuto", "begin", "commit"} /\ physicalConn # "open"
  /\ Throw(t)
  /\ UNCHANGED <<handleVars, physicalVars>>

\* setAutoCommit(false): the flag, then "begin;".
SetAutoFalse(t) ==
  /\ pc[t] = "setAutoFalse" /\ physicalConn = "open"
  /\ autoCommit' = FALSE
  /\ IF autoCommit THEN Goto(t, "begin") ELSE Finish(t, hnd[t])
  /\ UNCHANGED <<physicalConn, inTx, pending, orderly, poolVars, handleVars>>

Begin(t) ==
  /\ pc[t] = "begin" /\ physicalConn = "open"
  /\ \/ ~inTx /\ inTx' = TRUE /\ Continue(t, "setAuto")
     \/ (inTx \/ "begin" \in Failures) /\ Throw(t) /\ UNCHANGED inTx
  /\ UNCHANGED <<physicalConn, autoCommit, pending, orderly, handleVars>>

\* An update: in the transaction, or committed at once.
Write(t) ==
  /\ pc[t] = "write" /\ physicalConn = "open"
  /\ \/ /\ pending' = IF inTx THEN pending \cup {hnd[t]} ELSE pending
        /\ UNCHANGED inTx
        /\ Finish(t, hnd[t])
     \/ /\ "statement" \in Failures
        /\ inTx' = FALSE /\ pending' = {}
        /\ Finish(t, hnd[t])
  /\ UNCHANGED <<physicalConn, autoCommit, orderly, poolVars, handleVars>>

\* rollback() up to its "begin;".
Rollback(t) ==
  /\ pc[t] = "rollback" /\ physicalConn = "open"
  /\ IF inTx /\ ~autoCommit
     THEN /\ inTx' = FALSE /\ pending' = {}
          /\ Goto(t, "begin") /\ UNCHANGED poolVars
     ELSE Throw(t) /\ UNCHANGED <<inTx, pending>>
  /\ UNCHANGED <<physicalConn, autoCommit, orderly, handleVars>>

\* "commit;": OK, or busy when there is something to write.
SqlCommit(t) ==
  \/ inTx /\ inTx' = FALSE /\ pending' = {} /\ UNCHANGED orderly
  \/ "commit" \in Failures /\ pending # {} /\ orderly' = FALSE /\ UNCHANGED <<inTx, pending>>
  \/ ~inTx /\ UNCHANGED <<inTx, pending, orderly>>

\* commit() up to its "begin;".
CommitTx(t) ==
  /\ pc[t] = "commitTx" /\ physicalConn = "open"
  /\ IF autoCommit
     THEN Throw(t) /\ UNCHANGED <<inTx, pending, orderly>>
     ELSE /\ SqlCommit(t)
          /\ IF inTx /\ ~inTx' THEN Goto(t, "begin") /\ UNCHANGED poolVars ELSE Throw(t)
  /\ UNCHANGED <<physicalConn, autoCommit, handleVars>>

\* MUTANT: setAutoCommit(true) changes the flag only.
SetAutoFlagOnly(t) ==
  /\ pc[t] = "setAuto" /\ physicalConn = "open"
  /\ autoCommit' = TRUE
  /\ Continue(t, "mark")
  /\ UNCHANGED <<physicalConn, inTx, pending, orderly, handleVars>>

\* setAutoCommit(true): nothing to do when the flag is set, else "commit;".
SetAuto(t) ==
  /\ pc[t] = "setAuto" /\ physicalConn = "open"
  /\ autoCommit' = TRUE
  /\ IF autoCommit THEN Continue(t, "mark") ELSE Goto(t, "commit") /\ UNCHANGED poolVars
  /\ UNCHANGED <<physicalConn, inTx, pending, orderly, handleVars>>

CommitAuto(t) ==
  /\ pc[t] = "commit" /\ physicalConn = "open"
  /\ SqlCommit(t)
  /\ IF inTx /\ ~inTx' THEN Continue(t, "mark") ELSE Throw(t)
  /\ UNCHANGED <<physicalConn, autoCommit, handleVars>>

Step(t) ==
  \/ \E h \in Handles : Create(t, h)
  \/ Check(t) \/ GetAuto(t) \/ Mark(t) \/ Notify(t)
  \/ SetAutoFalse(t) \/ Begin(t) \/ Write(t) \/ Rollback(t) \/ CommitTx(t)
  \/ SetAuto(t) \/ CommitAuto(t) \/ Refused(t) \/ Shut(t)

Next ==
  \E t \in Threads :
    \/ Take(t) \/ Discard(t) \/ CloseHandle(t) \/ CloseAgain(t) \/ Dispose(t)
    \/ ClosePhysical(t) \/ IsClosed(t)
    \/ \E call \in Calls : Invoke(t, call)
    \/ Step(t)

Spec == Init /\ [][Next]_vars

\* A thread in a call goes on with it.
Scheduled(t) == WF_vars(Step(t))
FairSpec == Spec /\ \A t \in Threads : Scheduled(t)

-----------------------------------------------------------------------------
(* Properties.                                                             *)

\* As long as the pool is used in an orderly way the handles keep its contract:
\* never two open at once, a new one starts on a connection without
\* uncommitted changes, none rolls back or commits the changes made through
\* another, and PooledConnection.close closes the physical connection when no
\* handle is open and nothing is uncommitted, and it is not lent again.
Lessee ==
  IF \E h \in Handles : ~isClosed[h] THEN CHOOSE h \in Handles : ~isClosed[h] ELSE NoHandle
Lease == INSTANCE ConnectionLease WITH lessee <- Lessee, alive <- physicalConn = "open"
KeepsLease == Lease!Spec

\* "the physical connection must be reset (rollback + auto-commit) before the
\* pool is notified": a connection the pool may lend is open and in auto-commit
\* mode, and so is SQLite, unless a commit failed half-way or two threads closed
\* a handle.
ReturnedClean == orderly /\ available > 0 => physicalConn = "open" /\ autoCommit /\ ~inTx

\* getConnection closes the old handle before it makes a new one: only the
\* newest is ever open, also when handles are closed by several threads at
\* once and the pool is told of it more than once.
OneOpenHandle == \A h \in Handles : ~isClosed[h] => h = handleConn

\* No close works on the physical connection when its handle is closed
\* already, for then somebody else may have it.
ResetsOnce ==
  orderly =>
    \A t \in Threads :
      goal[t] # "call" /\ pc[t] \in {"rollback", "begin", "setAuto", "commit", "mark"}
      => ~isClosed[hnd[t]]

\* A thread in a call waits for nothing but the monitor of the pool (and, as the
\* holder of that monitor, for a proxy to make).
MayStep(t) ==
  /\ pc[t] # "idle"
  /\ pc[t] = "notify" /\ listening => poolLock \in {NoThread, t}
  /\ pc[t] = "create" => \E h \in Handles \ {handleConn} : \A u \in Threads : hnd[u] # h
SomeoneMayStep ==
  (\E t \in Threads : pc[t] # "idle") => \E t \in Threads : MayStep(t)

Proceeds(t) == ENABLED <<Step(t)>>_vars

\* The pool calls close() with its monitor held and close() calls back into the
\* pool: threads in calls never all wait for one another, and one that waits
\* for nothing finds a step to take, whatever others did to its connection.
NoDeadlock ==
  /\ SomeoneMayStep
  /\ \A t \in Threads : MayStep(t) => Proceeds(t)

\* The transaction that the auto-commit flag promises was lost: rollback throws,
\* as it will every time, and the handle stays open.
Stuck(t) == pc[t] = "idle" /\ hnd[t] # NoHandle /\ ~autoCommit /\ ~inTx

\* Closing a handle gives the connection back to the pool that listens, and
\* PooledConnection.close closes it, unless the reset throws for ever or the
\* client has closed the physical connection itself.
GivenBack ==
  \A t \in Threads :
    (pc[t] = "check" /\ (goal[t] = "close" => listening) /\ goal[t] # "reuse")
    ~> (available > 0 \/ physicalConn # "open" \/ ~orderly \/ Stuck(t))

-----------------------------------------------------------------------------
(* What a comment says, and the code does not do.                          *)

\* The same sentence without the exception.
AlwaysReturnedClean == available > 0 => autoCommit /\ ~inTx

=============================================================================
