-------------------------- MODULE PooledHandleProofs --------------------------
(***************************************************************************)
(* Theorems about PooledHandle, for any threads, handles and failures, and *)
(* for handles closed by one thread or by several.                         *)
(***************************************************************************)
EXTENDS PooledHandle, TLAPS

\* A thread inside getConnection, and no other, holds the pool's monitor, and
\* works on the newest handle; it makes another only when that one is closed.
Control(t) ==
  /\ pc[t] = "idle" => goal[t] = "call"
  /\ poolLock = t => goal[t] = "reuse"
  /\ goal[t] = "reuse" => poolLock = t /\ hnd[t] = handleConn
  /\ pc[t] = "create" => goal[t] = "reuse" /\ (hnd[t] # NoHandle => isClosed[hnd[t]])
  /\ pc[t] \notin {"idle", "create", "shut"} => hnd[t] # NoHandle
  /\ pc[t] = "notify" => isClosed[hnd[t]]
  /\ pc[t] \in {"setAutoFalse", "write", "commitTx"} => goal[t] = "call"
  /\ pc[t] \in {"check", "getAuto", "mark", "notify"} => goal[t] # "call"
  /\ pc[t] = "shut" => goal[t] \in {"dispose", "discard"}

IInv == TypeOK /\ OneOpenHandle /\ \A t \in Threads : Control(t)

LEMMA InitInv == Init => IInv
<1>1. Init => TypeOK
  <2>1. Init => pc \in [Threads -> PCs] /\ goal \in [Threads -> Goals]
                /\ hnd \in [Threads -> Handles \cup {NoHandle}]
    BY DEF Init, PCs, Goals
  <2>2. Init => isClosed \in [Handles -> BOOLEAN] /\ pending \in SUBSET Handles
    BY DEF Init
  <2>3. Init => /\ poolLock \in Threads \cup {NoThread} /\ available \in Nat
                /\ physicalConn \in {"open", "closed", "null"}
                /\ handleConn \in Handles \cup {NoHandle}
    BY DEF Init
  <2>4. Init => autoCommit \in BOOLEAN /\ inTx \in BOOLEAN
    BY Zenon DEF Init
  <2>5. Init => orderly \in BOOLEAN /\ listening \in BOOLEAN
    BY Zenon DEF Init
  <2> QED BY <2>1, <2>2, <2>3, <2>4, <2>5 DEF TypeOK
<1>2. Init => OneOpenHandle /\ \A t \in Threads : Control(t)
  BY PoolAssumption DEF Init, OneOpenHandle, Control
<1> QED BY <1>1, <1>2 DEF IInv

ThreadTypes ==
  /\ pc' \in [Threads -> PCs]
  /\ goal' \in [Threads -> Goals]
  /\ hnd' \in [Threads -> Handles \cup {NoHandle}]

Mine(t) ==
  \A u \in Threads \ {t} : pc'[u] = pc[u] /\ goal'[u] = goal[u] /\ hnd'[u] = hnd[u]

\* A step of one thread does not disturb the others as long as it makes no
\* handle, opens none and takes the monitor only when it is free.
LEMMA Frame ==
  ASSUME IInv, NEW t \in Threads, ThreadTypes, Mine(t), Control(t)',
         UNCHANGED handleConn,
         isClosed' \in [Handles -> BOOLEAN], \A h \in Handles : isClosed[h] => isClosed'[h],
         \/ poolLock' = poolLock
         \/ poolLock = NoThread /\ poolLock' = t
         \/ poolLock = t /\ poolLock' = NoThread,
         available' \in Nat, autoCommit' \in BOOLEAN, inTx' \in BOOLEAN, pending' \in SUBSET Handles,
         orderly' \in BOOLEAN, listening' \in BOOLEAN, physicalConn' \in {"open", "closed", "null"}
  PROVE  IInv'
<1>1. TypeOK'
  BY DEF IInv, TypeOK, ThreadTypes
<1>2. OneOpenHandle'
  BY DEF IInv, OneOpenHandle, TypeOK
<1>3. ASSUME NEW u \in Threads, u # t PROVE Control(u)'
  <2>1. Control(u) /\ pc'[u] = pc[u] /\ goal'[u] = goal[u] /\ hnd'[u] = hnd[u]
        /\ hnd[u] \in Handles \cup {NoHandle}
    BY <1>3 DEF IInv, Mine, TypeOK
  <2>2. goal[u] = "reuse" => poolLock' = u
    BY <1>3, <2>1, PoolAssumption DEF Control
  <2>3. poolLock' = u => poolLock = u
    BY <1>3, PoolAssumption
  <2> QED BY <2>1, <2>2, <2>3 DEF Control
<1> QED BY <1>1, <1>2, <1>3 DEF IInv

\* The ways a thread moves.
LEMMA GotoMoves ==
  ASSUME IInv, NEW t \in Threads, NEW at \in PCs, Goto(t, at)
  PROVE  ThreadTypes /\ Mine(t) /\ pc'[t] = at /\ goal'[t] = goal[t] /\ hnd'[t] = hnd[t]
BY DEF IInv, TypeOK, Goto, ThreadTypes, Mine

LEMMA FinishMoves ==
  ASSUME IInv, NEW t \in Threads, NEW h \in Handles \cup {NoHandle}, Finish(t, h)
  PROVE  ThreadTypes /\ Mine(t) /\ pc'[t] = "idle" /\ goal'[t] = "call" /\ hnd'[t] = h
BY DEF IInv, TypeOK, Finish, ThreadTypes, Mine, PCs, Goals

LEMMA StartMoves ==
  ASSUME IInv, NEW t \in Threads, NEW at \in PCs, NEW g \in Goals,
         NEW h \in Handles \cup {NoHandle}, Start(t, at, g, h)
  PROVE  ThreadTypes /\ Mine(t) /\ pc'[t] = at /\ goal'[t] = g /\ hnd'[t] = h /\ pc[t] = "idle"
BY DEF IInv, TypeOK, Start, ThreadTypes, Mine

\* Steps in the middle of a call: they go on, end or throw.
Moves(t, at) ==
  \/ Goto(t, at) /\ (at = "mark" => goal[t] # "call") /\ UNCHANGED poolVars
  \/ Continue(t, at)
  \/ Throw(t)
  \/ Finish(t, hnd[t]) /\ goal[t] = "call" /\ UNCHANGED poolVars

LEMMA MiddleStep ==
  ASSUME IInv, NEW t \in Threads, NEW at \in {"setAuto", "rollback", "begin", "commit", "mark"}, Moves(t, at),
         pc[t] \notin {"idle", "create", "shut"}, UNCHANGED <<handleVars, physicalConn>>,
         autoCommit' \in BOOLEAN, inTx' \in BOOLEAN, pending' \in SUBSET Handles,
         orderly' \in BOOLEAN
  PROVE  IInv'
<1>1. Control(t) /\ hnd[t] \in Handles \cup {NoHandle} /\ goal[t] \in Goals
  BY DEF IInv, TypeOK
<1>2. UNCHANGED <<handleConn, isClosed, physicalConn>>
  BY DEF handleVars
<1>3. CASE Goto(t, at) /\ (at = "mark" => goal[t] # "call") /\ UNCHANGED poolVars
  <2>1. ThreadTypes /\ Mine(t) /\ pc'[t] = at /\ goal'[t] = goal[t] /\ hnd'[t] = hnd[t]
    BY <1>3, GotoMoves DEF PCs, Calls
  <2>2. Control(t)'
    BY <1>1, <1>2, <1>3, <2>1 DEF Control, poolVars
  <2> QED BY <1>2, <1>3, <2>1, <2>2, Frame DEF poolVars, IInv, TypeOK
<1>4. CASE Finish(t, hnd[t]) /\ goal[t] = "call" /\ UNCHANGED poolVars
  <2>1. ThreadTypes /\ Mine(t) /\ pc'[t] = "idle" /\ goal'[t] = "call"
    BY <1>1, <1>4, FinishMoves
  <2>2. Control(t)'
    BY <1>1, <1>4, <2>1 DEF Control, poolVars
  <2> QED BY <1>2, <1>4, <2>1, <2>2, Frame DEF poolVars, IInv, TypeOK
<1>5. CASE Throw(t)
  <2>1. ThreadTypes /\ Mine(t) /\ pc'[t] = "idle" /\ goal'[t] = "call"
    BY <1>1, <1>5, FinishMoves DEF Throw
  <2>2. /\ UNCHANGED <<available, listening>>
        /\ poolLock' = poolLock \/ (poolLock = t /\ poolLock' = NoThread)
    <3>1. CASE goal[t] = "reuse"
      BY <1>1, <1>5, <3>1 DEF Throw, Control
    <3>2. CASE goal[t] # "reuse"
      BY <1>5, <3>2 DEF Throw
    <3> QED BY <3>1, <3>2
  <2>3. Control(t)'
    <3>1. poolLock' # t
      BY <1>1, <1>5, PoolAssumption DEF Throw, Control
    <3> QED BY <2>1, <3>1 DEF Control
  <2> QED BY <1>2, <2>1, <2>2, <2>3, Frame DEF IInv, TypeOK
<1> QED BY <1>3, <1>4, <1>5 DEF Moves, Continue

LEMMA PhysicalSteps ==
  ASSUME IInv, NEW t \in Threads,
         \/ GetAuto(t) \/ SetAutoFalse(t) \/ Begin(t) \/ Write(t) \/ Rollback(t)
         \/ CommitTx(t) \/ SetAuto(t) \/ CommitAuto(t) \/ Refused(t)
  PROVE  IInv'
<1>1. /\ pc[t] \in Calls \cup {"getAuto", "begin", "commit"} /\ UNCHANGED <<handleVars, physicalConn>>
      /\ autoCommit' \in BOOLEAN /\ inTx' \in BOOLEAN /\ pending' \in SUBSET Handles
      /\ orderly' \in BOOLEAN
  <2>1. autoCommit \in BOOLEAN /\ inTx \in BOOLEAN /\ pending \in SUBSET Handles
        /\ orderly \in BOOLEAN
        /\ hnd[t] \in Handles \cup {NoHandle} /\ Control(t)
    BY DEF IInv, TypeOK
  <2>2. pc[t] = "write" => hnd[t] \in Handles
    BY <2>1 DEF Control
  <2> QED BY <2>1, <2>2 DEF GetAuto, SetAutoFalse, Begin, Write, Rollback, CommitTx, SetAuto,
             CommitAuto, Refused, SqlCommit, handleVars, physicalVars, Calls
<1>2. \E at \in {"setAuto", "rollback", "begin", "commit", "mark"} : Moves(t, at)
  <2>1. goal[t] \in Goals
    BY DEF IInv, TypeOK
  <2>2. pc[t] \in {"setAutoFalse", "write"} => goal[t] = "call"
    BY DEF IInv, Control
  <2>3. GetAuto(t) => Moves(t, "setAuto") \/ Moves(t, "rollback")
    BY DEF GetAuto, Moves
  <2>4. SetAutoFalse(t) => Moves(t, "begin")
    BY <2>2 DEF SetAutoFalse, Moves
  <2>5. Begin(t) => Moves(t, "setAuto")
    BY DEF Begin, Moves
  <2>6. Write(t) => Moves(t, "begin")
    BY <2>2 DEF Write, Moves
  <2>7. Rollback(t) => Moves(t, "begin")
    BY DEF Rollback, Moves
  <2>8. CommitTx(t) => Moves(t, "begin")
    BY DEF CommitTx, Moves
  <2>9. SetAuto(t) => Moves(t, "mark") \/ Moves(t, "commit")
    BY DEF SetAuto, Moves
  <2>10. CommitAuto(t) => Moves(t, "mark")
    BY DEF CommitAuto, Moves
  <2>11. Refused(t) => Moves(t, "mark")
    BY DEF Refused, Moves
  <2> QED BY <2>3, <2>4, <2>5, <2>6, <2>7, <2>8, <2>9, <2>10, <2>11
<1> QED BY <1>1, <1>2, MiddleStep DEF PCs, Calls

LEMMA ClientSteps ==
  ASSUME IInv, NEW t \in Threads,
         CloseHandle(t) \/ CloseAgain(t) \/ Dispose(t) \/ \E call \in Calls : Invoke(t, call)
  PROVE  IInv'
<1>1. PICK at \in Calls \cup {"check"}, g \in {"call", "close", "dispose"}, h \in Handles :
        Start(t, at, g, h) /\ (at \in Calls <=> g = "call")
  BY DEF CloseHandle, CloseAgain, Dispose, Invoke, IInv, TypeOK, Calls
<1>2. /\ ThreadTypes /\ Mine(t) /\ pc'[t] = at /\ goal'[t] = g /\ hnd'[t] = h
      /\ poolLock # t
  <2>1. ThreadTypes /\ Mine(t) /\ pc'[t] = at /\ goal'[t] = g /\ hnd'[t] = h /\ pc[t] = "idle"
    BY <1>1, StartMoves DEF PCs, Calls, Goals
  <2> QED BY <2>1 DEF IInv, Control
<1>3. /\ UNCHANGED <<poolLock, available, handleConn, isClosed, physicalConn, autoCommit, inTx, pending>>
      /\ orderly' \in {FALSE, orderly} /\ listening' \in {FALSE, listening}
  BY DEF CloseHandle, CloseAgain, Dispose, Invoke, poolVars, handleVars, physicalVars
<1>4. Control(t)'
  BY <1>1, <1>2, <1>3, PoolAssumption DEF Control, Calls
<1> QED BY <1>2, <1>3, <1>4, Frame DEF IInv, TypeOK

\* The client closes the physical connection, or learns that it is closed.
LEMMA QuietSteps ==
  ASSUME IInv, NEW t \in Threads, ClosePhysical(t) \/ IsClosed(t)
  PROVE  IInv'
<1>1. /\ UNCHANGED <<pc, goal, hnd, poolLock, available, listening, handleConn, autoCommit, orderly>>
      /\ hnd[t] \in Handles
  BY DEF ClosePhysical, IsClosed, poolVars, handleVars, physicalVars, IInv, TypeOK
<1>2. ThreadTypes /\ Mine(t)
  BY <1>1 DEF ThreadTypes, Mine, IInv, TypeOK
<1>3. /\ isClosed' \in [Handles -> BOOLEAN] /\ \A h \in Handles : isClosed[h] => isClosed'[h]
      /\ physicalConn' \in {"open", "closed", "null"} /\ inTx' \in BOOLEAN
      /\ pending' \in SUBSET Handles
  BY <1>1 DEF ClosePhysical, IsClosed, poolVars, handleVars, physicalVars, IInv, TypeOK
<1>4. Control(t)'
  <2>1. pc[t] = "idle" /\ Control(t)
    BY DEF ClosePhysical, IsClosed, IInv
  <2> QED BY <1>1, <2>1 DEF Control
<1> QED BY <1>1, <1>2, <1>3, <1>4, Frame DEF IInv, TypeOK

LEMMA ShutStep ==
  ASSUME IInv, NEW t \in Threads, Shut(t)
  PROVE  IInv'
<1>1. /\ Finish(t, NoHandle)
      /\ UNCHANGED <<poolLock, available, listening, handleConn, isClosed, autoCommit, orderly>>
      /\ physicalConn' = "null" /\ inTx' = FALSE /\ pending' = {}
  BY DEF Shut, poolVars, handleVars
<1>2. ThreadTypes /\ Mine(t) /\ pc'[t] = "idle" /\ goal'[t] = "call"
  BY <1>1, FinishMoves
<1>3. Control(t)'
  <2>1. poolLock # t
    BY DEF Shut, IInv, Control
  <2> QED BY <1>1, <1>2, <2>1 DEF Control
<1> QED BY <1>1, <1>2, <1>3, Frame DEF IInv, TypeOK

LEMMA DiscardStep ==
  ASSUME IInv, NEW t \in Threads, Discard(t)
  PROVE  IInv'
<1>1. PICK at \in {"shut", "check"} :
        Start(t, at, "discard", handleConn) /\ (at = "shut" <=> handleConn = NoHandle)
  BY DEF Discard
<1>2. handleConn \in Handles \cup {NoHandle} /\ available' \in Nat /\ listening' \in BOOLEAN
  BY DEF Discard, IInv, TypeOK
<1>3. /\ ThreadTypes /\ Mine(t) /\ pc'[t] = at /\ goal'[t] = "discard" /\ hnd'[t] = handleConn
      /\ pc[t] = "idle"
  BY <1>1, <1>2, StartMoves DEF PCs, Calls, Goals
<1>4. /\ poolLock' = poolLock /\ poolLock # t
      /\ UNCHANGED <<handleConn, isClosed, physicalConn, autoCommit, inTx, pending, orderly>>
  BY PoolAssumption DEF Discard, handleVars, physicalVars
<1>5. Control(t)'
  BY <1>1, <1>3, <1>4 DEF Control
<1> QED BY <1>2, <1>3, <1>4, <1>5, Frame DEF IInv, TypeOK

LEMMA TakeStep ==
  ASSUME IInv, NEW t \in Threads, Take(t)
  PROVE  IInv'
<1>1. PICK at \in {"create", "check"} :
        Start(t, at, "reuse", handleConn) /\ (at = "create" <=> handleConn = NoHandle)
  BY DEF Take
<1>2. handleConn \in Handles \cup {NoHandle} /\ available' \in Nat
  BY DEF Take, IInv, TypeOK
<1>3. ThreadTypes /\ Mine(t) /\ pc'[t] = at /\ goal'[t] = "reuse" /\ hnd'[t] = handleConn
  BY <1>1, <1>2, StartMoves DEF PCs, Calls, Goals
<1>4. /\ poolLock = NoThread /\ poolLock' = t
      /\ UNCHANGED <<listening, handleConn, isClosed, physicalConn, autoCommit, inTx, pending, orderly>>
  BY DEF Take, handleVars, physicalVars
<1>5. Control(t)'
  BY <1>1, <1>3, <1>4 DEF Control
<1> QED BY <1>2, <1>3, <1>4, <1>5, Frame DEF IInv, TypeOK

LEMMA CloseSteps ==
  ASSUME IInv, NEW t \in Threads, Check(t) \/ Mark(t) \/ Notify(t)
  PROVE  IInv'
<1>0. Control(t) /\ hnd[t] \in Handles /\ goal[t] \in Goals
  BY DEF IInv, TypeOK, Control, Check, Mark, Notify
<1>1. PICK at \in {"create", "getAuto", "notify", "shut"} :
        \/ Goto(t, at) /\ (at = "create" => goal[t] = "reuse" /\ isClosed'[hnd[t]])
                       /\ (at = "notify" => isClosed'[hnd[t]])
                       /\ (at = "shut" => goal[t] \in {"dispose", "discard"})
        \/ Finish(t, NoHandle) /\ goal[t] = "close"
  BY <1>0 DEF Check, Mark, Notify, Closed, Control, handleVars, IInv, TypeOK
<1>2. /\ UNCHANGED <<handleConn, poolLock, listening, physicalConn, autoCommit, inTx, pending, orderly>>
      /\ isClosed' \in [Handles -> BOOLEAN] /\ \A h \in Handles : isClosed[h] => isClosed'[h]
      /\ available' \in Nat
  <2>1. /\ handleConn' = handleConn /\ UNCHANGED <<physicalConn, autoCommit, inTx, pending, orderly>>
        /\ poolLock' = poolLock /\ listening' = listening
    BY DEF Check, Mark, Notify, poolVars, handleVars, physicalVars
  <2>2. available' \in Nat
    BY PoolAssumption DEF Check, Mark, Notify, poolVars, IInv, TypeOK
  <2>3. CASE Mark(t)
    BY <1>0, <2>1, <2>2, <2>3 DEF Mark, IInv, TypeOK
  <2>4. CASE Check(t) \/ Notify(t)
    <3>1. isClosed' = isClosed
      BY <2>4 DEF Check, Notify, handleVars
    <3> QED BY <2>1, <2>2, <3>1 DEF IInv, TypeOK
  <2> QED BY <2>3, <2>4
<1>3. CASE Goto(t, at) /\ (at = "create" => goal[t] = "reuse" /\ isClosed'[hnd[t]])
                       /\ (at = "notify" => isClosed'[hnd[t]])
                       /\ (at = "shut" => goal[t] \in {"dispose", "discard"})
  <2>1. ThreadTypes /\ Mine(t) /\ pc'[t] = at /\ goal'[t] = goal[t] /\ hnd'[t] = hnd[t]
    BY <1>3, GotoMoves DEF PCs, Calls
  <2>2. Control(t)'
    <3>1. pc[t] \in {"check", "mark", "notify"}
      BY DEF Check, Mark, Notify
    <3> QED BY <1>0, <1>2, <1>3, <2>1, <3>1, PoolAssumption DEF Control
  <2> QED BY <1>2, <2>1, <2>2, Frame DEF IInv, TypeOK
<1>4. CASE Finish(t, NoHandle) /\ goal[t] = "close"
  <2>1. ThreadTypes /\ Mine(t) /\ pc'[t] = "idle" /\ goal'[t] = "call"
    BY <1>4, FinishMoves
  <2>2. Control(t)'
    BY <1>0, <1>2, <1>4, <2>1 DEF Control
  <2> QED BY <1>2, <2>1, <2>2, Frame DEF IInv, TypeOK
<1> QED BY <1>1, <1>3, <1>4

\* A new handle is made only by the holder of the monitor, over a closed one.
LEMMA CreateStep ==
  ASSUME IInv, NEW t \in Threads, NEW h \in Handles, Create(t, h)
  PROVE  IInv'
<1>1. /\ goal[t] = "reuse" /\ poolLock = t /\ hnd[t] = handleConn
      /\ handleConn # NoHandle => isClosed[handleConn]
  BY DEF Create, IInv, Control
<1>2. /\ handleConn' = h /\ isClosed' = [isClosed EXCEPT ![h] = FALSE] /\ poolLock' = NoThread
      /\ Finish(t, h)
      /\ UNCHANGED <<available, listening, physicalConn, autoCommit, inTx, pending, orderly>>
      /\ \A u \in Threads : hnd[u] # h
  BY DEF Create, physicalVars
<1>3. ThreadTypes /\ Mine(t) /\ pc'[t] = "idle" /\ goal'[t] = "call" /\ hnd'[t] = h
  BY <1>2, FinishMoves
<1>4. TypeOK'
  BY <1>2, <1>3 DEF ThreadTypes, IInv, TypeOK
<1>5. OneOpenHandle'
  BY <1>1, <1>2, PoolAssumption DEF IInv, OneOpenHandle, TypeOK
<1>6. ASSUME NEW u \in Threads PROVE Control(u)'
  <2>0. poolLock' # u
    BY <1>2, PoolAssumption
  <2>1. CASE u = t
    BY <1>3, <2>0, <2>1 DEF Control
  <2>2. CASE u # t
    <3>1. pc'[u] = pc[u] /\ goal'[u] = goal[u] /\ hnd'[u] = hnd[u] /\ Control(u)
          /\ hnd[u] \in Handles \cup {NoHandle} /\ hnd[u] # h
      BY <1>2, <1>3, <2>2 DEF Mine, IInv, TypeOK
    <3>2. goal[u] # "reuse"
      BY <1>1, <2>2, <3>1 DEF Control
    <3>3. hnd[u] # NoHandle => isClosed'[hnd[u]] = isClosed[hnd[u]]
      BY <1>2, <3>1 DEF IInv, TypeOK
    <3> QED BY <2>0, <3>1, <3>2, <3>3 DEF Control
  <2> QED BY <2>1, <2>2
<1> QED BY <1>4, <1>5, <1>6 DEF IInv

\* The invariant holds in every reachable state, for any number of threads and
\* handles, whatever fails and whoever closes.
THEOREM Invariant == Spec => []IInv
<1>1. IInv /\ [Next]_vars => IInv'
  <2>1. ASSUME IInv, Next PROVE IInv'
    <3>1. PICK t \in Threads :
            \/ Take(t) \/ Discard(t) \/ CloseHandle(t) \/ CloseAgain(t) \/ Dispose(t)
            \/ ClosePhysical(t) \/ IsClosed(t) \/ (\E call \in Calls : Invoke(t, call)) \/ Step(t)
      BY <2>1 DEF Next
    <3> QED BY <2>1, <3>1, TakeStep, DiscardStep, ClientSteps, QuietSteps, CloseSteps, CreateStep,
               PhysicalSteps, ShutStep DEF Step
  <2>2. ASSUME IInv, UNCHANGED vars PROVE IInv'
    BY <2>2 DEF IInv, TypeOK, OneOpenHandle, Control, vars, poolVars, handleVars, physicalVars
  <2> QED BY <2>1, <2>2
<1> QED BY <1>1, InitInv, PTL DEF Spec

\* Every field keeps its type.
THEOREM TypeCorrect == Spec => []TypeOK
BY Invariant, PTL DEF IInv

\* Only the handle getConnection made last is ever open, also when several
\* threads close one handle at the same time and the pool is told twice.
THEOREM OneOpenHandleHolds == Spec => []OneOpenHandle
BY Invariant, PTL DEF IInv

-----------------------------------------------------------------------------
(* The lease, as long as the pool is used in an orderly way.                *)

Active(t) == pc[t] # "idle" \/ hnd[t] # NoHandle
AllClosed == \A h \in Handles : isClosed[h]
Clean     == autoCommit /\ ~inTx /\ pending = {}

\* The thread has the connection through the open handle h.
Leased(t, h) ==
  /\ hnd[t] = h /\ h \in Handles /\ goal[t] \in {"call", "close", "dispose"}
  /\ ~isClosed[h] /\ \A g \in Handles \ {h} : isClosed[g]
  /\ pc[t] \notin {"notify", "create", "shut"}
  /\ goal[t] = "dispose" => ~listening
  /\ pending \subseteq {h}
  /\ pending # {} => inTx
  /\ inTx => physicalConn = "open"
  /\ autoCommit /\ inTx => pc[t] = "commit"
  /\ pc[t] = "begin" => ~inTx /\ ~autoCommit
  /\ pc[t] = "commit" => autoCommit
  /\ pc[t] \in {"setAuto", "commit"} /\ goal[t] # "call" => pending = {}
  /\ pc[t] = "mark" => goal[t] # "call" /\ Clean /\ physicalConn = "open"

\* The thread is inside getConnection, or has closed its handle and is about
\* to tell the pool.
Between(t) ==
  /\ AllClosed /\ Clean /\ physicalConn = "open"
  /\ \/ goal[t] = "reuse" /\ pc[t] \in {"check", "create"} /\ (pc[t] = "check" => hnd[t] \in Handles)
     \/ goal[t] \in {"close", "dispose"} /\ pc[t] = "notify" /\ (goal[t] = "dispose" => ~listening)

\* The thread has a closed handle that will not come back to the pool: it is
\* about to close the physical connection, or has learnt that it is closed.
Ending(t) ==
  /\ AllClosed /\ ~inTx /\ pending = {}
  /\ goal[t] # "reuse" /\ pc[t] \in {"idle", "check", "shut"}
  /\ pc[t] # "shut" => hnd[t] \in Handles /\ (physicalConn = "open" => goal[t] = "discard")

Free == available = 1 /\ AllClosed /\ Clean /\ physicalConn = "open" /\ \A t \in Threads : ~Active(t)

Gone == available = 0 /\ AllClosed /\ pending = {} /\ \A t \in Threads : ~Active(t)

Sole(t) == \A u \in Threads \ {t} : ~Active(u)

SInv ==
  /\ TypeOK
  /\ \/ Free \/ Gone
     \/ /\ available = 0
        /\ \E t \in Threads :
             /\ Active(t) /\ Sole(t)
             /\ Between(t) \/ Leased(t, hnd[t]) \/ Ending(t)

LeaseStep ==
  \/ \E h \in Handles :
       Lease!Lend(h) \/ Lease!Work(h) \/ Lease!Settle(h) \/ Lease!Return(h) \/ Lease!Break(h)
  \/ Lease!Retire
  \/ UNCHANGED <<Lessee, pending, physicalConn>>

\* Disorder is never forgotten.
LEMMA OrderlyBefore ==
  ASSUME TypeOK, [Next]_vars, orderly' = TRUE
  PROVE  orderly = TRUE
<1>1. CASE UNCHANGED vars
  BY <1>1 DEF vars, physicalVars
<1>2. ASSUME NEW t \in Threads, Step(t)
      PROVE  orderly = TRUE
  BY <1>2 DEF Step, Create, Check, GetAuto, Mark, Notify, SetAutoFalse, Begin, Write, Rollback,
     CommitTx, SqlCommit, SetAuto, CommitAuto, Refused, Shut, physicalVars, TypeOK
<1>3. ASSUME NEW t \in Threads,
             \/ Take(t) \/ Discard(t) \/ CloseHandle(t) \/ CloseAgain(t) \/ Dispose(t)
             \/ ClosePhysical(t) \/ IsClosed(t) \/ \E call \in Calls : Invoke(t, call)
      PROVE  orderly = TRUE
  BY <1>3 DEF Take, Discard, CloseHandle, CloseAgain, Dispose, ClosePhysical, IsClosed, Invoke,
     physicalVars
<1> QED BY <1>1, <1>2, <1>3 DEF Next

\* What the CHOOSE of the mapping gives.
LEMMA LesseeOpen ==
  ASSUME NEW h \in Handles, ~isClosed[h], \A g \in Handles \ {h} : isClosed[g]
  PROVE  Lessee = h
<1>1. \A g \in Handles : ~isClosed[g] <=> g = h
  OBVIOUS
<1> QED BY <1>1 DEF Lessee

LEMMA LesseeClosed == ASSUME AllClosed PROVE Lessee = NoHandle
BY DEF Lessee, AllClosed

\* Only the active thread moves.
LEMMA ActiveMoves ==
  ASSUME SInv, NEW t \in Threads, Active(t)
  PROVE  available = 0 /\ Sole(t) /\ (Between(t) \/ Leased(t, hnd[t]) \/ Ending(t))
BY DEF SInv, Free, Gone, Sole

LEMMA SoleStays ==
  ASSUME NEW t \in Threads, Sole(t), Mine(t)
  PROVE  Sole(t)'
BY DEF Sole, Mine, Active

LEMMA StaysLeased ==
  ASSUME SInv, NEW t \in Threads, Active(t), Mine(t), TypeOK', UNCHANGED available,
         NEW h \in Handles, hnd'[t] = h, Leased(t, h)'
  PROVE  SInv'
<1>1. available' = 0 /\ Sole(t)'
  BY ActiveMoves, SoleStays
<1>2. Active(t)'
  BY PoolAssumption DEF Active
<1> QED BY <1>1, <1>2 DEF SInv

\* Steps of a client call or of close while the handle is open: the changes
\* stay or are settled.
LEMMA LeasedStep ==
  ASSUME SInv, TypeOK', NEW t \in Threads, NEW h \in Handles, Leased(t, h),
         Mine(t), hnd'[t] = h, Leased(t, h)',
         UNCHANGED <<available, isClosed, physicalConn>>, pending' \in {pending, {}, {h}}
  PROVE  SInv' /\ LeaseStep
<1>1. Active(t) /\ hnd[t] = h
  BY PoolAssumption DEF Active, Leased
<1>2. SInv'
  BY <1>1, StaysLeased
<1>3. Lessee = h
  BY LesseeOpen DEF Leased
<1>4. Lessee' = Lessee
  BY DEF Lessee
<1>5. LeaseStep
  <2>1. pending' # {} => physicalConn = "open"
    BY DEF Leased
  <2> QED BY <1>3, <1>4, <2>1 DEF LeaseStep, Lease!Work, Lease!Settle
<1> QED BY <1>2, <1>5

LEMMA LeasedActions ==
  ASSUME orderly' = TRUE, IInv, IInv', SInv, NEW t \in Threads, NEW h \in Handles, Leased(t, h),
         \/ CloseHandle(t) \/ Dispose(t) \/ Refused(t) \/ (\E call \in Calls : Invoke(t, call))
         \/ Check(t) \/ GetAuto(t) \/ SetAutoFalse(t) \/ Begin(t) \/ Write(t) \/ Rollback(t)
         \/ CommitTx(t) \/ SetAuto(t) \/ CommitAuto(t)
  PROVE  SInv' /\ LeaseStep
<1>1. /\ hnd[t] = h /\ goal[t] \in {"call", "close", "dispose"} /\ ~isClosed[h] /\ h # NoHandle
      /\ Control(t) /\ autoCommit \in BOOLEAN /\ inTx \in BOOLEAN
  BY PoolAssumption DEF Leased, IInv, TypeOK
<1>2. /\ UNCHANGED isClosed
      /\ CloseHandle(t) \/ Dispose(t) \/ Refused(t) \/ (\E call \in Calls : Invoke(t, call))
           \/ Check(t) \/ GetAuto(t)
         => UNCHANGED <<autoCommit, inTx, pending>>
      /\ physicalConn' = physicalConn
  BY DEF CloseHandle, Dispose, Refused, Invoke, Check, GetAuto, SetAutoFalse, Begin, Write, Rollback,
         CommitTx, SetAuto, CommitAuto, Closed, poolVars, handleVars, physicalVars
<1>3. UNCHANGED available /\ (listening' => listening)
  BY DEF CloseHandle, Dispose, Refused, Invoke, Check, GetAuto, SetAutoFalse, Begin, Write, Rollback,
         CommitTx, SetAuto, CommitAuto, Continue, Throw, poolVars
\* A step to another place, with the goal kept; or to the end of the call.
<1>4. ASSUME NEW at \in PCs, Goto(t, at)
      PROVE  Mine(t) /\ pc'[t] = at /\ goal'[t] = goal[t] /\ hnd'[t] = h
  BY <1>1, <1>4, GotoMoves
<1>5. ASSUME Throw(t) \/ Finish(t, hnd[t])
      PROVE  Mine(t) /\ pc'[t] = "idle" /\ goal'[t] = "call" /\ hnd'[t] = h
  <2>1. Finish(t, h)
    BY <1>1, <1>5 DEF Throw
  <2> QED BY <2>1, FinishMoves
<1>6. ASSUME NEW at \in PCs, NEW g \in Goals, Start(t, at, g, h)
      PROVE  Mine(t) /\ pc'[t] = at /\ goal'[t] = g /\ hnd'[t] = h /\ pc[t] = "idle"
  BY <1>6, StartMoves
<1>7. SUFFICES Mine(t) /\ hnd'[t] = h /\ Leased(t, h)' /\ pending' \in {pending, {}, {h}}
  BY <1>2, <1>3, LeasedStep DEF IInv
<1>8. CASE CloseHandle(t) \/ Dispose(t) \/ \E call \in Calls : Invoke(t, call)
  <2>1. PICK at \in Calls \cup {"check"}, g \in {"call", "close", "dispose"} :
          /\ Start(t, at, g, h) /\ (at \in Calls => g = "call")
          /\ g = "dispose" => ~listening'
    BY <1>1, <1>8 DEF CloseHandle, Dispose, Invoke, Calls
  <2>2. Mine(t) /\ pc'[t] = at /\ goal'[t] = g /\ hnd'[t] = h /\ pc[t] = "idle"
    BY <2>1, <1>6 DEF PCs, Calls, Goals
  <2>3. UNCHANGED <<isClosed, autoCommit, inTx, pending>>
    BY <1>2, <1>8
  <2> QED BY <1>2, <1>3, <2>1, <2>2, <2>3 DEF Leased, Calls
<1>9. CASE Check(t) \/ GetAuto(t)
  <2>1. PICK at \in {"getAuto", "setAuto", "rollback"} :
          Goto(t, at) /\ (at = "setAuto" => autoCommit)
    BY <1>1, <1>9 DEF Check, GetAuto
  <2>2. Mine(t) /\ pc'[t] = at /\ goal'[t] = goal[t] /\ hnd'[t] = h /\ pc[t] \in {"check", "getAuto"}
    BY <1>4, <1>9, <2>1 DEF PCs, Calls, Check, GetAuto
  <2>3. UNCHANGED <<isClosed, autoCommit, inTx, pending>>
    BY <1>2, <1>9
  <2> QED BY <1>2, <1>3, <2>1, <2>2, <2>3 DEF Leased
<1>10. CASE SetAutoFalse(t)
  <2>1. autoCommit' = FALSE /\ UNCHANGED <<isClosed, inTx, pending>> /\ pc[t] = "setAutoFalse"
    BY <1>2, <1>10 DEF SetAutoFalse
  <2>2. CASE autoCommit /\ Goto(t, "begin")
    <3>1. Mine(t) /\ pc'[t] = "begin" /\ goal'[t] = goal[t] /\ hnd'[t] = h
      BY <1>4, <2>2 DEF PCs
    <3> QED BY <1>2, <1>3, <2>1, <2>2, <3>1 DEF Leased
  <2>3. CASE ~autoCommit /\ Finish(t, hnd[t])
    BY <1>2, <1>3, <1>5, <2>1, <2>3 DEF Leased
  <2> QED BY <1>10, <2>2, <2>3 DEF SetAutoFalse
<1>11. CASE Begin(t)
  <2>1. UNCHANGED <<isClosed, autoCommit, pending>> /\ pc[t] = "begin" /\ ~inTx
        /\ ~autoCommit /\ pending = {} /\ physicalConn = "open"
    BY <1>2, <1>11 DEF Begin, Leased
  <2>2. CASE inTx' = TRUE /\ Goto(t, "setAuto")
    <3>1. Mine(t) /\ pc'[t] = "setAuto" /\ goal'[t] = goal[t] /\ hnd'[t] = h
      BY <1>4, <2>2 DEF PCs, Calls
    <3> QED BY <1>2, <1>3, <2>1, <2>2, <3>1 DEF Leased
  <2>3. CASE Throw(t) \/ Finish(t, hnd[t])
    BY <1>2, <1>3, <1>5, <2>1, <2>3 DEF Leased
  <2> QED BY <1>11, <2>1, <2>2, <2>3 DEF Begin, Continue
<1>12. CASE Write(t)
  <2>1. UNCHANGED <<isClosed, autoCommit>> /\ pc[t] = "write" /\ Finish(t, hnd[t])
    BY <1>2, <1>12 DEF Write
  <2>2. \/ inTx' = inTx /\ pending' = {h} /\ inTx
        \/ inTx' = inTx /\ pending' = pending
        \/ inTx' = FALSE /\ pending' = {}
    BY <1>1, <1>12 DEF Write, Leased
  <2> QED BY <1>2, <1>3, <1>5, <2>1, <2>2 DEF Leased
<1>13. CASE Rollback(t) \/ CommitTx(t)
  <2>1. UNCHANGED <<isClosed, autoCommit>> /\ pc[t] \in {"rollback", "commitTx"}
    BY <1>2, <1>13 DEF Rollback, CommitTx
  <2>2. \/ inTx' = FALSE /\ pending' = {} /\ ~autoCommit /\ Goto(t, "begin")
        \/ UNCHANGED <<inTx, pending>> /\ Throw(t)
    BY <1>1, <1>13 DEF Rollback, CommitTx, SqlCommit, TypeOK, IInv
  <2>3. CASE inTx' = FALSE /\ pending' = {} /\ ~autoCommit /\ Goto(t, "begin")
    <3>1. Mine(t) /\ pc'[t] = "begin" /\ goal'[t] = goal[t] /\ hnd'[t] = h
      BY <1>4, <2>3 DEF PCs
    <3> QED BY <1>2, <1>3, <2>1, <2>3, <3>1 DEF Leased
  <2>4. CASE UNCHANGED <<inTx, pending>> /\ Throw(t)
    BY <1>2, <1>3, <1>5, <2>1, <2>4 DEF Leased
  <2> QED BY <2>2, <2>3, <2>4
<1>14. CASE SetAuto(t)
  <2>1. UNCHANGED <<isClosed, inTx, pending>> /\ pc[t] = "setAuto" /\ autoCommit' = TRUE
        /\ physicalConn = "open"
    BY <1>2, <1>14 DEF SetAuto
  <2>2. CASE autoCommit /\ Goto(t, "mark") /\ goal[t] # "call"
    <3>1. Mine(t) /\ pc'[t] = "mark" /\ goal'[t] = goal[t] /\ hnd'[t] = h
      BY <1>4, <2>2 DEF PCs
    <3> QED BY <1>2, <1>3, <2>1, <2>2, <3>1 DEF Leased, Clean
  <2>3. CASE autoCommit /\ Finish(t, hnd[t])
    BY <1>2, <1>3, <1>5, <2>1, <2>3 DEF Leased
  <2>4. CASE ~autoCommit /\ Goto(t, "commit")
    <3>1. Mine(t) /\ pc'[t] = "commit" /\ goal'[t] = goal[t] /\ hnd'[t] = h
      BY <1>4, <2>4 DEF PCs
    <3> QED BY <1>2, <1>3, <2>1, <2>4, <3>1 DEF Leased
  <2> QED BY <1>1, <1>14, <2>2, <2>3, <2>4 DEF SetAuto, Continue
<1>15. CASE CommitAuto(t)
  <2>1. UNCHANGED <<isClosed, autoCommit>> /\ pc[t] = "commit" /\ autoCommit /\ physicalConn = "open"
    BY <1>2, <1>15 DEF CommitAuto, Leased
  <2>2. CASE inTx' = FALSE /\ pending' = {} /\ Goto(t, "mark") /\ goal[t] # "call"
    <3>1. Mine(t) /\ pc'[t] = "mark" /\ goal'[t] = goal[t] /\ hnd'[t] = h
      BY <1>4, <2>2 DEF PCs
    <3> QED BY <1>2, <1>3, <2>1, <2>2, <3>1 DEF Leased, Clean
  <2>3. CASE inTx' = FALSE /\ pending' \in {pending, {}} /\ (pending' # {} => inTx')
             /\ (Throw(t) \/ Finish(t, hnd[t]))
    BY <1>2, <1>3, <1>5, <2>1, <2>3 DEF Leased
  <2>4. \/ inTx' = FALSE /\ pending' = {} /\ Continue(t, "mark")
        \/ ~inTx /\ inTx' = inTx /\ pending' = pending /\ Throw(t)
    BY <1>1, <1>15 DEF CommitAuto, SqlCommit
  <2>5. ~inTx => pending = {}
    BY DEF Leased
  <2> QED BY <1>1, <2>2, <2>3, <2>4, <2>5 DEF Continue
<1>16. CASE Refused(t)
  <2>1. UNCHANGED <<isClosed, autoCommit, inTx, pending>> /\ Throw(t) /\ ~inTx
    BY <1>2, <1>16 DEF Refused, Leased
  <2> QED BY <1>2, <1>3, <1>5, <2>1 DEF Leased
<1> QED BY <1>8, <1>9, <1>10, <1>11, <1>12, <1>13, <1>14, <1>15, <1>16

LEMMA MarkLease ==
  ASSUME IInv, IInv', SInv, NEW t \in Threads, NEW h \in Handles, Leased(t, h), Mark(t)
  PROVE  SInv' /\ LeaseStep
<1>1. /\ pc[t] = "mark" /\ hnd[t] = h /\ goal[t] \in {"close", "dispose"} /\ Clean /\ ~isClosed[h]
      /\ physicalConn = "open" /\ (goal[t] = "dispose" => ~listening)
      /\ \A g \in Handles \ {h} : isClosed[g]
  BY DEF Leased, Mark
<1>2. /\ Goto(t, "notify") /\ isClosed' = [isClosed EXCEPT ![h] = TRUE]
      /\ UNCHANGED <<available, listening, physicalConn, autoCommit, inTx, pending>>
  BY <1>1 DEF Mark, poolVars, physicalVars
<1>3. Mine(t) /\ pc'[t] = "notify" /\ goal'[t] = goal[t]
  BY <1>1, <1>2, GotoMoves DEF PCs
<1>4. AllClosed'
  BY <1>1, <1>2 DEF AllClosed, IInv, TypeOK
<1>5. Active(t) /\ Active(t)'
  BY <1>1, <1>3 DEF Active
<1>6. Between(t)'
  <2>1. Clean'
    BY <1>1, <1>2 DEF Clean
  <2> QED BY <1>1, <1>2, <1>3, <1>4, <2>1 DEF Between
<1>7. available' = 0 /\ Sole(t)'
  BY <1>2, <1>3, <1>5, ActiveMoves, SoleStays
<1>8. SInv'
  BY <1>5, <1>6, <1>7 DEF SInv, IInv
<1>9. LeaseStep
  <2>1. Lessee = h
    BY <1>1, LesseeOpen
  <2>2. Lessee' = NoHandle
    BY <1>4 DEF Lessee, AllClosed
  <2>3. pending = {} /\ pending' = pending
    BY <1>1, <1>2 DEF Clean
  <2> QED BY <1>2, <2>1, <2>2, <2>3 DEF LeaseStep, Lease!Return
<1> QED BY <1>8, <1>9

\* Nothing the lease sees moves.
LEMMA ClosedStutters ==
  ASSUME AllClosed, AllClosed', UNCHANGED <<pending, physicalConn>>
  PROVE  LeaseStep
<1>1. Lessee = NoHandle
  BY LesseeClosed
<1>2. Lessee' = NoHandle
  BY DEF Lessee, AllClosed
<1> QED BY <1>1, <1>2 DEF LeaseStep

\* The thread goes on to close the physical connection, or the handle is gone.
LEMMA StaysEnding ==
  ASSUME SInv, NEW t \in Threads, Active(t), TypeOK', UNCHANGED available,
         AllClosed', ~inTx', pending' = {},
         Mine(t),
         \/ goal'[t] # "reuse" /\ pc'[t] = "shut"
         \/ /\ goal'[t] # "reuse" /\ pc'[t] \in {"idle", "check"} /\ hnd'[t] \in Handles
            /\ physicalConn' = "open" => goal'[t] = "discard"
         \/ pc'[t] = "idle" /\ hnd'[t] = NoHandle
  PROVE  SInv'
<1>1. available' = 0 /\ Sole(t)'
  BY ActiveMoves, SoleStays
<1>2. CASE pc'[t] = "idle" /\ hnd'[t] = NoHandle
  <2>1. \A u \in Threads : ~Active(u)'
    BY <1>1, <1>2 DEF Sole, Active
  <2> QED BY <1>1, <2>1 DEF SInv, Gone
<1>3. CASE goal'[t] # "reuse" /\ pc'[t] \in {"idle", "check", "shut"}
           /\ (pc'[t] # "shut" =>
                hnd'[t] \in Handles /\ (physicalConn' = "open" => goal'[t] = "discard"))
  <2>1. Active(t)' /\ Ending(t)'
    BY <1>3, PoolAssumption DEF Active, Ending
  <2> QED BY <1>1, <2>1 DEF SInv
<1> QED BY <1>2, <1>3

LEMMA NotifyLease ==
  ASSUME IInv, IInv', SInv, NEW t \in Threads, Active(t), Between(t), Notify(t)
  PROVE  SInv' /\ LeaseStep
<1>1. /\ available = 0 /\ Sole(t) /\ AllClosed /\ Clean /\ goal[t] \in {"close", "dispose"}
      /\ physicalConn = "open" /\ (goal[t] = "dispose" => ~listening)
  BY ActiveMoves DEF Between, Notify
<1>2. UNCHANGED <<isClosed, physicalConn, autoCommit, inTx, pending>>
  BY DEF Notify, handleVars, physicalVars
<1>3. AllClosed' /\ Clean'
  <2>1. AllClosed'
    BY <1>1, <1>2 DEF AllClosed
  <2>2. Clean'
    BY <1>1, <1>2 DEF Clean
  <2> QED BY <2>1, <2>2
<1>4. CASE goal[t] = "dispose" /\ Goto(t, "shut")
  <2>1. Mine(t) /\ pc'[t] = "shut" /\ goal'[t] = "dispose"
    BY <1>4, GotoMoves DEF PCs
  <2>2. UNCHANGED available
    BY <1>1, <1>4 DEF Notify
  <2> QED BY <1>1, <1>2, <1>3, <2>1, <2>2, StaysEnding, ClosedStutters DEF Clean, IInv
<1>5. CASE goal[t] = "close" /\ Finish(t, NoHandle)
  <2>1. Mine(t) /\ pc'[t] = "idle" /\ hnd'[t] = NoHandle
    BY <1>5, FinishMoves
  <2>2. CASE listening
    <3>1. available' = 1
      BY <1>1, <2>2, PoolAssumption DEF Notify
    <3>2. \A u \in Threads : ~Active(u)'
      BY <1>1, <2>1 DEF Sole, Mine, Active
    <3>3. SInv'
      BY <1>1, <1>2, <1>3, <3>1, <3>2 DEF SInv, Free, IInv
    <3> QED BY <1>1, <1>2, <1>3, <3>3, ClosedStutters
  <2>3. CASE ~listening
    <3>1. UNCHANGED available
      BY <2>3 DEF Notify
    <3> QED BY <1>1, <1>2, <1>3, <2>1, <3>1, StaysEnding, ClosedStutters DEF Clean, IInv
  <2> QED BY <2>2, <2>3
<1> QED BY <1>1, <1>4, <1>5 DEF Notify, Closed

LEMMA TakeLease ==
  ASSUME IInv, IInv', SInv, NEW t \in Threads, Take(t)
  PROVE  SInv' /\ LeaseStep
<1>1. Free
  BY DEF SInv, Take, Gone
<1>2. PICK at \in {"create", "check"} :
        Start(t, at, "reuse", handleConn) /\ (at = "create" <=> handleConn = NoHandle)
  BY DEF Take
<1>3. handleConn \in Handles \cup {NoHandle} /\ available' = 0
      /\ UNCHANGED <<isClosed, physicalConn, autoCommit, inTx, pending>>
  BY <1>1 DEF Free, Take, IInv, TypeOK, handleVars, physicalVars
<1>4. Mine(t) /\ pc'[t] = at /\ goal'[t] = "reuse" /\ hnd'[t] = handleConn
  BY <1>2, <1>3, StartMoves DEF PCs, Calls, Goals
<1>5. AllClosed' /\ Clean' /\ AllClosed
  <2>1. AllClosed' /\ AllClosed
    BY <1>1, <1>3 DEF Free, AllClosed
  <2>2. Clean'
    BY <1>1, <1>3 DEF Free, Clean
  <2> QED BY <2>1, <2>2
<1>6. Active(t)' /\ Sole(t)' /\ Between(t)'
  <2>1. Active(t)'
    BY <1>4 DEF Active
  <2>2. Sole(t)'
    BY <1>1, <1>4 DEF Sole, Free, Mine, Active
  <2>3. pc'[t] = "check" => hnd'[t] \in Handles
    BY <1>2, <1>3, <1>4
  <2> QED BY <1>1, <1>3, <1>4, <1>5, <2>1, <2>2, <2>3 DEF Between, Free
<1>7. SInv'
  BY <1>3, <1>6 DEF SInv, IInv
<1> QED BY <1>3, <1>5, <1>7, ClosedStutters

\* The pool has no more use for the connection.
LEMMA DiscardLease ==
  ASSUME IInv, IInv', SInv, NEW t \in Threads, Discard(t)
  PROVE  SInv' /\ LeaseStep
<1>1. Free
  BY DEF SInv, Discard, Gone
<1>2. PICK at \in {"shut", "check"} :
        Start(t, at, "discard", handleConn) /\ (at = "shut" <=> handleConn = NoHandle)
  BY DEF Discard
<1>3. handleConn \in Handles \cup {NoHandle} /\ available' = 0
      /\ UNCHANGED <<isClosed, physicalConn, autoCommit, inTx, pending>>
  BY <1>1 DEF Free, Discard, IInv, TypeOK, handleVars, physicalVars
<1>4. Mine(t) /\ pc'[t] = at /\ goal'[t] = "discard" /\ hnd'[t] = handleConn
  BY <1>2, <1>3, StartMoves DEF PCs, Calls, Goals
<1>5. AllClosed' /\ AllClosed /\ ~inTx' /\ pending' = {}
  BY <1>1, <1>3 DEF Free, AllClosed, Clean
<1>6. Active(t)' /\ Sole(t)' /\ Ending(t)'
  <2>1. Active(t)'
    BY <1>4 DEF Active
  <2>2. Sole(t)'
    BY <1>1, <1>4 DEF Sole, Free, Mine, Active
  <2> QED BY <1>2, <1>3, <1>4, <1>5, <2>1, <2>2 DEF Ending
<1>7. SInv'
  BY <1>3, <1>6 DEF SInv, IInv
<1> QED BY <1>3, <1>5, <1>7, ClosedStutters

\* getConnection finds the old handle closed.
LEMMA ReuseLease ==
  ASSUME IInv, IInv', SInv, NEW t \in Threads, Active(t), Between(t), Check(t)
  PROVE  SInv' /\ LeaseStep
<1>1. /\ available = 0 /\ Sole(t) /\ AllClosed /\ Clean /\ goal[t] = "reuse" /\ isClosed[hnd[t]]
      /\ physicalConn = "open"
  BY ActiveMoves DEF Between, Check, AllClosed
<1>2. Goto(t, "create") /\ UNCHANGED <<available, isClosed, physicalConn, autoCommit, inTx, pending>>
  BY <1>1 DEF Check, Closed, poolVars, handleVars, physicalVars
<1>3. Mine(t) /\ pc'[t] = "create" /\ goal'[t] = "reuse"
  BY <1>1, <1>2, GotoMoves DEF PCs
<1>4. AllClosed' /\ Clean'
  <2>1. AllClosed'
    BY <1>1, <1>2 DEF AllClosed
  <2>2. Clean'
    BY <1>1, <1>2 DEF Clean
  <2> QED BY <2>1, <2>2
<1>5. Active(t)' /\ Sole(t)' /\ Between(t)'
  <2>1. Active(t)'
    BY <1>3 DEF Active
  <2>2. Sole(t)'
    BY <1>1, <1>3, SoleStays
  <2> QED BY <1>1, <1>2, <1>3, <1>4, <2>1, <2>2 DEF Between
<1>6. SInv'
  BY <1>1, <1>2, <1>5 DEF SInv, IInv
<1> QED BY <1>1, <1>2, <1>4, <1>6, ClosedStutters

LEMMA CreateLease ==
  ASSUME IInv, IInv', SInv, NEW t \in Threads, NEW h \in Handles, Active(t), Between(t), Create(t, h)
  PROVE  SInv' /\ LeaseStep
<1>1. available = 0 /\ Sole(t) /\ AllClosed /\ Clean /\ physicalConn = "open"
  BY ActiveMoves DEF Between
<1>2. Finish(t, h) /\ isClosed' = [isClosed EXCEPT ![h] = FALSE]
      /\ UNCHANGED <<available, physicalConn, autoCommit, inTx, pending>>
  BY DEF Create, physicalVars
<1>3. Mine(t) /\ pc'[t] = "idle" /\ goal'[t] = "call" /\ hnd'[t] = h
  BY <1>2, FinishMoves
<1>4. ~isClosed'[h] /\ \A g \in Handles \ {h} : isClosed'[g]
  BY <1>1, <1>2 DEF AllClosed, IInv, TypeOK
<1>5. autoCommit' /\ ~inTx' /\ pending' = {} /\ pending = {}
  BY <1>1, <1>2 DEF Clean
<1>6. Leased(t, h)'
  BY <1>3, <1>4, <1>5 DEF Leased
<1>7. SInv'
  BY <1>2, <1>3, <1>6, StaysLeased DEF IInv
<1>8. LeaseStep
  <2>1. Lessee = NoHandle
    BY <1>1, LesseeClosed
  <2>2. \A g \in Handles : ~isClosed'[g] <=> g = h
    BY <1>4
  <2>3. Lessee' = h
    BY <2>2 DEF Lessee
  <2> QED BY <1>1, <1>2, <1>5, <2>1, <2>3 DEF LeaseStep, Lease!Lend
<1> QED BY <1>7, <1>8

\* Steps of a borrower whose handle is closed, and of whoever closes the
\* physical connection.
LEMMA EndingLease ==
  ASSUME orderly' = TRUE, IInv, IInv', SInv, NEW t \in Threads, Active(t), Ending(t),
         CloseHandle(t) \/ Dispose(t) \/ Check(t) \/ Shut(t)
  PROVE  SInv' /\ LeaseStep
<1>1. AllClosed /\ ~inTx /\ pending = {} /\ goal[t] # "reuse" /\ (pc[t] # "shut" => hnd[t] \in Handles)
  BY DEF Ending
<1>2. UNCHANGED <<available, isClosed>> /\ ~inTx' /\ pending' = {}
  <2>1. CASE Shut(t)
    BY <2>1 DEF Shut, poolVars, handleVars
  <2>2. CASE CloseHandle(t) \/ Dispose(t) \/ Check(t)
    <3>1. UNCHANGED <<available, isClosed, inTx, pending>>
      BY <2>2 DEF CloseHandle, Dispose, Check, poolVars, handleVars, physicalVars
    <3> QED BY <1>1, <3>1
  <2> QED BY <2>1, <2>2
<1>3. AllClosed'
  BY <1>1, <1>2 DEF AllClosed
<1>4. CASE CloseHandle(t) \/ Dispose(t)
  <2>1. PICK g \in {"close", "dispose"} : Start(t, "check", g, hnd[t]) /\ hnd[t] \in Handles
    BY <1>1, <1>4, PoolAssumption DEF CloseHandle, Dispose, Start
  <2>2. Mine(t) /\ pc[t] = "idle" /\ pc'[t] = "check" /\ goal'[t] # "reuse" /\ hnd'[t] \in Handles
    BY <2>1, StartMoves DEF PCs, Goals
  <2>3. UNCHANGED physicalConn
    BY <1>4 DEF CloseHandle, Dispose, physicalVars
  <2>4. physicalConn # "open"
    BY <2>2 DEF Ending, IInv, Control
  <2> QED BY <1>1, <1>2, <1>3, <2>2, <2>3, <2>4, StaysEnding, ClosedStutters DEF IInv
<1>5. CASE Check(t)
  <2>1. \/ Goto(t, "shut")
        \/ Finish(t, NoHandle)
    BY <1>1, <1>5 DEF Check, Closed, AllClosed
  <2>2. /\ Mine(t)
        /\ \/ goal'[t] # "reuse" /\ pc'[t] = "shut"
           \/ pc'[t] = "idle" /\ hnd'[t] = NoHandle
    BY <1>1, <2>1, GotoMoves, FinishMoves DEF PCs
  <2>3. UNCHANGED physicalConn
    BY <1>5 DEF Check, physicalVars
  <2> QED BY <1>1, <1>2, <1>3, <2>2, <2>3, StaysEnding, ClosedStutters DEF IInv
<1>6. CASE Shut(t)
  <2>1. Finish(t, NoHandle) /\ physicalConn' = "null"
    BY <1>6 DEF Shut
  <2>2. Mine(t) /\ pc'[t] = "idle" /\ hnd'[t] = NoHandle
    BY <2>1, FinishMoves
  <2>3. SInv'
    BY <1>1, <1>2, <1>3, <2>2, StaysEnding DEF IInv
  <2>4. Lessee = NoHandle /\ Lessee' = NoHandle
    <3>1. Lessee = NoHandle
      BY <1>1, LesseeClosed
    <3>2. Lessee' = NoHandle
      BY <1>3 DEF Lessee, AllClosed
    <3> QED BY <3>1, <3>2
  <2> QED BY <1>1, <1>2, <2>1, <2>3, <2>4 DEF LeaseStep, Lease!Retire
<1> QED BY <1>4, <1>5, <1>6

\* The borrower closes the physical connection itself, and may learn of it from
\* its handle.
LEMMA QuietLease ==
  ASSUME IInv, IInv', SInv, NEW t \in Threads, Leased(t, hnd[t]), ClosePhysical(t) \/ IsClosed(t)
  PROVE  SInv' /\ LeaseStep
<1>1. PICK h \in Handles : h = hnd[t]
  BY DEF Leased
<1>2. /\ UNCHANGED <<pc, goal, hnd, available, listening, autoCommit>>
      /\ pc[t] = "idle" /\ Active(t) /\ goal[t] = "call"
  BY <1>1, PoolAssumption DEF ClosePhysical, IsClosed, poolVars, physicalVars, Active, IInv, Control
<1>3. Mine(t)
  BY <1>2 DEF Mine
<1>4. Lessee = h
  BY <1>1, LesseeOpen DEF Leased
<1>5. CASE ClosePhysical(t)
  <2>1. physicalConn' = "closed" /\ ~inTx' /\ pending' = {} /\ UNCHANGED isClosed
    BY <1>5 DEF ClosePhysical, handleVars
  <2>2. Leased(t, h)'
    BY <1>1, <1>2, <2>1 DEF Leased
  <2>3. SInv'
    BY <1>1, <1>2, <1>3, <2>2, StaysLeased DEF IInv
  <2>4. Lessee' = Lessee
    BY <2>1 DEF Lessee
  <2> QED BY <1>4, <2>1, <2>3, <2>4 DEF LeaseStep, Lease!Break
<1>6. CASE IsClosed(t)
  <2>1. /\ physicalConn = "closed" /\ UNCHANGED <<physicalConn, inTx, pending>>
        /\ isClosed' = [isClosed EXCEPT ![h] = TRUE]
    BY <1>1, <1>6 DEF IsClosed, physicalVars
  <2>2. AllClosed' /\ ~inTx /\ pending = {}
    BY <1>1, <2>1 DEF Leased, AllClosed, IInv, TypeOK
  <2>3. SInv'
    BY <1>1, <1>2, <1>3, <2>1, <2>2, StaysEnding DEF IInv
  <2>4. Lessee' = NoHandle
    BY <2>2 DEF Lessee, AllClosed
  <2> QED BY <1>4, <2>1, <2>2, <2>3, <2>4 DEF LeaseStep, Lease!Return
<1> QED BY <1>5, <1>6

LEMMA InitLease == Init => SInv /\ Lease!Init
<1>1. ASSUME Init PROVE SInv /\ Lease!Init
  <2>1. TypeOK
    BY <1>1, InitInv DEF IInv
  <2>2. AllClosed /\ Clean /\ \A t \in Threads : ~Active(t)
    <3>1. AllClosed /\ \A t \in Threads : ~Active(t)
      BY <1>1 DEF Init, AllClosed, Active
    <3>2. Clean
      BY <1>1 DEF Init, Clean
    <3> QED BY <3>1, <3>2
  <2>3. SInv
    BY <1>1, <2>1, <2>2 DEF SInv, Free, Init
  <2>4. Lessee = NoHandle /\ pending = {} /\ orderly = TRUE /\ physicalConn = "open"
    BY <1>1, <2>2, LesseeClosed DEF Init
  <2> QED BY <2>3, <2>4 DEF Lease!Init
<1> QED BY <1>1

LEMMA LeaseNext ==
  ASSUME orderly' = TRUE, IInv, IInv', SInv, [Next]_vars
  PROVE  SInv' /\ LeaseStep
<1>1. CASE UNCHANGED vars
  <2>1. SInv'
    BY <1>1 DEF SInv, TypeOK, Free, Gone, AllClosed, Clean, Active, Sole, Between, Leased, Ending, vars,
       poolVars, handleVars, physicalVars
  <2>2. Lessee' = Lessee /\ pending' = pending /\ physicalConn' = physicalConn
    BY <1>1 DEF Lessee, vars, handleVars, physicalVars
  <2> QED BY <2>1, <2>2 DEF LeaseStep
<1>2. ASSUME NEW t \in Threads,
             \/ Take(t) \/ Discard(t) \/ CloseHandle(t) \/ CloseAgain(t) \/ Dispose(t)
             \/ ClosePhysical(t) \/ IsClosed(t) \/ (\E call \in Calls : Invoke(t, call)) \/ Step(t)
      PROVE  SInv' /\ LeaseStep
  <2>1. CASE Take(t)
    BY <2>1, TakeLease
  <2>2. CASE Discard(t)
    BY <2>2, DiscardLease
  <2>3. ~CloseAgain(t) /\ (Dispose(t) => hnd[t] = handleConn /\ hnd[t] # NoHandle)
    BY DEF CloseAgain, Dispose
  <2>4. CASE ~Take(t) /\ ~Discard(t)
    <3>1. Active(t)
      BY <1>2, <2>3, <2>4 DEF Active, CloseHandle, ClosePhysical, IsClosed, Invoke, Step, Create, Check,
         GetAuto, Mark, Notify, SetAutoFalse, Begin, Write, Rollback, CommitTx, SetAuto, CommitAuto,
         Refused, Shut, Calls
    <3>2. CASE Leased(t, hnd[t])
      <4>1. hnd[t] \in Handles /\ ~Notify(t) /\ ~Shut(t) /\ \A h \in Handles : ~Create(t, h)
        BY <3>2 DEF Leased, Notify, Shut, Create
      <4> QED BY <1>2, <2>3, <2>4, <3>2, <4>1, LeasedActions, MarkLease, QuietLease DEF Step
    <3>3. CASE Between(t)
      <4>1. pc[t] \in {"check", "create", "notify"}
        BY <3>3 DEF Between
      <4>2. Check(t) \/ Notify(t) \/ \E h \in Handles : Create(t, h)
        BY <1>2, <2>3, <2>4, <4>1 DEF CloseHandle, Dispose, ClosePhysical, IsClosed, Invoke, Start, Step,
           GetAuto, Mark, SetAutoFalse, Begin, Write, Rollback, CommitTx, SetAuto, CommitAuto, Refused,
           Shut, Calls
      <4> QED BY <3>1, <3>3, <4>2, ReuseLease, NotifyLease, CreateLease
    <3>4. CASE Ending(t)
      <4>1. /\ pc[t] \in {"idle", "check", "shut"} /\ (pc[t] # "shut" => isClosed[hnd[t]])
        BY <3>4 DEF Ending, AllClosed
      <4>2. CloseHandle(t) \/ Dispose(t) \/ Check(t) \/ Shut(t)
        BY <1>2, <2>3, <2>4, <4>1 DEF ClosePhysical, IsClosed, Invoke, Start, Step, Create, GetAuto, Mark,
           Notify, SetAutoFalse, Begin, Write, Rollback, CommitTx, SetAuto, CommitAuto, Refused, Calls
      <4> QED BY <3>1, <3>4, <4>2, EndingLease
    <3> QED BY <3>1, <3>2, <3>3, <3>4, ActiveMoves
  <2> QED BY <2>1, <2>2, <2>4
<1> QED BY <1>1, <1>2 DEF Next

\* The invariant of the lease.
OInv == orderly = TRUE => SInv

LEMMA OrderlyStep == IInv /\ IInv' /\ OInv /\ [Next]_vars => OInv'
<1>1. ASSUME IInv, IInv', OInv, [Next]_vars, orderly' = TRUE PROVE SInv'
  <2>1. orderly = TRUE
    BY <1>1, OrderlyBefore DEF IInv
  <2> QED BY <1>1, <2>1, LeaseNext DEF OInv
<1> QED BY <1>1 DEF OInv

THEOREM LeaseInvariant == Spec => []OInv
<1>1. Init => OInv
  BY InitLease DEF OInv
<1> QED BY <1>1, OrderlyStep, Invariant, PTL DEF Spec

\* As long as only its own thread closes a handle and no commit fails half-way,
\* the handles implement the lease: one borrower at a time, each on a clean
\* connection.
THEOREM KeepsLeaseHolds == Spec => KeepsLease
<1>1. IInv /\ IInv' /\ OInv /\ [Next]_vars => [Lease!Next]_(Lease!leaseVars)
  <2>1. ASSUME IInv, IInv', OInv, [Next]_vars, orderly' = TRUE
        PROVE  [Lease!Next]_(Lease!leaseVars)
    <3>1. orderly = TRUE
      BY <2>1, OrderlyBefore DEF IInv
    <3>2. LeaseStep
      BY <2>1, <3>1, LeaseNext DEF OInv
    <3> QED BY <2>1, <3>1, <3>2 DEF LeaseStep, Lease!Next, Lease!leaseVars
  <2>2. ASSUME IInv', orderly' # TRUE PROVE Lease!Next
    BY <2>2 DEF IInv, TypeOK, Lease!Next, Lease!Abuse
  <2> QED BY <2>1, <2>2
<1>2. Init => Lease!Init
  BY InitLease
<1> QED BY <1>1, <1>2, Invariant, LeaseInvariant, PTL DEF Spec, KeepsLease, Lease!Spec

\* The pool never holds a connection with a transaction or without
\* auto-commit, unless it was used in another way.
THEOREM ReturnedCleanHolds == Spec => []ReturnedClean
<1>1. OInv /\ IInv => ReturnedClean
  BY DEF OInv, SInv, Free, Gone, Clean, ReturnedClean, IInv, TypeOK
<1> QED BY <1>1, Invariant, LeaseInvariant, PTL

\* A close never resets the connection under another borrower, with the same
\* exception.
THEOREM ResetsOnceHolds == Spec => []ResetsOnce
<1>1. OInv /\ IInv => ResetsOnce
  BY DEF OInv, SInv, Free, Gone, Sole, Active, Between, Leased, Ending, ResetsOnce, IInv, TypeOK
<1> QED BY <1>1, Invariant, LeaseInvariant, PTL

-----------------------------------------------------------------------------
(* A close comes to its end.                                                *)

Given(t) == available > 0 \/ physicalConn # "open" \/ ~orderly \/ Stuck(t)

\* The thread is closing a handle, and has come to the call "at": with a
\* transaction to commit when it commits one.
Closing(t, at) ==
  /\ pc[t] = at /\ goal[t] \in {"close", "dispose", "discard"}
  /\ goal[t] = "close" => listening
  /\ at = "rollback" => ~autoCommit
  /\ at = "setAuto" => autoCommit \/ inTx
  /\ at = "commit" => inTx

Calling == {"check", "getAuto", "rollback", "begin", "setAuto", "commit", "mark", "notify", "shut"}

\* What comes after a call that does not throw.
After(at) ==
  CASE at = "check"    -> {"getAuto", "shut"}
    [] at = "getAuto"  -> {"rollback", "setAuto"}
    [] at = "rollback" -> {"begin"}
    [] at = "begin"    -> {"setAuto"}
    [] at = "setAuto"  -> {"commit", "mark"}
    [] at = "commit"   -> {"mark"}
    [] at = "mark"     -> {"notify"}
    [] at = "notify"   -> {"shut"}
    [] at = "shut"     -> {}

\* In an orderly pool a thread that closes is alone with the connection.
LEMMA ClosingAlone ==
  ASSUME IInv, OInv, NEW t \in Threads, NEW at \in Calling, Closing(t, at), ~Given(t)
  PROVE  /\ orderly = TRUE /\ available = 0 /\ physicalConn = "open"
         /\ Sole(t) /\ Control(t) /\ SInv
         /\ Between(t) \/ Leased(t, hnd[t]) \/ (Ending(t) /\ (goal[t] = "discard" \/ at = "shut"))
         /\ autoCommit \in BOOLEAN /\ inTx \in BOOLEAN
<1>1. /\ orderly = TRUE /\ available = 0 /\ physicalConn = "open" /\ SInv /\ Control(t)
      /\ autoCommit \in BOOLEAN /\ inTx \in BOOLEAN
  BY DEF Given, OInv, IInv, TypeOK
<1>2. Active(t)
  BY DEF Closing, Active, Calling
<1>3. Sole(t) /\ (Between(t) \/ Leased(t, hnd[t]) \/ Ending(t))
  BY <1>1, <1>2, ActiveMoves
<1>4. Ending(t) => goal[t] = "discard" \/ at = "shut"
  BY <1>1 DEF Ending, Closing
<1> QED BY <1>1, <1>3, <1>4

\* Each call of the close leads to the next, or the transaction is lost.
LEMMA ClosingStep ==
  ASSUME IInv, OInv, NEW t \in Threads, NEW at \in Calling, Closing(t, at), ~Given(t), Step(t)
  PROVE  (\E next \in After(at) : Closing(t, next)') \/ Given(t)'
<1>1. /\ orderly = TRUE /\ available = 0 /\ physicalConn = "open" /\ Control(t)
      /\ Between(t) \/ Leased(t, hnd[t]) \/ (Ending(t) /\ (goal[t] = "discard" \/ at = "shut"))
      /\ autoCommit \in BOOLEAN /\ inTx \in BOOLEAN
  BY ClosingAlone
<1>2. /\ pc[t] = at /\ goal[t] \in {"close", "dispose", "discard"} /\ (goal[t] = "close" => listening)
      /\ (at = "rollback" => ~autoCommit) /\ (at = "setAuto" => autoCommit \/ inTx)
      /\ (at = "commit" => inTx)
  BY DEF Closing
<1>3. ASSUME NEW next \in PCs, Goto(t, next), UNCHANGED listening
      PROVE  pc'[t] = next /\ goal'[t] \in {"close", "dispose", "discard"} /\ (goal'[t] = "close" => listening')
  BY <1>2, <1>3, GotoMoves
<1>4. at \in {"getAuto", "rollback", "begin", "setAuto", "commit", "mark"} => Leased(t, hnd[t])
  BY <1>1, <1>2 DEF Between, Ending
<1>5. CASE at = "check"
  <2>1. Check(t) /\ UNCHANGED listening
    BY <1>1, <1>2, <1>5 DEF Step, Create, GetAuto, Mark, Notify, SetAutoFalse, Begin, Write, Rollback,
       CommitTx, SetAuto, CommitAuto, Refused, Shut, Calls, Check, poolVars
  <2>2. CASE isClosed[hnd[t]]
    <3>1. goal[t] # "close" /\ goal[t] # "reuse"
      BY <1>1, <1>2, <1>5, <2>2 DEF Between, Leased
    <3>2. Goto(t, "shut")
      BY <2>1, <2>2, <3>1 DEF Check, Closed
    <3>3. Closing(t, "shut")'
      BY <1>3, <2>1, <3>2 DEF Closing, PCs
    <3> QED BY <1>5, <3>3 DEF After
  <2>3. CASE ~isClosed[hnd[t]]
    <3>1. Goto(t, "getAuto")
      BY <2>1, <2>3 DEF Check
    <3>2. Closing(t, "getAuto")'
      BY <1>3, <2>1, <3>1 DEF Closing, PCs
    <3> QED BY <1>5, <3>2 DEF After
  <2> QED BY <2>2, <2>3
<1>6. CASE at = "getAuto"
  <2>1. GetAuto(t) /\ UNCHANGED <<listening, autoCommit>>
    BY <1>1, <1>2, <1>6 DEF Step, Create, Check, Mark, Notify, SetAutoFalse, Begin, Write, Rollback,
       CommitTx, SetAuto, CommitAuto, Refused, Shut, Calls, GetAuto, poolVars, physicalVars
  <2>2. CASE autoCommit
    <3>1. Closing(t, "setAuto")'
      BY <1>3, <2>1, <2>2 DEF Closing, PCs, Calls, GetAuto
    <3> QED BY <1>6, <3>1 DEF After
  <2>3. CASE ~autoCommit
    <3>1. Closing(t, "rollback")'
      BY <1>3, <2>1, <2>3 DEF Closing, PCs, Calls, GetAuto
    <3> QED BY <1>6, <3>1 DEF After
  <2> QED BY <2>2, <2>3
<1>7. ASSUME at \in {"rollback", "begin"}, Throw(t), UNCHANGED <<autoCommit, inTx>>, ~autoCommit, ~inTx
      PROVE  Given(t)'
  <2>1. goal[t] # "discard" /\ goal[t] # "reuse" /\ hnd[t] \in Handles
    BY <1>4, <1>7 DEF Leased
  <2>2. Finish(t, hnd[t])
    BY <1>7, <2>1 DEF Throw
  <2>3. pc'[t] = "idle" /\ hnd'[t] = hnd[t]
    BY <2>1, <2>2, FinishMoves
  <2> QED BY <1>7, <2>1, <2>3, PoolAssumption DEF Given, Stuck
<1>8. CASE at = "rollback"
  <2>1. Rollback(t) /\ UNCHANGED <<listening, autoCommit>>
    BY <1>1, <1>2, <1>8 DEF Step, Create, Check, GetAuto, Mark, Notify, SetAutoFalse, Begin, Write,
       CommitTx, SetAuto, CommitAuto, Refused, Shut, Calls, Rollback, poolVars, Throw
  <2>2. CASE inTx
    <3>1. Goto(t, "begin")
      BY <1>2, <1>8, <2>1, <2>2 DEF Rollback
    <3>2. Closing(t, "begin")'
      BY <1>3, <2>1, <3>1 DEF Closing, PCs, Calls
    <3> QED BY <1>8, <3>2 DEF After
  <2>3. CASE ~inTx
    <3>1. Throw(t) /\ UNCHANGED inTx
      BY <2>1, <2>3 DEF Rollback
    <3> QED BY <1>2, <1>7, <1>8, <2>1, <2>3, <3>1
  <2> QED BY <2>2, <2>3
<1>9. CASE at = "begin"
  <2>1. Begin(t) /\ UNCHANGED autoCommit /\ ~inTx /\ ~autoCommit
    BY <1>1, <1>2, <1>4, <1>9 DEF Step, Create, Check, GetAuto, Mark, Notify, SetAutoFalse, Rollback, Write,
       CommitTx, SetAuto, CommitAuto, Refused, Shut, Calls, Begin, Leased
  <2>2. CASE inTx' = TRUE /\ Continue(t, "setAuto")
    <3>1. Goto(t, "setAuto") /\ UNCHANGED listening
      BY <1>2, <2>2 DEF Continue, poolVars
    <3>2. Closing(t, "setAuto")'
      BY <1>3, <2>2, <3>1 DEF Closing, PCs, Calls
    <3> QED BY <1>9, <3>2 DEF After
  <2>3. CASE Throw(t) /\ UNCHANGED inTx
    BY <1>7, <1>9, <2>1, <2>3
  <2> QED BY <2>1, <2>2, <2>3 DEF Begin
<1>10. CASE at = "setAuto"
  <2>1. SetAuto(t) /\ UNCHANGED inTx
    BY <1>1, <1>2, <1>10 DEF Step, Create, Check, GetAuto, Mark, Notify, SetAutoFalse, Rollback, Write,
       CommitTx, Begin, CommitAuto, Refused, Shut, Calls, SetAuto
  <2>2. CASE autoCommit
    <3>1. Goto(t, "mark") /\ UNCHANGED listening
      BY <1>2, <2>1, <2>2 DEF SetAuto, Continue, poolVars
    <3>2. Closing(t, "mark")'
      BY <1>3, <3>1 DEF Closing, PCs, Calls
    <3> QED BY <1>10, <3>2 DEF After
  <2>3. CASE ~autoCommit
    <3>1. Goto(t, "commit") /\ UNCHANGED listening
      BY <2>1, <2>3 DEF SetAuto, poolVars
    <3>2. Closing(t, "commit")'
      BY <1>2, <1>3, <1>10, <2>1, <2>3, <3>1 DEF Closing, PCs, Calls
    <3> QED BY <1>10, <3>2 DEF After
  <2> QED BY <2>2, <2>3
<1>11. CASE at = "commit"
  <2>1. CommitAuto(t)
    BY <1>1, <1>2, <1>11 DEF Step, Create, Check, GetAuto, Mark, Notify, SetAutoFalse, Rollback, Write,
       CommitTx, Begin, SetAuto, Refused, Shut, Calls
  <2>2. CASE inTx' = FALSE
    <3>1. Goto(t, "mark") /\ UNCHANGED listening
      BY <1>2, <1>11, <2>1, <2>2 DEF CommitAuto, Continue, poolVars
    <3>2. Closing(t, "mark")'
      BY <1>3, <3>1 DEF Closing, PCs, Calls
    <3> QED BY <1>11, <3>2 DEF After
  <2>3. CASE inTx' # FALSE
    <3>1. orderly' = FALSE
      BY <1>2, <1>11, <2>1, <2>3 DEF CommitAuto, SqlCommit
    <3> QED BY <3>1 DEF Given
  <2> QED BY <2>2, <2>3
<1>12. CASE at = "mark"
  <2>1. Goto(t, "notify") /\ UNCHANGED listening
    BY <1>1, <1>2, <1>12 DEF Step, Create, Check, GetAuto, Notify, SetAutoFalse, Rollback, Write,
       CommitTx, Begin, SetAuto, CommitAuto, Refused, Shut, Calls, Mark, poolVars
  <2>2. Closing(t, "notify")'
    BY <1>3, <2>1 DEF Closing, PCs
  <2> QED BY <1>12, <2>2 DEF After
<1>13. CASE at = "notify"
  <2>1. Notify(t)
    BY <1>1, <1>2, <1>13 DEF Step, Create, Check, GetAuto, Mark, SetAutoFalse, Rollback, Write,
       CommitTx, Begin, SetAuto, CommitAuto, Refused, Shut, Calls
  <2>2. CASE listening
    <3>1. available' = 1
      BY <1>1, <2>1, <2>2, PoolAssumption DEF Notify
    <3> QED BY <3>1 DEF Given
  <2>3. CASE ~listening
    <3>1. Goto(t, "shut") /\ UNCHANGED listening
      BY <1>2, <2>1, <2>3 DEF Notify, Closed
    <3>2. Closing(t, "shut")'
      BY <1>3, <3>1 DEF Closing, PCs
    <3> QED BY <1>13, <3>2 DEF After
  <2> QED BY <2>2, <2>3
<1>14. CASE at = "shut"
  <2>1. Shut(t)
    BY <1>1, <1>2, <1>14 DEF Step, Create, Check, GetAuto, Mark, SetAutoFalse, Rollback, Write,
       CommitTx, Begin, SetAuto, CommitAuto, Refused, Notify, Calls
  <2> QED BY <2>1 DEF Shut, Given
<1> QED BY <1>5, <1>6, <1>8, <1>9, <1>10, <1>11, <1>12, <1>13, <1>14 DEF Calling

\* What another thread can do meanwhile is no orderly use.
LEMMA OthersWait ==
  ASSUME IInv, OInv, NEW t \in Threads, NEW at \in Calling, Closing(t, at), ~Given(t),
         [Next]_vars, ~Step(t)
  PROVE  Closing(t, at)' \/ Given(t)'
<1>1. /\ orderly = TRUE /\ available = 0 /\ physicalConn = "open" /\ Sole(t)
      /\ pc[t] # "idle"
  BY ClosingAlone DEF Closing, Calling
<1>2. CASE UNCHANGED vars
  BY <1>2 DEF vars, poolVars, physicalVars, Closing
<1>3. ASSUME NEW u \in Threads,
             \/ Take(u) \/ Discard(u) \/ CloseHandle(u) \/ CloseAgain(u) \/ Dispose(u)
             \/ ClosePhysical(u) \/ IsClosed(u) \/ (\E call \in Calls : Invoke(u, call)) \/ Step(u)
      PROVE  Given(t)'
  <2>1. ~Take(u) /\ ~Discard(u)
    BY <1>1 DEF Take, Discard
  <2>2. CASE u = t
    BY <1>1, <1>3, <2>1, <2>2 DEF CloseHandle, CloseAgain, Dispose, ClosePhysical, IsClosed, Invoke, Start
  <2>3. CASE u # t
    <3>1. pc[u] = "idle" /\ hnd[u] = NoHandle
      BY <1>1, <2>3 DEF Sole, Active
    <3>2. CloseAgain(u) \/ Dispose(u)
      BY <1>3, <2>1, <3>1 DEF CloseHandle, ClosePhysical, IsClosed, Invoke, Step, Create, Check, GetAuto,
         Mark, Notify, SetAutoFalse, Begin, Write, Rollback, CommitTx, SetAuto, CommitAuto, Refused, Shut,
         Calls
    <3>3. orderly' = FALSE
      BY <3>1, <3>2, PoolAssumption DEF CloseAgain, Dispose
    <3> QED BY <3>3 DEF Given
  <2> QED BY <2>2, <2>3
<1> QED BY <1>2, <1>3 DEF Next

\* Nothing holds a closing thread up: nobody has the pool's monitor.
LEMMA ClosingMayStep ==
  ASSUME IInv, OInv, NEW t \in Threads, NEW at \in Calling, Closing(t, at), ~Given(t)
  PROVE  MayStep(t)
<1>1. Sole(t) /\ pc[t] = at /\ at \notin {"idle", "create"}
  BY ClosingAlone DEF Closing, Calling
<1>2. poolLock \in {NoThread, t}
  <2>1. ASSUME NEW u \in Threads \ {t} PROVE poolLock # u
    BY <1>1 DEF Sole, Active, IInv, Control
  <2> QED BY <2>1 DEF IInv, TypeOK
<1> QED BY <1>1, <1>2 DEF MayStep

\* A close that has begun comes to its end.  The thread takes its steps, and
\* each leads to the next call.
LEMMA CloseEnds ==
  ASSUME NEW t \in Threads
  PROVE  Spec /\ Scheduled(t) /\ []NoDeadlock => (Closing(t, "check") ~> Given(t))
<1> DEFINE Inv == IInv /\ OInv
           Quiet == Inv /\ ~Given(t)
<1>1. ASSUME NEW at \in Calling
      PROVE  /\ Quiet /\ Closing(t, at) /\ [Next]_vars =>
                  Closing(t, at)' \/ (\E next \in After(at) : Closing(t, next)') \/ Given(t)'
             /\ Quiet /\ Closing(t, at) /\ <<Step(t)>>_vars =>
                  (\E next \in After(at) : Closing(t, next)') \/ Given(t)'
             /\ Quiet /\ Closing(t, at) => MayStep(t)
  BY OthersWait, ClosingStep, ClosingMayStep
<1>2. NoDeadlock => (MayStep(t) => Proceeds(t))
  BY DEF NoDeadlock
<1>3. /\ Quiet /\ Closing(t, "check") /\ [Next]_vars =>
           Closing(t, "check")' \/ Closing(t, "getAuto")' \/ Closing(t, "shut")' \/ Given(t)'
      /\ Quiet /\ Closing(t, "check") /\ <<Step(t)>>_vars =>
           Closing(t, "getAuto")' \/ Closing(t, "shut")' \/ Given(t)'
      /\ Quiet /\ Closing(t, "check") => MayStep(t)
  BY <1>1 DEF Calling, After
<1>4. /\ Quiet /\ Closing(t, "getAuto") /\ [Next]_vars =>
           Closing(t, "getAuto")' \/ Closing(t, "rollback")' \/ Closing(t, "setAuto")' \/ Given(t)'
      /\ Quiet /\ Closing(t, "getAuto") /\ <<Step(t)>>_vars =>
           Closing(t, "rollback")' \/ Closing(t, "setAuto")' \/ Given(t)'
      /\ Quiet /\ Closing(t, "getAuto") => MayStep(t)
  BY <1>1 DEF Calling, After
<1>5. /\ Quiet /\ Closing(t, "rollback") /\ [Next]_vars =>
           Closing(t, "rollback")' \/ Closing(t, "begin")' \/ Given(t)'
      /\ Quiet /\ Closing(t, "rollback") /\ <<Step(t)>>_vars =>
           Closing(t, "begin")' \/ Given(t)'
      /\ Quiet /\ Closing(t, "rollback") => MayStep(t)
  BY <1>1 DEF Calling, After
<1>6. /\ Quiet /\ Closing(t, "begin") /\ [Next]_vars =>
           Closing(t, "begin")' \/ Closing(t, "setAuto")' \/ Given(t)'
      /\ Quiet /\ Closing(t, "begin") /\ <<Step(t)>>_vars =>
           Closing(t, "setAuto")' \/ Given(t)'
      /\ Quiet /\ Closing(t, "begin") => MayStep(t)
  BY <1>1 DEF Calling, After
<1>7. /\ Quiet /\ Closing(t, "setAuto") /\ [Next]_vars =>
           Closing(t, "setAuto")' \/ Closing(t, "commit")' \/ Closing(t, "mark")' \/ Given(t)'
      /\ Quiet /\ Closing(t, "setAuto") /\ <<Step(t)>>_vars =>
           Closing(t, "commit")' \/ Closing(t, "mark")' \/ Given(t)'
      /\ Quiet /\ Closing(t, "setAuto") => MayStep(t)
  BY <1>1 DEF Calling, After
<1>8. /\ Quiet /\ Closing(t, "commit") /\ [Next]_vars =>
           Closing(t, "commit")' \/ Closing(t, "mark")' \/ Given(t)'
      /\ Quiet /\ Closing(t, "commit") /\ <<Step(t)>>_vars =>
           Closing(t, "mark")' \/ Given(t)'
      /\ Quiet /\ Closing(t, "commit") => MayStep(t)
  BY <1>1 DEF Calling, After
<1>9. /\ Quiet /\ Closing(t, "mark") /\ [Next]_vars =>
           Closing(t, "mark")' \/ Closing(t, "notify")' \/ Given(t)'
      /\ Quiet /\ Closing(t, "mark") /\ <<Step(t)>>_vars =>
           Closing(t, "notify")' \/ Given(t)'
      /\ Quiet /\ Closing(t, "mark") => MayStep(t)
  BY <1>1 DEF Calling, After
<1>10. /\ Quiet /\ Closing(t, "notify") /\ [Next]_vars =>
            Closing(t, "notify")' \/ Closing(t, "shut")' \/ Given(t)'
       /\ Quiet /\ Closing(t, "notify") /\ <<Step(t)>>_vars =>
            Closing(t, "shut")' \/ Given(t)'
       /\ Quiet /\ Closing(t, "notify") => MayStep(t)
  BY <1>1 DEF Calling, After
<1>11. /\ Quiet /\ Closing(t, "shut") /\ [Next]_vars => Closing(t, "shut")' \/ Given(t)'
       /\ Quiet /\ Closing(t, "shut") /\ <<Step(t)>>_vars => Given(t)'
       /\ Quiet /\ Closing(t, "shut") => MayStep(t)
  BY <1>1 DEF Calling, After
<1> HIDE DEF Inv
<1>12. Spec => []Inv
  BY Invariant, LeaseInvariant, PTL DEF Inv
<1> QED
  BY <1>2, <1>3, <1>4, <1>5, <1>6, <1>7, <1>8, <1>9, <1>10, <1>11, <1>12, PTL DEF Spec, Scheduled, Proceeds

\* Threads in calls never all wait for the monitor of the pool, for any threads
\* and handles: its holder is in getConnection and asks for no other.
THEOREM SomeoneMayStepHolds == Spec => []SomeoneMayStep
<1>1. ASSUME IInv PROVE SomeoneMayStep
  <2> SUFFICES ASSUME NEW t \in Threads, pc[t] # "idle" PROVE \E u \in Threads : MayStep(u)
    BY DEF SomeoneMayStep
  <2>1. \A u \in Threads : Control(u)
    BY <1>1 DEF IInv
  <2>2. CASE poolLock = NoThread
    <3>1. pc[t] # "create"
      BY <2>1, <2>2, PoolAssumption DEF Control
    <3> QED BY <2>2, <3>1 DEF MayStep
  <2>3. CASE poolLock # NoThread
    <3>1. PICK u \in Threads : poolLock = u
      BY <1>1, <2>3 DEF IInv, TypeOK
    <3>2. pc[u] # "idle" /\ hnd[u] = handleConn
      BY <2>1, <3>1 DEF Control
    <3>3. \E h \in Handles \ {handleConn} : \A v \in Threads : hnd[v] # h
      <4>1. hnd \in [Threads -> Handles \cup {NoHandle}]
        BY <1>1 DEF IInv, TypeOK
      <4>2. PICK h \in Handles : \A v \in Threads : hnd[v] # h
        BY <4>1, PoolAssumption
      <4> QED BY <3>2, <4>2
    <3> QED BY <3>1, <3>2, <3>3 DEF MayStep
  <2> QED BY <2>2, <2>3
<1> QED BY <1>1, Invariant, PTL

\* Closing a handle gives the connection back to the pool that listens, and
\* PooledConnection.close closes it, for any number of threads and handles:
\* under the fairness of FairSpec, in a pool where a thread inside a call is
\* held up by the monitor only (which the runs check, for it is about ENABLED).
THEOREM GivenBackHolds == FairSpec /\ []NoDeadlock => GivenBack
<1>1. ASSUME NEW t \in Threads
      PROVE  FairSpec /\ []NoDeadlock =>
               ((pc[t] = "check" /\ (goal[t] = "close" => listening) /\ goal[t] # "reuse")
                ~> (available > 0 \/ physicalConn # "open" \/ ~orderly \/ Stuck(t)))
  <2> DEFINE Begun == pc[t] = "check" /\ (goal[t] = "close" => listening) /\ goal[t] # "reuse"
             Over  == available > 0 \/ physicalConn # "open" \/ ~orderly \/ Stuck(t)
  <2>1. IInv /\ Begun => Closing(t, "check")
    BY DEF IInv, TypeOK, Control, Closing, Goals
  <2>2. Given(t) => Over
    BY DEF Given
  <2>3. FairSpec => Spec /\ Scheduled(t)
    BY DEF FairSpec
  <2> HIDE DEF Begun, Over
  <2>4. FairSpec /\ []NoDeadlock => (Begun ~> Over)
    BY <2>1, <2>2, <2>3, CloseEnds, Invariant, PTL
  <2> QED BY <2>4 DEF Begun, Over
<1> QED BY <1>1 DEF GivenBack

-----------------------------------------------------------------------------
(* Changes and handles.                                                     *)

\* Uncommitted changes belong to the borrower who may still decide on them:
\* nobody gets a handle with the changes of another in the transaction, and
\* nobody's changes stay behind when the handle is closed.
NobodyInherits == orderly => \A h \in pending : h = handleConn /\ ~isClosed[h]

THEOREM NobodyInheritsHolds == Spec => []NobodyInherits
<1>1. ASSUME IInv, OInv, orderly = TRUE, NEW h \in pending
      PROVE  h = handleConn /\ ~isClosed[h]
  <2>1. SInv /\ pending # {}
    BY <1>1 DEF OInv
  <2>2. PICK t \in Threads : Leased(t, hnd[t])
    BY <2>1 DEF SInv, Free, Gone, Between, Ending, Clean
  <2>3. h = hnd[t] /\ h \in Handles /\ ~isClosed[h]
    BY <2>2 DEF Leased
  <2> QED BY <1>1, <2>3 DEF IInv, OneOpenHandle
<1>2. IInv /\ OInv => NobodyInherits
  BY <1>1 DEF NobodyInherits, IInv, TypeOK
<1> QED BY <1>2, Invariant, LeaseInvariant, PTL

-----------------------------------------------------------------------------
(* The exceptions of ReturnedClean and GivenBack have no other causes than   *)
(* the ones they are made for.                                               *)

IsOrderly == orderly = TRUE

\* Disorder needs a second thread on a handle, or a commit that is busy.
LEMMA AlwaysOrderly ==
  ASSUME ~CloseTwice, "commit" \notin Failures PROVE Spec => []IsOrderly
<1>1. Init => IsOrderly
  BY DEF Init, IsOrderly
<1>2. ASSUME IsOrderly, [Next]_vars PROVE IsOrderly'
  <2>1. CASE UNCHANGED vars
    BY <1>2, <2>1 DEF vars, physicalVars, IsOrderly
  <2>2. ASSUME NEW t \in Threads, Step(t) PROVE IsOrderly'
    BY <1>2, <2>2 DEF Step, Create, Check, GetAuto, Mark, Notify, SetAutoFalse, Begin, Write,
       Rollback, CommitTx, SqlCommit, SetAuto, CommitAuto, Refused, Shut, physicalVars, IsOrderly
  <2>3. ASSUME NEW t \in Threads,
               \/ Take(t) \/ Discard(t) \/ CloseHandle(t) \/ CloseAgain(t) \/ Dispose(t)
               \/ ClosePhysical(t) \/ IsClosed(t) \/ \E call \in Calls : Invoke(t, call)
        PROVE  IsOrderly'
    BY <1>2, <2>3 DEF Take, Discard, CloseHandle, CloseAgain, Dispose, ClosePhysical, IsClosed,
       Invoke, physicalVars, IsOrderly
  <2> QED BY <1>2, <2>1, <2>2, <2>3 DEF Next
<1> QED BY <1>1, <1>2, PTL DEF Spec

\* The documented promise: where no commit is busy and only the borrower closes a
\* handle, every connection in the pool is in auto-commit mode without a
\* transaction.  Other failures (a busy "begin;", a statement that loses the
\* transaction, a physical connection closed by the client) do not break it.
THEOREM AlwaysReturnedCleanWithoutBusyCommit ==
  ASSUME ~CloseTwice, "commit" \notin Failures PROVE Spec => []AlwaysReturnedClean
<1>1. ReturnedClean /\ IsOrderly => AlwaysReturnedClean
  BY DEF ReturnedClean, IsOrderly, AlwaysReturnedClean
<1> QED BY <1>1, ReturnedCleanHolds, AlwaysOrderly, PTL

\* Where no call on the connection fails the transaction that the auto-commit flag
\* promises is there, but for the moment in which "begin;" is about to run.
TransactionKept ==
  physicalConn = "open" /\ ~autoCommit /\ ~inTx => \E t \in Threads : pc[t] = "begin"

LEMMA KeptStep ==
  ASSUME "begin" \notin Failures, "statement" \notin Failures, "commit" \notin Failures,
         IInv, OInv, IsOrderly, TransactionKept, [Next]_vars
  PROVE  TransactionKept'
<1> SUFFICES ASSUME physicalConn' = "open", ~autoCommit', ~inTx'
             PROVE  \E t \in Threads : pc'[t] = "begin"
  BY DEF TransactionKept
<1>0. TypeOK /\ pc \in [Threads -> PCs]
  BY DEF IInv, TypeOK
<1>1. \A t \in Threads : pc[t] = "commit" => autoCommit
  BY DEF OInv, IsOrderly, SInv, Free, Gone, Sole, Active, Between, Leased, Ending
\* A step of a thread that was not about to begin, and changes nothing here.
<1>2. ASSUME NEW t \in Threads, NEW at \in PCs, pc' = [pc EXCEPT ![t] = at], pc[t] # "begin",
             physicalConn = "open", ~autoCommit, ~inTx
      PROVE  \E u \in Threads : pc'[u] = "begin"
  <2>1. PICK u \in Threads : pc[u] = "begin"
    BY <1>2 DEF TransactionKept
  <2> QED BY <1>0, <1>2, <2>1
<1>3. CASE UNCHANGED vars
  BY <1>3 DEF vars, physicalVars, TransactionKept
<1>4. ASSUME NEW t \in Threads,
             \/ Take(t) \/ Discard(t) \/ CloseHandle(t) \/ CloseAgain(t) \/ Dispose(t)
             \/ \E call \in Calls : Invoke(t, call)
      PROVE  \E u \in Threads : pc'[u] = "begin"
  <2>1. UNCHANGED <<physicalConn, autoCommit, inTx>> /\ pc[t] = "idle"
    BY <1>4 DEF Take, Discard, CloseHandle, CloseAgain, Dispose, Invoke, Start, physicalVars
  <2>2. \E at \in PCs : pc' = [pc EXCEPT ![t] = at]
    BY <1>4 DEF Take, Discard, CloseHandle, CloseAgain, Dispose, Invoke, Start, PCs
  <2> QED BY <1>2, <2>1, <2>2
<1>5. ASSUME NEW t \in Threads, ClosePhysical(t) \/ IsClosed(t)
      PROVE  \E u \in Threads : pc'[u] = "begin"
  BY <1>5 DEF ClosePhysical, IsClosed, physicalVars, TransactionKept
<1>6. ASSUME NEW t \in Threads,
             (\E h \in Handles : Create(t, h)) \/ Check(t) \/ GetAuto(t) \/ Mark(t) \/ Notify(t)
      PROVE  \E u \in Threads : pc'[u] = "begin"
  <2>1. UNCHANGED <<physicalConn, autoCommit, inTx>> /\ pc[t] # "begin"
    BY <1>6 DEF Create, Check, GetAuto, Mark, Notify, physicalVars
  <2>2. \E at \in PCs : pc' = [pc EXCEPT ![t] = at]
    BY <1>6 DEF Create, Check, GetAuto, Mark, Notify, Closed, Goto, Finish, PCs, Calls
  <2> QED BY <1>2, <2>1, <2>2
<1>7. ASSUME NEW t \in Threads, Begin(t) \/ Write(t) \/ Rollback(t) \/ CommitTx(t)
      PROVE  \E u \in Threads : pc'[u] = "begin"
  <2>1. \E at \in PCs : pc' = [pc EXCEPT ![t] = at]
    BY <1>7, Zenon DEF Begin, Write, Rollback, CommitTx, Continue, Throw, Goto, Finish, PCs, Calls
  <2>2. physicalConn = "open" /\ autoCommit' = autoCommit
    BY <1>7 DEF Begin, Write, Rollback, CommitTx
  <2>3. CASE Begin(t)
    <3>1. inTx'
      BY <2>3 DEF Begin
    <3> QED BY <3>1
  <2>4. CASE Write(t)
    <3>1. UNCHANGED inTx /\ pc[t] # "begin"
      BY <2>4 DEF Write
    <3> QED BY <1>2, <2>1, <2>2, <3>1
  <2>5. CASE Rollback(t) \/ CommitTx(t)
    <3>1. CASE inTx
      <4>1. pc' = [pc EXCEPT ![t] = "begin"]
        BY <2>2, <2>5, <3>1 DEF Rollback, CommitTx, SqlCommit, Goto
      <4> QED BY <1>0, <4>1
    <3>2. CASE ~inTx
      <4>1. pc[t] # "begin"
        BY <2>5 DEF Rollback, CommitTx
      <4> QED BY <1>2, <2>1, <2>2, <3>2, <4>1
    <3> QED BY <3>1, <3>2
  <2> QED BY <1>7, <2>3, <2>4, <2>5
<1>8. ASSUME NEW t \in Threads, SetAutoFalse(t)
      PROVE  \E u \in Threads : pc'[u] = "begin"
  <2>1. CASE autoCommit
    <3>1. pc' = [pc EXCEPT ![t] = "begin"]
      BY <1>8, <2>1 DEF SetAutoFalse, Goto
    <3> QED BY <1>0, <3>1
  <2>2. CASE ~autoCommit
    <3>1. /\ pc' = [pc EXCEPT ![t] = "idle"] /\ "idle" \in PCs /\ pc[t] # "begin"
          /\ physicalConn = "open" /\ ~inTx
      BY <1>8, <2>2 DEF SetAutoFalse, Finish, PCs
    <3> QED BY <1>2, <2>2, <3>1
  <2> QED BY <2>1, <2>2
<1>9. ASSUME NEW t \in Threads, SetAuto(t) \/ CommitAuto(t) \/ Shut(t)
      PROVE  FALSE
  BY <1>1, <1>9 DEF SetAuto, CommitAuto, Shut
<1>10. ASSUME NEW t \in Threads, Refused(t) PROVE FALSE
  BY <1>10 DEF Refused, physicalVars
<1> QED BY <1>3, <1>4, <1>5, <1>6, <1>7, <1>8, <1>9, <1>10 DEF Next, Step

LEMMA TransactionKeptHolds ==
  ASSUME ~CloseTwice, Failures \subseteq {"physical"} PROVE Spec => []TransactionKept
<1>1. Init => TransactionKept
  BY DEF Init, TransactionKept
<1>2. "begin" \notin Failures /\ "statement" \notin Failures /\ "commit" \notin Failures
  OBVIOUS
<1>3. IInv /\ OInv /\ IsOrderly /\ TransactionKept /\ [Next]_vars => TransactionKept'
  BY <1>2, KeptStep
<1> QED BY <1>1, <1>2, <1>3, Invariant, LeaseInvariant, AlwaysOrderly, PTL DEF Spec

NeverStuck == physicalConn = "open" => \A t \in Threads : ~Stuck(t)

\* A handle whose close throws for ever, the exception of GivenBack, is the
\* consequence of an earlier failure: of "begin;", of a statement or of a commit.
THEOREM StuckNeedsFailure ==
  ASSUME ~CloseTwice, Failures \subseteq {"physical"} PROVE Spec => []NeverStuck
<1>1. ASSUME IInv, OInv, IsOrderly, TransactionKept PROVE NeverStuck
  <2> SUFFICES ASSUME physicalConn = "open", NEW t \in Threads, Stuck(t) PROVE FALSE
    BY DEF NeverStuck
  <2>1. PICK u \in Threads : pc[u] = "begin"
    BY <1>1 DEF Stuck, TransactionKept
  <2>2. Active(t) /\ Active(u) /\ t # u
    BY <2>1 DEF Stuck, Active
  <2>3. SInv
    BY <1>1 DEF OInv, IsOrderly
  <2> QED BY <2>2, <2>3 DEF SInv, Free, Gone, Sole
<1>2. "commit" \notin Failures
  OBVIOUS
<1> QED BY <1>1, <1>2, Invariant, LeaseInvariant, AlwaysOrderly, TransactionKeptHolds, PTL

\* GivenBack without its exceptions: where no call on an open connection fails and
\* only the borrower closes a handle, every close gives the connection back to
\* the pool, unless the client has closed it itself.
THEOREM GivenBackWithoutFailures ==
  ASSUME ~CloseTwice, Failures \subseteq {"physical"}
  PROVE  FairSpec /\ []NoDeadlock =>
           \A t \in Threads :
             (pc[t] = "check" /\ (goal[t] = "close" => listening) /\ goal[t] # "reuse")
             ~> (available > 0 \/ physicalConn # "open")
<1>1. ASSUME NEW t \in Threads
      PROVE  FairSpec /\ []NoDeadlock =>
               ((pc[t] = "check" /\ (goal[t] = "close" => listening) /\ goal[t] # "reuse")
                ~> (available > 0 \/ physicalConn # "open"))
  <2> DEFINE Begun   == pc[t] = "check" /\ (goal[t] = "close" => listening) /\ goal[t] # "reuse"
             Over    == available > 0 \/ physicalConn # "open" \/ ~orderly \/ Stuck(t)
             Back    == available > 0 \/ physicalConn # "open"
  <2>1. Over /\ IsOrderly /\ NeverStuck => Back
    BY DEF IsOrderly, NeverStuck
  <2>2. GivenBack => (Begun ~> Over)
    BY DEF GivenBack
  <2>3. "commit" \notin Failures
    OBVIOUS
  <2>4. FairSpec => Spec
    BY DEF FairSpec
  <2> HIDE DEF Begun, Over, Back
  <2>6. FairSpec /\ []NoDeadlock => (Begun ~> Back)
    BY <2>1, <2>2, <2>3, <2>4, GivenBackHolds, AlwaysOrderly, StuckNeedsFailure, PTL
  <2> QED BY <2>6 DEF Begun, Back
<1> QED BY <1>1

=============================================================================
