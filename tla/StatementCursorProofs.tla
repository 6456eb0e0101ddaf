------------------------ MODULE StatementCursorProofs ------------------------
(***************************************************************************)
(* The properties of StatementCursor hold for every bound on the rows and  *)
(* every set of limits; and StatementBatch, with a batch of any size,      *)
(* implements it and EntryQueue.                                           *)
(***************************************************************************)
EXTENDS StatementBatch, SequenceTheorems, TLAPS

-----------------------------------------------------------------------------
(* The inductive invariant.                                                *)

\* A result set that is not open has been cleared.
IdleIsCleared ==
  ~rs.open => rs.row = 0 /\ ~rs.pastLastRow /\ ~rs.emptyResultSet

\* What waits is the first row, and nobody has fetched it.
WaitingIsFirst ==
  resultsWaiting => /\ ~rs.open
                    /\ clean /\ pointerOpen => vm = FirstRow
                    /\ kind = "prepared" => query

\* Only plain statements have closeStmt, and only they run again once closed.
OnlyPlainCloses == kind = "prepared" => ~rs.closeStmt /\ ~asked /\ (closed => ~pointerOpen)

\* The request is kept as long as the result set is open.
RequestKept == asked /\ rs.open => rs.closeStmt

PointerNeedsConnection == pointerOpen => connOpen

IInv ==
  /\ TypeOK
  /\ RowIsPosition /\ CursorHasOwner /\ OpenHasPointer /\ NoMoreIsNoMore
  /\ ClosesWithResultSet
  /\ IdleIsCleared /\ WaitingIsFirst /\ OnlyPlainCloses /\ RequestKept
  /\ PointerNeedsConnection

USE DEF ResultSets, Machines, Ready, FirstRow, NoResultSet

\* The state the first step leaves behind.
LEMMA SteppedType ==
  ASSUME CursorAssumption, NEW row \in BOOLEAN
  PROVE  Stepped(row) \in Machines
BY DEF CursorAssumption, Stepped

\* Closing makes a result set of a result set.
LEMMA ClosedType ==
  ASSUME rs \in ResultSets, pointerOpen \in BOOLEAN, NEW close \in BOOLEAN
  PROVE  /\ ClosedResultSet(rs) \in ResultSets
         /\ IdleResultSet(Requested(close)) \in ResultSets
BY DEF ClosedResultSet, IdleResultSet, Requested

-----------------------------------------------------------------------------
(* The invariant holds at first and every group of calls keeps it.         *)

LEMMA Initially == ASSUME CursorAssumption, Init PROVE IInv
<1> USE DEF Init
<1>1. TypeOK
  <2>1. rs \in ResultSets OBVIOUS
  <2>2. vm \in Machines BY DEF CursorAssumption
  <2>3. pointerOpen \in BOOLEAN OBVIOUS
  <2> QED BY <2>1, <2>2, <2>3 DEF TypeOK
<1>2. RowIsPosition BY DEF RowIsPosition
<1>3. CursorHasOwner BY DEF CursorHasOwner, OpenHasPointer
<1>4. OpenHasPointer BY DEF OpenHasPointer
<1>5. NoMoreIsNoMore BY DEF NoMoreIsNoMore
<1>6. ClosesWithResultSet BY DEF ClosesWithResultSet
<1>7. IdleIsCleared BY DEF IdleIsCleared
<1>8. WaitingIsFirst BY DEF WaitingIsFirst
<1>9. OnlyPlainCloses BY DEF OnlyPlainCloses
<1>10. RequestKept BY DEF RequestKept
<1>11. PointerNeedsConnection BY DEF PointerNeedsConnection
<1> QED BY <1>1, <1>2, <1>3, <1>4, <1>5, <1>6, <1>7, <1>8, <1>9, <1>10, <1>11 DEF IInv

LEMMA ClosingKeeps ==
  ASSUME CursorAssumption, IInv, CloseResultSet \/ Close \/ CloseConnection \/ GetMoreResults
  PROVE  IInv'
<1>1. CASE CloseResultSet
  <2> USE <1>1 DEF IInv, stmtVars, CloseResultSet, ResultSetClosed, ClosedResultSet, ClosedMachine, ClosesStatement
  <2>1. TypeOK'
    <3>1. rs' \in ResultSets BY DEF TypeOK
    <3>2. vm' \in Machines BY DEF TypeOK, CursorAssumption
    <3>3. pointerOpen' \in BOOLEAN /\ closed' \in BOOLEAN BY DEF TypeOK
    <3>4. resultsWaiting' \in BOOLEAN /\ query' \in BOOLEAN BY DEF TypeOK
    <3> QED BY <3>1, <3>2, <3>3, <3>4 DEF TypeOK, CursorAssumption
  <2>2. RowIsPosition' BY DEF RowIsPosition, CursorHasOwner, OpenHasPointer, WaitingIsFirst, IdleIsCleared, TypeOK
  <2>3. CursorHasOwner' BY DEF CursorHasOwner, OpenHasPointer, TypeOK
  <2>4. NoMoreIsNoMore' BY DEF NoMoreIsNoMore, OpenHasPointer, PointerNeedsConnection, TypeOK
  <2>5. ClosesWithResultSet' BY DEF ClosesWithResultSet, RequestKept, OnlyPlainCloses, OpenHasPointer, TypeOK
  <2>6. WaitingIsFirst' BY DEF WaitingIsFirst, OpenHasPointer, CursorHasOwner, RequestKept, ClosesWithResultSet, TypeOK
  <2>7. OpenHasPointer' BY DEF OpenHasPointer, PointerNeedsConnection, TypeOK
  <2>8. IdleIsCleared' BY DEF IdleIsCleared, TypeOK
  <2>9. OnlyPlainCloses' BY DEF OnlyPlainCloses, TypeOK
  <2>10. RequestKept' BY DEF RequestKept, ClosesWithResultSet, OnlyPlainCloses, TypeOK
  <2>11. PointerNeedsConnection' BY DEF PointerNeedsConnection, TypeOK
  <2> QED BY <2>1, <2>2, <2>3, <2>4, <2>5, <2>6, <2>7, <2>8, <2>9, <2>10, <2>11 DEF IInv
<1>2. CASE Close
  <2> USE <1>2 DEF IInv, stmtVars, Close, IdleResultSet
  <2>1. TypeOK'
    <3>1. rs' \in ResultSets BY DEF TypeOK
    <3>2. vm' \in Machines BY DEF TypeOK, CursorAssumption
    <3>3. pointerOpen' \in BOOLEAN /\ closed' \in BOOLEAN BY DEF TypeOK
    <3>4. resultsWaiting' \in BOOLEAN /\ query' \in BOOLEAN BY DEF TypeOK
    <3> QED BY <3>1, <3>2, <3>3, <3>4 DEF TypeOK, CursorAssumption
  <2>2. RowIsPosition' BY DEF RowIsPosition, CursorHasOwner, OpenHasPointer, WaitingIsFirst, IdleIsCleared, TypeOK
  <2>3. CursorHasOwner' BY DEF CursorHasOwner, OpenHasPointer, TypeOK
  <2>4. NoMoreIsNoMore' BY DEF NoMoreIsNoMore, OpenHasPointer, PointerNeedsConnection, TypeOK
  <2>5. ClosesWithResultSet' BY DEF ClosesWithResultSet, RequestKept, OnlyPlainCloses, OpenHasPointer, TypeOK
  <2>6. WaitingIsFirst' BY DEF WaitingIsFirst, OpenHasPointer, CursorHasOwner, RequestKept, ClosesWithResultSet, TypeOK
  <2>7. OpenHasPointer' BY DEF OpenHasPointer, PointerNeedsConnection, TypeOK
  <2>8. IdleIsCleared' BY DEF IdleIsCleared, TypeOK
  <2>9. OnlyPlainCloses' BY DEF OnlyPlainCloses, TypeOK
  <2>10. RequestKept' BY DEF RequestKept, ClosesWithResultSet, OnlyPlainCloses, TypeOK
  <2>11. PointerNeedsConnection' BY DEF PointerNeedsConnection, TypeOK
  <2> QED BY <2>1, <2>2, <2>3, <2>4, <2>5, <2>6, <2>7, <2>8, <2>9, <2>10, <2>11 DEF IInv
<1>3. CASE CloseConnection
  <2> USE <1>3 DEF IInv, stmtVars, CloseConnection
  <2>1. TypeOK'
    <3>1. rs' \in ResultSets BY DEF TypeOK
    <3>2. vm' \in Machines BY DEF TypeOK, CursorAssumption
    <3>3. pointerOpen' \in BOOLEAN /\ closed' \in BOOLEAN BY DEF TypeOK
    <3>4. resultsWaiting' \in BOOLEAN /\ query' \in BOOLEAN BY DEF TypeOK
    <3> QED BY <3>1, <3>2, <3>3, <3>4 DEF TypeOK, CursorAssumption
  <2>2. RowIsPosition' BY DEF RowIsPosition, CursorHasOwner, OpenHasPointer, WaitingIsFirst, IdleIsCleared, TypeOK
  <2>3. CursorHasOwner' BY DEF CursorHasOwner, OpenHasPointer, TypeOK
  <2>4. NoMoreIsNoMore' BY DEF NoMoreIsNoMore, OpenHasPointer, PointerNeedsConnection, TypeOK
  <2>5. ClosesWithResultSet' BY DEF ClosesWithResultSet, RequestKept, OnlyPlainCloses, OpenHasPointer, TypeOK
  <2>6. WaitingIsFirst' BY DEF WaitingIsFirst, OpenHasPointer, CursorHasOwner, RequestKept, ClosesWithResultSet, TypeOK
  <2>7. OpenHasPointer' BY DEF OpenHasPointer, PointerNeedsConnection, TypeOK
  <2>8. IdleIsCleared' BY DEF IdleIsCleared, TypeOK
  <2>9. OnlyPlainCloses' BY DEF OnlyPlainCloses, TypeOK
  <2>10. RequestKept' BY DEF RequestKept, ClosesWithResultSet, OnlyPlainCloses, TypeOK
  <2>11. PointerNeedsConnection' BY DEF PointerNeedsConnection, TypeOK
  <2> QED BY <2>1, <2>2, <2>3, <2>4, <2>5, <2>6, <2>7, <2>8, <2>9, <2>10, <2>11 DEF IInv
<1>4. CASE GetMoreResults
  <2> USE <1>4 DEF IInv, stmtVars, GetMoreResults, ResultSetClosed, ClosedResultSet, ClosedMachine, ClosesStatement
  <2>1. TypeOK'
    <3>1. rs' \in ResultSets BY DEF TypeOK
    <3>2. vm' \in Machines BY DEF TypeOK, CursorAssumption
    <3>3. pointerOpen' \in BOOLEAN /\ closed' \in BOOLEAN BY DEF TypeOK
    <3>4. resultsWaiting' \in BOOLEAN /\ query' \in BOOLEAN BY DEF TypeOK
    <3> QED BY <3>1, <3>2, <3>3, <3>4 DEF TypeOK, CursorAssumption
  <2>2. RowIsPosition' BY DEF RowIsPosition, CursorHasOwner, OpenHasPointer, WaitingIsFirst, IdleIsCleared, TypeOK
  <2>3. CursorHasOwner' BY DEF CursorHasOwner, OpenHasPointer, TypeOK
  <2>4. NoMoreIsNoMore' BY DEF NoMoreIsNoMore, OpenHasPointer, PointerNeedsConnection, TypeOK
  <2>5. ClosesWithResultSet' BY DEF ClosesWithResultSet, RequestKept, OnlyPlainCloses, OpenHasPointer, TypeOK
  <2>6. WaitingIsFirst' BY DEF WaitingIsFirst, OpenHasPointer, CursorHasOwner, RequestKept, ClosesWithResultSet, TypeOK
  <2>7. OpenHasPointer' BY DEF OpenHasPointer, PointerNeedsConnection, TypeOK
  <2>8. IdleIsCleared' BY DEF IdleIsCleared, TypeOK
  <2>9. OnlyPlainCloses' BY DEF OnlyPlainCloses, TypeOK
  <2>10. RequestKept' BY DEF RequestKept, ClosesWithResultSet, OnlyPlainCloses, TypeOK
  <2>11. PointerNeedsConnection' BY DEF PointerNeedsConnection, TypeOK
  <2> QED BY <2>1, <2>2, <2>3, <2>4, <2>5, <2>6, <2>7, <2>8, <2>9, <2>10, <2>11 DEF IInv
<1> QED BY <1>1, <1>2, <1>3, <1>4

LEMMA SettingKeeps ==
  ASSUME CursorAssumption, IInv, SetCloseOnCompletion \/ SetMaxRows \/ GetResultSet
  PROVE  IInv'
<1>1. CASE SetCloseOnCompletion
  <2> USE <1>1 DEF IInv, stmtVars, SetCloseOnCompletion
  <2>1. TypeOK'
    <3>1. rs' \in ResultSets BY DEF TypeOK
    <3>2. vm' \in Machines BY DEF TypeOK, CursorAssumption
    <3>3. pointerOpen' \in BOOLEAN /\ closed' \in BOOLEAN BY DEF TypeOK
    <3>4. resultsWaiting' \in BOOLEAN /\ query' \in BOOLEAN BY DEF TypeOK
    <3> QED BY <3>1, <3>2, <3>3, <3>4 DEF TypeOK, CursorAssumption
  <2>2. RowIsPosition' BY DEF RowIsPosition, CursorHasOwner, OpenHasPointer, WaitingIsFirst, IdleIsCleared, TypeOK
  <2>3. CursorHasOwner' BY DEF CursorHasOwner, OpenHasPointer, TypeOK
  <2>4. NoMoreIsNoMore' BY DEF NoMoreIsNoMore, OpenHasPointer, PointerNeedsConnection, TypeOK
  <2>5. ClosesWithResultSet' BY DEF ClosesWithResultSet, RequestKept, OnlyPlainCloses, OpenHasPointer, TypeOK
  <2>6. WaitingIsFirst' BY DEF WaitingIsFirst, OpenHasPointer, CursorHasOwner, RequestKept, ClosesWithResultSet, TypeOK
  <2>7. OpenHasPointer' BY DEF OpenHasPointer, PointerNeedsConnection, TypeOK
  <2>8. IdleIsCleared' BY DEF IdleIsCleared, TypeOK
  <2>9. OnlyPlainCloses' BY DEF OnlyPlainCloses, TypeOK
  <2>10. RequestKept' BY DEF RequestKept, ClosesWithResultSet, OnlyPlainCloses, TypeOK
  <2>11. PointerNeedsConnection' BY DEF PointerNeedsConnection, TypeOK
  <2> QED BY <2>1, <2>2, <2>3, <2>4, <2>5, <2>6, <2>7, <2>8, <2>9, <2>10, <2>11 DEF IInv
<1>2. CASE SetMaxRows
  <2> USE <1>2 DEF IInv, stmtVars, SetMaxRows, CursorAssumption
  <2>1. TypeOK'
    <3>1. rs' \in ResultSets BY DEF TypeOK
    <3>2. vm' \in Machines BY DEF TypeOK, CursorAssumption
    <3>3. pointerOpen' \in BOOLEAN /\ closed' \in BOOLEAN BY DEF TypeOK
    <3>4. resultsWaiting' \in BOOLEAN /\ query' \in BOOLEAN BY DEF TypeOK
    <3> QED BY <3>1, <3>2, <3>3, <3>4 DEF TypeOK, CursorAssumption
  <2>2. RowIsPosition' BY DEF RowIsPosition, CursorHasOwner, OpenHasPointer, WaitingIsFirst, IdleIsCleared, TypeOK
  <2>3. CursorHasOwner' BY DEF CursorHasOwner, OpenHasPointer, TypeOK
  <2>4. NoMoreIsNoMore' BY DEF NoMoreIsNoMore, OpenHasPointer, PointerNeedsConnection, TypeOK
  <2>5. ClosesWithResultSet' BY DEF ClosesWithResultSet, RequestKept, OnlyPlainCloses, OpenHasPointer, TypeOK
  <2>6. WaitingIsFirst' BY DEF WaitingIsFirst, OpenHasPointer, CursorHasOwner, RequestKept, ClosesWithResultSet, TypeOK
  <2>7. OpenHasPointer' BY DEF OpenHasPointer, PointerNeedsConnection, TypeOK
  <2>8. IdleIsCleared' BY DEF IdleIsCleared, TypeOK
  <2>9. OnlyPlainCloses' BY DEF OnlyPlainCloses, TypeOK
  <2>10. RequestKept' BY DEF RequestKept, ClosesWithResultSet, OnlyPlainCloses, TypeOK
  <2>11. PointerNeedsConnection' BY DEF PointerNeedsConnection, TypeOK
  <2> QED BY <2>1, <2>2, <2>3, <2>4, <2>5, <2>6, <2>7, <2>8, <2>9, <2>10, <2>11 DEF IInv
<1>3. CASE GetResultSet
  <2> USE <1>3 DEF IInv, stmtVars, GetResultSet, Opened
  <2>1. TypeOK'
    <3>1. rs' \in ResultSets BY DEF TypeOK
    <3>2. vm' \in Machines BY DEF TypeOK, CursorAssumption
    <3>3. pointerOpen' \in BOOLEAN /\ closed' \in BOOLEAN BY DEF TypeOK
    <3>4. resultsWaiting' \in BOOLEAN /\ query' \in BOOLEAN BY DEF TypeOK
    <3> QED BY <3>1, <3>2, <3>3, <3>4 DEF TypeOK, CursorAssumption
  <2>2. RowIsPosition' BY DEF RowIsPosition, CursorHasOwner, OpenHasPointer, WaitingIsFirst, IdleIsCleared, TypeOK
  <2>3. CursorHasOwner' BY DEF CursorHasOwner, OpenHasPointer, TypeOK
  <2>4. NoMoreIsNoMore' BY DEF NoMoreIsNoMore, OpenHasPointer, PointerNeedsConnection, TypeOK
  <2>5. ClosesWithResultSet' BY DEF ClosesWithResultSet, RequestKept, OnlyPlainCloses, OpenHasPointer, TypeOK
  <2>6. WaitingIsFirst' BY DEF WaitingIsFirst, OpenHasPointer, CursorHasOwner, RequestKept, ClosesWithResultSet, TypeOK
  <2>7. OpenHasPointer' BY DEF OpenHasPointer, PointerNeedsConnection, TypeOK
  <2>8. IdleIsCleared' BY DEF IdleIsCleared, TypeOK
  <2>9. OnlyPlainCloses' BY DEF OnlyPlainCloses, TypeOK
  <2>10. RequestKept' BY DEF RequestKept, ClosesWithResultSet, OnlyPlainCloses, TypeOK
  <2>11. PointerNeedsConnection' BY DEF PointerNeedsConnection, TypeOK
  <2> QED BY <2>1, <2>2, <2>3, <2>4, <2>5, <2>6, <2>7, <2>8, <2>9, <2>10, <2>11 DEF IInv
<1> QED BY <1>1, <1>2, <1>3

LEMMA PlainKeeps ==
  ASSUME CursorAssumption, IInv, ExecuteWithoutCursor \/ ExecuteRejected \/ ExecuteFails \/ Execute \/ (\E close \in BOOLEAN : ExecuteQuery(close)) \/ ExecuteQueryOfUpdate
  PROVE  IInv'
<1>1. CASE ExecuteWithoutCursor
  <2> USE <1>1 DEF IInv, stmtVars, ExecuteWithoutCursor, WithoutCursor, Recompiled, Requested, IdleResultSet, IdleClosed, ClosesStatement
  <2>0. PICK close \in BOOLEAN : Recompiled(close)
    OBVIOUS
  <2> USE <2>0
  <2>1. TypeOK'
    <3>1. rs' \in ResultSets BY ClosedType DEF TypeOK
    <3>2. vm' \in Machines BY DEF TypeOK, CursorAssumption
    <3>3. pointerOpen' \in BOOLEAN /\ closed' \in BOOLEAN BY DEF TypeOK
    <3>4. resultsWaiting' \in BOOLEAN /\ query' \in BOOLEAN BY DEF TypeOK
    <3> QED BY <3>1, <3>2, <3>3, <3>4 DEF TypeOK, CursorAssumption
  <2>2. RowIsPosition' BY DEF RowIsPosition, CursorHasOwner, OpenHasPointer, WaitingIsFirst, IdleIsCleared, TypeOK
  <2>3. CursorHasOwner' BY DEF CursorHasOwner, OpenHasPointer, TypeOK
  <2>4. NoMoreIsNoMore' BY DEF NoMoreIsNoMore, OpenHasPointer, PointerNeedsConnection, TypeOK
  <2>5. ClosesWithResultSet' BY DEF ClosesWithResultSet, RequestKept, OnlyPlainCloses, OpenHasPointer, TypeOK
  <2>6. WaitingIsFirst' BY DEF WaitingIsFirst, OpenHasPointer, CursorHasOwner, RequestKept, ClosesWithResultSet, TypeOK
  <2>7. OpenHasPointer' BY DEF OpenHasPointer, PointerNeedsConnection, TypeOK
  <2>8. IdleIsCleared' BY DEF IdleIsCleared, TypeOK
  <2>9. OnlyPlainCloses' BY DEF OnlyPlainCloses, TypeOK
  <2>10. RequestKept' BY DEF RequestKept, ClosesWithResultSet, OnlyPlainCloses, TypeOK
  <2>11. PointerNeedsConnection' BY DEF PointerNeedsConnection, TypeOK
  <2> QED BY <2>1, <2>2, <2>3, <2>4, <2>5, <2>6, <2>7, <2>8, <2>9, <2>10, <2>11 DEF IInv
<1>2. CASE ExecuteRejected
  <2> USE <1>2 DEF IInv, stmtVars, ExecuteRejected, Recompiled, Requested, IdleResultSet, IdleClosed, ClosesStatement
  <2>0. PICK close \in BOOLEAN : Recompiled(close)
    OBVIOUS
  <2> USE <2>0
  <2>1. TypeOK'
    <3>1. rs' \in ResultSets BY ClosedType DEF TypeOK
    <3>2. vm' \in Machines BY DEF TypeOK, CursorAssumption
    <3>3. pointerOpen' \in BOOLEAN /\ closed' \in BOOLEAN BY DEF TypeOK
    <3>4. resultsWaiting' \in BOOLEAN /\ query' \in BOOLEAN BY DEF TypeOK
    <3> QED BY <3>1, <3>2, <3>3, <3>4 DEF TypeOK, CursorAssumption
  <2>2. RowIsPosition' BY DEF RowIsPosition, CursorHasOwner, OpenHasPointer, WaitingIsFirst, IdleIsCleared, TypeOK
  <2>3. CursorHasOwner' BY DEF CursorHasOwner, OpenHasPointer, TypeOK
  <2>4. NoMoreIsNoMore' BY DEF NoMoreIsNoMore, OpenHasPointer, PointerNeedsConnection, TypeOK
  <2>5. ClosesWithResultSet' BY DEF ClosesWithResultSet, RequestKept, OnlyPlainCloses, OpenHasPointer, TypeOK
  <2>6. WaitingIsFirst' BY DEF WaitingIsFirst, OpenHasPointer, CursorHasOwner, RequestKept, ClosesWithResultSet, TypeOK
  <2>7. OpenHasPointer' BY DEF OpenHasPointer, PointerNeedsConnection, TypeOK
  <2>8. IdleIsCleared' BY DEF IdleIsCleared, TypeOK
  <2>9. OnlyPlainCloses' BY DEF OnlyPlainCloses, TypeOK
  <2>10. RequestKept' BY DEF RequestKept, ClosesWithResultSet, OnlyPlainCloses, TypeOK
  <2>11. PointerNeedsConnection' BY DEF PointerNeedsConnection, TypeOK
  <2> QED BY <2>1, <2>2, <2>3, <2>4, <2>5, <2>6, <2>7, <2>8, <2>9, <2>10, <2>11 DEF IInv
<1>3. CASE ExecuteFails
  <2> USE <1>3 DEF IInv, stmtVars, ExecuteFails, Recompiled, Requested, IdleResultSet, IdleClosed, ClosesStatement
  <2>0. PICK close \in BOOLEAN : Recompiled(close)
    OBVIOUS
  <2> USE <2>0
  <2>1. TypeOK'
    <3>1. rs' \in ResultSets BY ClosedType DEF TypeOK
    <3>2. vm' \in Machines BY DEF TypeOK, CursorAssumption
    <3>3. pointerOpen' \in BOOLEAN /\ closed' \in BOOLEAN BY DEF TypeOK
    <3>4. resultsWaiting' \in BOOLEAN /\ query' \in BOOLEAN BY DEF TypeOK
    <3> QED BY <3>1, <3>2, <3>3, <3>4 DEF TypeOK, CursorAssumption
  <2>2. RowIsPosition' BY DEF RowIsPosition, CursorHasOwner, OpenHasPointer, WaitingIsFirst, IdleIsCleared, TypeOK
  <2>3. CursorHasOwner' BY DEF CursorHasOwner, OpenHasPointer, TypeOK
  <2>4. NoMoreIsNoMore' BY DEF NoMoreIsNoMore, OpenHasPointer, PointerNeedsConnection, TypeOK
  <2>5. ClosesWithResultSet' BY DEF ClosesWithResultSet, RequestKept, OnlyPlainCloses, OpenHasPointer, TypeOK
  <2>6. WaitingIsFirst' BY DEF WaitingIsFirst, OpenHasPointer, CursorHasOwner, RequestKept, ClosesWithResultSet, TypeOK
  <2>7. OpenHasPointer' BY DEF OpenHasPointer, PointerNeedsConnection, TypeOK
  <2>8. IdleIsCleared' BY DEF IdleIsCleared, TypeOK
  <2>9. OnlyPlainCloses' BY DEF OnlyPlainCloses, TypeOK
  <2>10. RequestKept' BY DEF RequestKept, ClosesWithResultSet, OnlyPlainCloses, TypeOK
  <2>11. PointerNeedsConnection' BY DEF PointerNeedsConnection, TypeOK
  <2> QED BY <2>1, <2>2, <2>3, <2>4, <2>5, <2>6, <2>7, <2>8, <2>9, <2>10, <2>11 DEF IInv
<1>4. CASE Execute
  <2> USE <1>4 DEF IInv, stmtVars, Execute, Recompiled, Requested, IdleResultSet, IdleClosed, ClosesStatement, FirstSteps, Stepped
  <2>1. TypeOK'
    <3>1. rs' \in ResultSets BY DEF TypeOK
    <3>2. vm' \in Machines BY DEF TypeOK, CursorAssumption
    <3>3. pointerOpen' \in BOOLEAN /\ closed' \in BOOLEAN BY DEF TypeOK
    <3>4. resultsWaiting' \in BOOLEAN /\ query' \in BOOLEAN BY DEF TypeOK
    <3> QED BY <3>1, <3>2, <3>3, <3>4 DEF TypeOK, CursorAssumption
  <2>2. RowIsPosition' BY DEF RowIsPosition, CursorHasOwner, OpenHasPointer, WaitingIsFirst, IdleIsCleared, TypeOK
  <2>3. CursorHasOwner' BY DEF CursorHasOwner, OpenHasPointer, TypeOK
  <2>4. NoMoreIsNoMore' BY DEF NoMoreIsNoMore, OpenHasPointer, PointerNeedsConnection, TypeOK
  <2>5. ClosesWithResultSet' BY DEF ClosesWithResultSet, RequestKept, OnlyPlainCloses, OpenHasPointer, TypeOK
  <2>6. WaitingIsFirst' BY DEF WaitingIsFirst, OpenHasPointer, CursorHasOwner, RequestKept, ClosesWithResultSet, TypeOK
  <2>7. OpenHasPointer' BY DEF OpenHasPointer, PointerNeedsConnection, TypeOK
  <2>8. IdleIsCleared' BY DEF IdleIsCleared, TypeOK
  <2>9. OnlyPlainCloses' BY DEF OnlyPlainCloses, TypeOK
  <2>10. RequestKept' BY DEF RequestKept, ClosesWithResultSet, OnlyPlainCloses, TypeOK
  <2>11. PointerNeedsConnection' BY DEF PointerNeedsConnection, TypeOK
  <2> QED BY <2>1, <2>2, <2>3, <2>4, <2>5, <2>6, <2>7, <2>8, <2>9, <2>10, <2>11 DEF IInv
<1>5. ASSUME NEW close \in BOOLEAN, ExecuteQuery(close) PROVE IInv'
  <2> USE <1>5 DEF IInv, stmtVars, Requested, IdleResultSet, IdleClosed, ClosesStatement, Opened, Stepped
  <2>0. PICK row \in BOOLEAN : rs' = Opened(IdleResultSet(Requested(close)), row) /\ vm' = Stepped(row)
    BY DEF ExecuteQuery
  <2> USE <2>0 DEF ExecuteQuery
  <2>1. TypeOK'
    <3>1. rs' \in ResultSets BY DEF TypeOK
    <3>2. vm' \in Machines BY SteppedType DEF TypeOK, CursorAssumption
    <3>3. pointerOpen' \in BOOLEAN /\ closed' \in BOOLEAN BY DEF TypeOK
    <3>4. resultsWaiting' \in BOOLEAN /\ query' \in BOOLEAN BY DEF TypeOK
    <3> QED BY <3>1, <3>2, <3>3, <3>4 DEF TypeOK, CursorAssumption
  <2>2. RowIsPosition' BY DEF RowIsPosition, CursorHasOwner, OpenHasPointer, WaitingIsFirst, IdleIsCleared, TypeOK
  <2>3. CursorHasOwner' BY DEF CursorHasOwner, OpenHasPointer, TypeOK
  <2>4. NoMoreIsNoMore' BY DEF NoMoreIsNoMore, OpenHasPointer, PointerNeedsConnection, TypeOK
  <2>5. ClosesWithResultSet' BY DEF ClosesWithResultSet, RequestKept, OnlyPlainCloses, OpenHasPointer, TypeOK
  <2>6. WaitingIsFirst' BY DEF WaitingIsFirst, OpenHasPointer, CursorHasOwner, RequestKept, ClosesWithResultSet, TypeOK
  <2>7. OpenHasPointer' BY DEF OpenHasPointer, PointerNeedsConnection, TypeOK
  <2>8. IdleIsCleared' BY DEF IdleIsCleared, TypeOK
  <2>9. OnlyPlainCloses' BY DEF OnlyPlainCloses, TypeOK
  <2>10. RequestKept' BY DEF RequestKept, ClosesWithResultSet, OnlyPlainCloses, TypeOK
  <2>11. PointerNeedsConnection' BY DEF PointerNeedsConnection, TypeOK
  <2> QED BY <2>1, <2>2, <2>3, <2>4, <2>5, <2>6, <2>7, <2>8, <2>9, <2>10, <2>11 DEF IInv
<1>6. CASE ExecuteQueryOfUpdate
  <2> USE <1>6 DEF IInv, stmtVars, ExecuteQueryOfUpdate, Requested, IdleResultSet, IdleClosed, ClosesStatement
  <2>1. TypeOK'
    <3>1. rs' \in ResultSets BY DEF TypeOK
    <3>2. vm' \in Machines BY SteppedType DEF TypeOK, CursorAssumption
    <3>3. pointerOpen' \in BOOLEAN /\ closed' \in BOOLEAN BY DEF TypeOK
    <3>4. resultsWaiting' \in BOOLEAN /\ query' \in BOOLEAN BY DEF TypeOK
    <3> QED BY <3>1, <3>2, <3>3, <3>4 DEF TypeOK, CursorAssumption
  <2>2. RowIsPosition' BY DEF RowIsPosition, CursorHasOwner, OpenHasPointer, WaitingIsFirst, IdleIsCleared, TypeOK
  <2>3. CursorHasOwner' BY DEF CursorHasOwner, OpenHasPointer, TypeOK
  <2>4. NoMoreIsNoMore' BY DEF NoMoreIsNoMore, OpenHasPointer, PointerNeedsConnection, TypeOK
  <2>5. ClosesWithResultSet' BY DEF ClosesWithResultSet, RequestKept, OnlyPlainCloses, OpenHasPointer, TypeOK
  <2>6. WaitingIsFirst' BY DEF WaitingIsFirst, OpenHasPointer, CursorHasOwner, RequestKept, ClosesWithResultSet, TypeOK
  <2>7. OpenHasPointer' BY DEF OpenHasPointer, PointerNeedsConnection, TypeOK
  <2>8. IdleIsCleared' BY DEF IdleIsCleared, TypeOK
  <2>9. OnlyPlainCloses' BY DEF OnlyPlainCloses, TypeOK
  <2>10. RequestKept' BY DEF RequestKept, ClosesWithResultSet, OnlyPlainCloses, TypeOK
  <2>11. PointerNeedsConnection' BY DEF PointerNeedsConnection, TypeOK
  <2> QED BY <2>1, <2>2, <2>3, <2>4, <2>5, <2>6, <2>7, <2>8, <2>9, <2>10, <2>11 DEF IInv
<1> QED BY <1>1, <1>2, <1>3, <1>4, <1>5, <1>6

LEMMA PreparedKeeps ==
  ASSUME CursorAssumption, IInv, PreparedFails \/ PreparedFatal \/ PreparedKeysFail \/ PreparedExecute \/ PreparedExecuteQuery \/ PreparedExecuteUpdate \/ PreparedExecuteBatch \/ PreparedClosesItself
  PROVE  IInv'
<1>1. CASE PreparedFails
  <2> USE <1>1 DEF IInv, stmtVars, PreparedFails, Restarted, ClosedResultSet
  <2>1. TypeOK'
    <3>1. rs' \in ResultSets BY DEF TypeOK
    <3>2. vm' \in Machines BY DEF TypeOK, CursorAssumption
    <3>3. pointerOpen' \in BOOLEAN /\ closed' \in BOOLEAN BY DEF TypeOK
    <3>4. resultsWaiting' \in BOOLEAN /\ query' \in BOOLEAN BY DEF TypeOK
    <3> QED BY <3>1, <3>2, <3>3, <3>4 DEF TypeOK, CursorAssumption
  <2>2. RowIsPosition' BY DEF RowIsPosition, CursorHasOwner, OpenHasPointer, WaitingIsFirst, IdleIsCleared, TypeOK
  <2>3. CursorHasOwner' BY DEF CursorHasOwner, OpenHasPointer, TypeOK
  <2>4. NoMoreIsNoMore' BY DEF NoMoreIsNoMore, OpenHasPointer, PointerNeedsConnection, TypeOK
  <2>5. ClosesWithResultSet' BY DEF ClosesWithResultSet, RequestKept, OnlyPlainCloses, OpenHasPointer, TypeOK
  <2>6. WaitingIsFirst' BY DEF WaitingIsFirst, OpenHasPointer, CursorHasOwner, RequestKept, ClosesWithResultSet, TypeOK
  <2>7. OpenHasPointer' BY DEF OpenHasPointer, PointerNeedsConnection, TypeOK
  <2>8. IdleIsCleared' BY DEF IdleIsCleared, TypeOK
  <2>9. OnlyPlainCloses' BY DEF OnlyPlainCloses, TypeOK
  <2>10. RequestKept' BY DEF RequestKept, ClosesWithResultSet, OnlyPlainCloses, TypeOK
  <2>11. PointerNeedsConnection' BY DEF PointerNeedsConnection, TypeOK
  <2> QED BY <2>1, <2>2, <2>3, <2>4, <2>5, <2>6, <2>7, <2>8, <2>9, <2>10, <2>11 DEF IInv
<1>2. CASE PreparedFatal
  <2> USE <1>2 DEF IInv, stmtVars, PreparedFatal, Restarted, ClosedResultSet
  <2>1. TypeOK'
    <3>1. rs' \in ResultSets BY DEF TypeOK
    <3>2. vm' \in Machines BY DEF TypeOK, CursorAssumption
    <3>3. pointerOpen' \in BOOLEAN /\ closed' \in BOOLEAN BY DEF TypeOK
    <3>4. resultsWaiting' \in BOOLEAN /\ query' \in BOOLEAN BY DEF TypeOK
    <3> QED BY <3>1, <3>2, <3>3, <3>4 DEF TypeOK, CursorAssumption
  <2>2. RowIsPosition' BY DEF RowIsPosition, CursorHasOwner, OpenHasPointer, WaitingIsFirst, IdleIsCleared, TypeOK
  <2>3. CursorHasOwner' BY DEF CursorHasOwner, OpenHasPointer, TypeOK
  <2>4. NoMoreIsNoMore' BY DEF NoMoreIsNoMore, OpenHasPointer, PointerNeedsConnection, TypeOK
  <2>5. ClosesWithResultSet' BY DEF ClosesWithResultSet, RequestKept, OnlyPlainCloses, OpenHasPointer, TypeOK
  <2>6. WaitingIsFirst' BY DEF WaitingIsFirst, OpenHasPointer, CursorHasOwner, RequestKept, ClosesWithResultSet, TypeOK
  <2>7. OpenHasPointer' BY DEF OpenHasPointer, PointerNeedsConnection, TypeOK
  <2>8. IdleIsCleared' BY DEF IdleIsCleared, TypeOK
  <2>9. OnlyPlainCloses' BY DEF OnlyPlainCloses, TypeOK
  <2>10. RequestKept' BY DEF RequestKept, ClosesWithResultSet, OnlyPlainCloses, TypeOK
  <2>11. PointerNeedsConnection' BY DEF PointerNeedsConnection, TypeOK
  <2> QED BY <2>1, <2>2, <2>3, <2>4, <2>5, <2>6, <2>7, <2>8, <2>9, <2>10, <2>11 DEF IInv
<1>3. CASE PreparedKeysFail
  <2> USE <1>3 DEF IInv, stmtVars, PreparedKeysFail, Restarted, ClosedResultSet, FirstSteps
  <2>1. TypeOK'
    <3>1. rs' \in ResultSets BY DEF TypeOK
    <3>2. vm' \in Machines BY DEF TypeOK, CursorAssumption
    <3>3. pointerOpen' \in BOOLEAN /\ closed' \in BOOLEAN BY DEF TypeOK
    <3>4. resultsWaiting' \in BOOLEAN /\ query' \in BOOLEAN BY DEF TypeOK
    <3> QED BY <3>1, <3>2, <3>3, <3>4 DEF TypeOK, CursorAssumption
  <2>2. RowIsPosition' BY DEF RowIsPosition, CursorHasOwner, OpenHasPointer, WaitingIsFirst, IdleIsCleared, TypeOK
  <2>3. CursorHasOwner' BY DEF CursorHasOwner, OpenHasPointer, TypeOK
  <2>4. NoMoreIsNoMore' BY DEF NoMoreIsNoMore, OpenHasPointer, PointerNeedsConnection, TypeOK
  <2>5. ClosesWithResultSet' BY DEF ClosesWithResultSet, RequestKept, OnlyPlainCloses, OpenHasPointer, TypeOK
  <2>6. WaitingIsFirst' BY DEF WaitingIsFirst, OpenHasPointer, CursorHasOwner, RequestKept, ClosesWithResultSet, TypeOK
  <2>7. OpenHasPointer' BY DEF OpenHasPointer, PointerNeedsConnection, TypeOK
  <2>8. IdleIsCleared' BY DEF IdleIsCleared, TypeOK
  <2>9. OnlyPlainCloses' BY DEF OnlyPlainCloses, TypeOK
  <2>10. RequestKept' BY DEF RequestKept, ClosesWithResultSet, OnlyPlainCloses, TypeOK
  <2>11. PointerNeedsConnection' BY DEF PointerNeedsConnection, TypeOK
  <2> QED BY <2>1, <2>2, <2>3, <2>4, <2>5, <2>6, <2>7, <2>8, <2>9, <2>10, <2>11 DEF IInv
<1>4. CASE PreparedExecute
  <2> USE <1>4 DEF IInv, stmtVars, PreparedExecute, Restarted, ClosedResultSet, FirstSteps, Stepped
  <2>1. TypeOK'
    <3>1. rs' \in ResultSets BY DEF TypeOK
    <3>2. vm' \in Machines BY DEF TypeOK, CursorAssumption
    <3>3. pointerOpen' \in BOOLEAN /\ closed' \in BOOLEAN BY DEF TypeOK
    <3>4. resultsWaiting' \in BOOLEAN /\ query' \in BOOLEAN BY DEF TypeOK
    <3> QED BY <3>1, <3>2, <3>3, <3>4 DEF TypeOK, CursorAssumption
  <2>2. RowIsPosition' BY DEF RowIsPosition, CursorHasOwner, OpenHasPointer, WaitingIsFirst, IdleIsCleared, TypeOK
  <2>3. CursorHasOwner' BY DEF CursorHasOwner, OpenHasPointer, TypeOK
  <2>4. NoMoreIsNoMore' BY DEF NoMoreIsNoMore, OpenHasPointer, PointerNeedsConnection, TypeOK
  <2>5. ClosesWithResultSet' BY DEF ClosesWithResultSet, RequestKept, OnlyPlainCloses, OpenHasPointer, TypeOK
  <2>6. WaitingIsFirst' BY DEF WaitingIsFirst, OpenHasPointer, CursorHasOwner, RequestKept, ClosesWithResultSet, TypeOK
  <2>7. OpenHasPointer' BY DEF OpenHasPointer, PointerNeedsConnection, TypeOK
  <2>8. IdleIsCleared' BY DEF IdleIsCleared, TypeOK
  <2>9. OnlyPlainCloses' BY DEF OnlyPlainCloses, TypeOK
  <2>10. RequestKept' BY DEF RequestKept, ClosesWithResultSet, OnlyPlainCloses, TypeOK
  <2>11. PointerNeedsConnection' BY DEF PointerNeedsConnection, TypeOK
  <2> QED BY <2>1, <2>2, <2>3, <2>4, <2>5, <2>6, <2>7, <2>8, <2>9, <2>10, <2>11 DEF IInv
<1>5. CASE PreparedExecuteQuery
  <2> USE <1>5 DEF IInv, stmtVars, PreparedExecuteQuery, ClosedResultSet, Opened, Stepped
  <2>0. PICK row \in BOOLEAN : rs' = Opened(ClosedResultSet(rs), row) /\ vm' = Stepped(row)
    OBVIOUS
  <2> USE <2>0
  <2>1. TypeOK'
    <3>1. rs' \in ResultSets BY DEF TypeOK
    <3>2. vm' \in Machines BY SteppedType DEF TypeOK, CursorAssumption
    <3>3. pointerOpen' \in BOOLEAN /\ closed' \in BOOLEAN BY DEF TypeOK
    <3>4. resultsWaiting' \in BOOLEAN /\ query' \in BOOLEAN BY DEF TypeOK
    <3> QED BY <3>1, <3>2, <3>3, <3>4 DEF TypeOK, CursorAssumption
  <2>2. RowIsPosition' BY DEF RowIsPosition, CursorHasOwner, OpenHasPointer, WaitingIsFirst, IdleIsCleared, TypeOK
  <2>3. CursorHasOwner' BY DEF CursorHasOwner, OpenHasPointer, TypeOK
  <2>4. NoMoreIsNoMore' BY DEF NoMoreIsNoMore, OpenHasPointer, PointerNeedsConnection, TypeOK
  <2>5. ClosesWithResultSet' BY DEF ClosesWithResultSet, RequestKept, OnlyPlainCloses, OpenHasPointer, TypeOK
  <2>6. WaitingIsFirst' BY DEF WaitingIsFirst, OpenHasPointer, CursorHasOwner, RequestKept, ClosesWithResultSet, TypeOK
  <2>7. OpenHasPointer' BY DEF OpenHasPointer, PointerNeedsConnection, TypeOK
  <2>8. IdleIsCleared' BY DEF IdleIsCleared, TypeOK
  <2>9. OnlyPlainCloses' BY DEF OnlyPlainCloses, TypeOK
  <2>10. RequestKept' BY DEF RequestKept, ClosesWithResultSet, OnlyPlainCloses, TypeOK
  <2>11. PointerNeedsConnection' BY DEF PointerNeedsConnection, TypeOK
  <2> QED BY <2>1, <2>2, <2>3, <2>4, <2>5, <2>6, <2>7, <2>8, <2>9, <2>10, <2>11 DEF IInv
<1>6. CASE PreparedExecuteUpdate
  <2> USE <1>6 DEF IInv, stmtVars, PreparedExecuteUpdate, Restarted, ClosedResultSet
  <2>1. TypeOK'
    <3>1. rs' \in ResultSets BY DEF TypeOK
    <3>2. vm' \in Machines BY DEF TypeOK, CursorAssumption
    <3>3. pointerOpen' \in BOOLEAN /\ closed' \in BOOLEAN BY DEF TypeOK
    <3>4. resultsWaiting' \in BOOLEAN /\ query' \in BOOLEAN BY DEF TypeOK
    <3> QED BY <3>1, <3>2, <3>3, <3>4 DEF TypeOK, CursorAssumption
  <2>2. RowIsPosition' BY DEF RowIsPosition, CursorHasOwner, OpenHasPointer, WaitingIsFirst, IdleIsCleared, TypeOK
  <2>3. CursorHasOwner' BY DEF CursorHasOwner, OpenHasPointer, TypeOK
  <2>4. NoMoreIsNoMore' BY DEF NoMoreIsNoMore, OpenHasPointer, PointerNeedsConnection, TypeOK
  <2>5. ClosesWithResultSet' BY DEF ClosesWithResultSet, RequestKept, OnlyPlainCloses, OpenHasPointer, TypeOK
  <2>6. WaitingIsFirst' BY DEF WaitingIsFirst, OpenHasPointer, CursorHasOwner, RequestKept, ClosesWithResultSet, TypeOK
  <2>7. OpenHasPointer' BY DEF OpenHasPointer, PointerNeedsConnection, TypeOK
  <2>8. IdleIsCleared' BY DEF IdleIsCleared, TypeOK
  <2>9. OnlyPlainCloses' BY DEF OnlyPlainCloses, TypeOK
  <2>10. RequestKept' BY DEF RequestKept, ClosesWithResultSet, OnlyPlainCloses, TypeOK
  <2>11. PointerNeedsConnection' BY DEF PointerNeedsConnection, TypeOK
  <2> QED BY <2>1, <2>2, <2>3, <2>4, <2>5, <2>6, <2>7, <2>8, <2>9, <2>10, <2>11 DEF IInv
<1>7. CASE PreparedExecuteBatch
  <2> USE <1>7 DEF IInv, stmtVars, PreparedExecuteBatch
  <2>1. TypeOK'
    <3>1. rs' \in ResultSets BY DEF TypeOK
    <3>2. vm' \in Machines BY DEF TypeOK, CursorAssumption
    <3>3. pointerOpen' \in BOOLEAN /\ closed' \in BOOLEAN BY DEF TypeOK
    <3>4. resultsWaiting' \in BOOLEAN /\ query' \in BOOLEAN BY DEF TypeOK
    <3> QED BY <3>1, <3>2, <3>3, <3>4 DEF TypeOK, CursorAssumption
  <2>2. RowIsPosition' BY DEF RowIsPosition, CursorHasOwner, OpenHasPointer, WaitingIsFirst, IdleIsCleared, TypeOK
  <2>3. CursorHasOwner' BY DEF CursorHasOwner, OpenHasPointer, TypeOK
  <2>4. NoMoreIsNoMore' BY DEF NoMoreIsNoMore, OpenHasPointer, PointerNeedsConnection, TypeOK
  <2>5. ClosesWithResultSet' BY DEF ClosesWithResultSet, RequestKept, OnlyPlainCloses, OpenHasPointer, TypeOK
  <2>6. WaitingIsFirst' BY DEF WaitingIsFirst, OpenHasPointer, CursorHasOwner, RequestKept, ClosesWithResultSet, TypeOK
  <2>7. OpenHasPointer' BY DEF OpenHasPointer, PointerNeedsConnection, TypeOK
  <2>8. IdleIsCleared' BY DEF IdleIsCleared, TypeOK
  <2>9. OnlyPlainCloses' BY DEF OnlyPlainCloses, TypeOK
  <2>10. RequestKept' BY DEF RequestKept, ClosesWithResultSet, OnlyPlainCloses, TypeOK
  <2>11. PointerNeedsConnection' BY DEF PointerNeedsConnection, TypeOK
  <2> QED BY <2>1, <2>2, <2>3, <2>4, <2>5, <2>6, <2>7, <2>8, <2>9, <2>10, <2>11 DEF IInv
<1>8. CASE PreparedClosesItself
  <2> USE <1>8 DEF IInv, stmtVars, PreparedClosesItself, ResultSetClosed, ClosedResultSet, ClosedMachine, ClosesStatement
  <2>1. TypeOK'
    <3>1. rs' \in ResultSets BY DEF TypeOK
    <3>2. vm' \in Machines BY DEF TypeOK, CursorAssumption
    <3>3. pointerOpen' \in BOOLEAN /\ closed' \in BOOLEAN BY DEF TypeOK
    <3>4. resultsWaiting' \in BOOLEAN /\ query' \in BOOLEAN BY DEF TypeOK
    <3> QED BY <3>1, <3>2, <3>3, <3>4 DEF TypeOK, CursorAssumption
  <2>2. RowIsPosition' BY DEF RowIsPosition, CursorHasOwner, OpenHasPointer, WaitingIsFirst, IdleIsCleared, TypeOK
  <2>3. CursorHasOwner' BY DEF CursorHasOwner, OpenHasPointer, TypeOK
  <2>4. NoMoreIsNoMore' BY DEF NoMoreIsNoMore, OpenHasPointer, PointerNeedsConnection, TypeOK
  <2>5. ClosesWithResultSet' BY DEF ClosesWithResultSet, RequestKept, OnlyPlainCloses, OpenHasPointer, TypeOK
  <2>6. WaitingIsFirst' BY DEF WaitingIsFirst, OpenHasPointer, CursorHasOwner, RequestKept, ClosesWithResultSet, TypeOK
  <2>7. OpenHasPointer' BY DEF OpenHasPointer, PointerNeedsConnection, TypeOK
  <2>8. IdleIsCleared' BY DEF IdleIsCleared, TypeOK
  <2>9. OnlyPlainCloses' BY DEF OnlyPlainCloses, TypeOK
  <2>10. RequestKept' BY DEF RequestKept, ClosesWithResultSet, OnlyPlainCloses, TypeOK
  <2>11. PointerNeedsConnection' BY DEF PointerNeedsConnection, TypeOK
  <2> QED BY <2>1, <2>2, <2>3, <2>4, <2>5, <2>6, <2>7, <2>8, <2>9, <2>10, <2>11 DEF IInv
<1> QED BY <1>1, <1>2, <1>3, <1>4, <1>5, <1>6, <1>7, <1>8

LEMMA IterationKeeps ==
  ASSUME CursorAssumption, IInv, NextFirst \/ NextRow \/ NextDone \/ NextFails
  PROVE  IInv'
<1>1. CASE NextFirst
  <2> USE <1>1 DEF IInv, stmtVars, NextFirst, Iterating
  <2>1. TypeOK'
    <3>1. rs' \in ResultSets BY DEF TypeOK
    <3>2. vm' \in Machines BY DEF TypeOK, CursorAssumption
    <3>3. pointerOpen' \in BOOLEAN /\ closed' \in BOOLEAN BY DEF TypeOK
    <3>4. resultsWaiting' \in BOOLEAN /\ query' \in BOOLEAN BY DEF TypeOK
    <3> QED BY <3>1, <3>2, <3>3, <3>4 DEF TypeOK, CursorAssumption
  <2>2. RowIsPosition' BY DEF RowIsPosition, CursorHasOwner, OpenHasPointer, WaitingIsFirst, IdleIsCleared, TypeOK
  <2>3. CursorHasOwner' BY DEF CursorHasOwner, OpenHasPointer, TypeOK
  <2>4. NoMoreIsNoMore' BY DEF NoMoreIsNoMore, OpenHasPointer, PointerNeedsConnection, TypeOK
  <2>5. ClosesWithResultSet' BY DEF ClosesWithResultSet, RequestKept, OnlyPlainCloses, OpenHasPointer, TypeOK
  <2>6. WaitingIsFirst' BY DEF WaitingIsFirst, OpenHasPointer, CursorHasOwner, RequestKept, ClosesWithResultSet, TypeOK
  <2>7. OpenHasPointer' BY DEF OpenHasPointer, PointerNeedsConnection, TypeOK
  <2>8. IdleIsCleared' BY DEF IdleIsCleared, TypeOK
  <2>9. OnlyPlainCloses' BY DEF OnlyPlainCloses, TypeOK
  <2>10. RequestKept' BY DEF RequestKept, ClosesWithResultSet, OnlyPlainCloses, TypeOK
  <2>11. PointerNeedsConnection' BY DEF PointerNeedsConnection, TypeOK
  <2> QED BY <2>1, <2>2, <2>3, <2>4, <2>5, <2>6, <2>7, <2>8, <2>9, <2>10, <2>11 DEF IInv
<1>2. CASE NextRow
  <2> USE <1>2 DEF IInv, stmtVars, NextRow, StepMeets, Iterating, Position
  <2>1. TypeOK'
    <3>1. rs' \in ResultSets BY DEF TypeOK
    <3>2. vm' \in Machines BY DEF TypeOK, CursorAssumption
    <3>3. pointerOpen' \in BOOLEAN /\ closed' \in BOOLEAN BY DEF TypeOK
    <3>4. resultsWaiting' \in BOOLEAN /\ query' \in BOOLEAN BY DEF TypeOK
    <3> QED BY <3>1, <3>2, <3>3, <3>4 DEF TypeOK, CursorAssumption
  <2>2. RowIsPosition' BY DEF RowIsPosition, CursorHasOwner, OpenHasPointer, WaitingIsFirst, IdleIsCleared, TypeOK
  <2>3. CursorHasOwner' BY DEF CursorHasOwner, OpenHasPointer, TypeOK
  <2>4. NoMoreIsNoMore' BY DEF NoMoreIsNoMore, OpenHasPointer, PointerNeedsConnection, TypeOK
  <2>5. ClosesWithResultSet' BY DEF ClosesWithResultSet, RequestKept, OnlyPlainCloses, OpenHasPointer, TypeOK
  <2>6. WaitingIsFirst' BY DEF WaitingIsFirst, OpenHasPointer, CursorHasOwner, RequestKept, ClosesWithResultSet, TypeOK
  <2>7. OpenHasPointer' BY DEF OpenHasPointer, PointerNeedsConnection, TypeOK
  <2>8. IdleIsCleared' BY DEF IdleIsCleared, TypeOK
  <2>9. OnlyPlainCloses' BY DEF OnlyPlainCloses, TypeOK
  <2>10. RequestKept' BY DEF RequestKept, ClosesWithResultSet, OnlyPlainCloses, TypeOK
  <2>11. PointerNeedsConnection' BY DEF PointerNeedsConnection, TypeOK
  <2> QED BY <2>1, <2>2, <2>3, <2>4, <2>5, <2>6, <2>7, <2>8, <2>9, <2>10, <2>11 DEF IInv
<1>3. CASE NextDone
  <2> USE <1>3 DEF IInv, stmtVars, NextDone, StepMeets, Iterating, Position
  <2>1. TypeOK'
    <3>1. rs' \in ResultSets BY DEF TypeOK
    <3>2. vm' \in Machines BY DEF TypeOK, CursorAssumption
    <3>3. pointerOpen' \in BOOLEAN /\ closed' \in BOOLEAN BY DEF TypeOK
    <3>4. resultsWaiting' \in BOOLEAN /\ query' \in BOOLEAN BY DEF TypeOK
    <3> QED BY <3>1, <3>2, <3>3, <3>4 DEF TypeOK, CursorAssumption
  <2>2. RowIsPosition' BY DEF RowIsPosition, CursorHasOwner, OpenHasPointer, WaitingIsFirst, IdleIsCleared, TypeOK
  <2>3. CursorHasOwner' BY DEF CursorHasOwner, OpenHasPointer, TypeOK
  <2>4. NoMoreIsNoMore' BY DEF NoMoreIsNoMore, OpenHasPointer, PointerNeedsConnection, TypeOK
  <2>5. ClosesWithResultSet' BY DEF ClosesWithResultSet, RequestKept, OnlyPlainCloses, OpenHasPointer, TypeOK
  <2>6. WaitingIsFirst' BY DEF WaitingIsFirst, OpenHasPointer, CursorHasOwner, RequestKept, ClosesWithResultSet, TypeOK
  <2>7. OpenHasPointer' BY DEF OpenHasPointer, PointerNeedsConnection, TypeOK
  <2>8. IdleIsCleared' BY DEF IdleIsCleared, TypeOK
  <2>9. OnlyPlainCloses' BY DEF OnlyPlainCloses, TypeOK
  <2>10. RequestKept' BY DEF RequestKept, ClosesWithResultSet, OnlyPlainCloses, TypeOK
  <2>11. PointerNeedsConnection' BY DEF PointerNeedsConnection, TypeOK
  <2> QED BY <2>1, <2>2, <2>3, <2>4, <2>5, <2>6, <2>7, <2>8, <2>9, <2>10, <2>11 DEF IInv
<1>4. CASE NextFails
  <2> USE <1>4 DEF IInv, stmtVars, NextFails, StepMeets, Iterating, Position
  <2>1. TypeOK'
    <3>1. rs' \in ResultSets BY DEF TypeOK
    <3>2. vm' \in Machines BY DEF TypeOK, CursorAssumption
    <3>3. pointerOpen' \in BOOLEAN /\ closed' \in BOOLEAN BY DEF TypeOK
    <3>4. resultsWaiting' \in BOOLEAN /\ query' \in BOOLEAN BY DEF TypeOK
    <3> QED BY <3>1, <3>2, <3>3, <3>4 DEF TypeOK, CursorAssumption
  <2>2. RowIsPosition' BY DEF RowIsPosition, CursorHasOwner, OpenHasPointer, WaitingIsFirst, IdleIsCleared, TypeOK
  <2>3. CursorHasOwner' BY DEF CursorHasOwner, OpenHasPointer, TypeOK
  <2>4. NoMoreIsNoMore' BY DEF NoMoreIsNoMore, OpenHasPointer, PointerNeedsConnection, TypeOK
  <2>5. ClosesWithResultSet' BY DEF ClosesWithResultSet, RequestKept, OnlyPlainCloses, OpenHasPointer, TypeOK
  <2>6. WaitingIsFirst' BY DEF WaitingIsFirst, OpenHasPointer, CursorHasOwner, RequestKept, ClosesWithResultSet, TypeOK
  <2>7. OpenHasPointer' BY DEF OpenHasPointer, PointerNeedsConnection, TypeOK
  <2>8. IdleIsCleared' BY DEF IdleIsCleared, TypeOK
  <2>9. OnlyPlainCloses' BY DEF OnlyPlainCloses, TypeOK
  <2>10. RequestKept' BY DEF RequestKept, ClosesWithResultSet, OnlyPlainCloses, TypeOK
  <2>11. PointerNeedsConnection' BY DEF PointerNeedsConnection, TypeOK
  <2> QED BY <2>1, <2>2, <2>3, <2>4, <2>5, <2>6, <2>7, <2>8, <2>9, <2>10, <2>11 DEF IInv
<1> QED BY <1>1, <1>2, <1>3, <1>4

LEMMA StutterKeeps == ASSUME IInv, UNCHANGED vars PROVE IInv'
BY DEF IInv, vars, stmtVars, TypeOK, RowIsPosition, CursorHasOwner,
  OpenHasPointer, NoMoreIsNoMore, ClosesWithResultSet, IdleIsCleared,
  WaitingIsFirst, OnlyPlainCloses, RequestKept, PointerNeedsConnection

LEMMA Inductive == ASSUME CursorAssumption, IInv, [Next]_vars PROVE IInv'
<1>1. CASE CloseResultSet \/ Close \/ CloseConnection \/ GetMoreResults
  BY <1>1, ClosingKeeps
<1>2. CASE SetCloseOnCompletion \/ SetMaxRows \/ GetResultSet
  BY <1>2, SettingKeeps
<1>3. CASE ExecutePlain
  BY <1>3, PlainKeeps DEF ExecutePlain
<1>4. CASE ExecutePrepared
  BY <1>4, PreparedKeeps DEF ExecutePrepared
<1>5. CASE NextFirst \/ NextRow \/ NextDone \/ NextFails
  BY <1>5, IterationKeeps
<1>6. CASE UNCHANGED vars
  BY <1>6, StutterKeeps
<1> QED BY <1>1, <1>2, <1>3, <1>4, <1>5, <1>6 DEF Next

-----------------------------------------------------------------------------
(* The theorems.                                                           *)

\* The inductive invariant holds in every reachable state of a statement.
THEOREM Invariance == Spec => []IInv
<1>1. Init => IInv BY Initially, CursorAssumption
<1>2. IInv /\ [Next]_vars => IInv' BY Inductive, CursorAssumption
<1> QED BY <1>1, <1>2, PTL DEF Spec

\* Every reachable state is well typed.
THEOREM TypeCorrect == Spec => []TypeOK
<1>1. IInv => TypeOK BY DEF IInv
<1> QED BY <1>1, Invariance, PTL

\* JDBC3ResultSet.row is the position of the query until a call throws or a batch
\* runs, for results of any length and any limit.
THEOREM RowIsPositionHolds == Spec => []RowIsPosition
<1>1. IInv => RowIsPosition BY DEF IInv
<1> QED BY <1>1, Invariance, PTL

\* No call leaves a query active that neither an open result set nor
\* resultsWaiting stands for, or a result set open over a closed pointer: exec()
\* never meets the internal error of an open result set.
THEOREM CursorHasOwnerHolds == Spec => []CursorHasOwner
<1>1. IInv => CursorHasOwner BY DEF IInv
<1> QED BY <1>1, Invariance, PTL

\* The getMoreResults/getUpdateCount loop ends.
THEOREM NoMoreIsNoMoreHolds == Spec => []NoMoreIsNoMore
<1>1. IInv => NoMoreIsNoMore BY DEF IInv
<1> QED BY <1>1, Invariance, PTL

\* executeQuery(sql, true) of an idle statement: it is finalized with its result set.
THEOREM ClosesWithResultSetHolds == Spec => []ClosesWithResultSet
<1>1. IInv => ClosesWithResultSet BY DEF IInv
<1> QED BY <1>1, Invariance, PTL

\* The result set of a statement that is to close on completion ends in a call
\* that closes the statement: at the latest when another execution begins.
Ended == ~rs'.open \/ rs'.row < rs.row

LEMMA CompletionStep ==
  ASSUME IInv, [Next]_vars, closeOnCompletion, rs.open, Ended
  PROVE  closed' /\ (kind = "prepared" => ~pointerOpen')
<1> USE DEF IInv, ClosesStatement
<1>1. CASE CloseResultSet \/ Close \/ GetMoreResults \/ PreparedClosesItself
  <2>1. closed'
    BY <1>1 DEF CloseResultSet, Close, GetMoreResults, PreparedClosesItself, ResultSetClosed
  <2>2. kind = "prepared" => ~pointerOpen'
    BY <1>1 DEF CloseResultSet, Close, GetMoreResults, PreparedClosesItself, ResultSetClosed,
                OnlyPlainCloses
  <2> QED BY <2>1, <2>2
<1>2. ASSUME NEW close \in BOOLEAN, Recompiled(close) PROVE kind = "plain" /\ closed'
  <2>1. kind = "plain" /\ pointerOpen BY <1>2 DEF Recompiled, OpenHasPointer
  <2>2. Requested(close).open BY DEF Requested, TypeOK
  <2> QED BY <1>2, <2>1, <2>2 DEF Recompiled, IdleClosed
<1>3. ASSUME NEW close \in BOOLEAN, ExecuteQuery(close) PROVE kind = "plain" /\ closed'
  <2>1. kind = "plain" /\ pointerOpen BY <1>3 DEF ExecuteQuery, OpenHasPointer
  <2>2. Requested(close).open BY DEF Requested, TypeOK
  <2> QED BY <1>3, <2>1, <2>2 DEF ExecuteQuery, IdleClosed
<1>4. CASE ExecuteQueryOfUpdate
  <2>1. PICK close \in BOOLEAN :
          /\ connOpen /\ kind = "plain"
          /\ closed' = (IdleClosed(Requested(close))
                          \/ IdleResultSet(Requested(close)).closeStmt)
    BY <1>4 DEF ExecuteQueryOfUpdate
  <2>2. pointerOpen BY <2>1 DEF OpenHasPointer
  <2>3. Requested(close).open BY DEF Requested, TypeOK
  <2> QED BY <2>1, <2>2, <2>3 DEF IdleClosed
<1>5. CASE ExecutePlain
  BY <1>2, <1>3, <1>4, <1>5 DEF ExecutePlain, ExecuteWithoutCursor, WithoutCursor,
    ExecuteRejected, ExecuteFails, Execute
<1>6. CASE \/ PreparedFails \/ PreparedFatal \/ PreparedKeysFail
           \/ PreparedExecute \/ PreparedExecuteQuery \/ PreparedExecuteUpdate
  \* A closed prepared statement has no pointer, so closing the set closes it.
  <2>1. kind = "prepared" /\ pointerOpen /\ ~ClosesStatement(rs)
    BY <1>6 DEF PreparedFails, PreparedFatal, PreparedKeysFail,
      PreparedExecute, PreparedExecuteQuery, PreparedExecuteUpdate, Restarted
  <2> QED BY <2>1 DEF OnlyPlainCloses
<1>a. rs \in ResultSets /\ rs.row \in Nat BY DEF TypeOK, ResultSets
<1>b. ASSUME rs' = rs PROVE FALSE
  BY <1>a, <1>b DEF Ended
<1>7. CASE NextFirst \/ NextRow \/ NextDone \/ NextFails
  <2>1. \/ rs.row = 0 /\ rs' = [rs EXCEPT !.row = 1]
        \/ rs' = [rs EXCEPT !.row = rs.row + 1]
        \/ rs' = [rs EXCEPT !.pastLastRow = TRUE]
        \/ rs' = rs
    BY <1>7 DEF NextFirst, NextRow, NextDone, NextFails
  <2>2. rs'.open /\ rs'.row >= rs.row /\ rs'.row \in Nat
    BY <2>1, <1>a DEF ResultSets
  <2> QED BY <2>2, <1>a DEF Ended
<1>8. CASE GetResultSet
  BY <1>8 DEF GetResultSet
<1>9. CASE PreparedExecuteBatch \/ CloseConnection \/ SetCloseOnCompletion
             \/ SetMaxRows \/ UNCHANGED vars
  <2>1. rs' = rs
    BY <1>9 DEF PreparedExecuteBatch, CloseConnection, SetCloseOnCompletion, SetMaxRows, vars
  <2> QED BY <2>1, <1>b
<1> QED BY <1>1, <1>5, <1>6, <1>7, <1>8, <1>9 DEF Next, ExecutePrepared

\* closeOnCompletion: plain or prepared, the statement is closed when its result
\* set is, and no prepared one runs on.
THEOREM CompletionClosesHolds == Spec => CompletionCloses
<1>1. IInv /\ [Next]_vars =>
        [closeOnCompletion /\ rs.open /\ (~rs'.open \/ rs'.row < rs.row)
           => closed' /\ (kind = "prepared" => ~pointerOpen')]_vars
  BY CompletionStep DEF Ended
<1> QED BY <1>1, Invariance, PTL DEF Spec, CompletionCloses

-----------------------------------------------------------------------------
(* The batch.                                                              *)

\* The steps of the cursor that do not run a batch.
Steps ==
  \/ CloseResultSet \/ GetMoreResults \/ PreparedClosesItself \/ Close \/ CloseConnection
  \/ SetCloseOnCompletion \/ SetMaxRows \/ GetResultSet
  \/ NextFirst \/ NextRow \/ NextDone \/ NextFails
  \/ PreparedFails \/ PreparedFatal
  \/ PreparedExecute \/ PreparedExecuteQuery \/ PreparedExecuteUpdate \/ PreparedKeysFail
  \/ ExecutePlain

LEMMA KindKept == ASSUME Steps PROVE kind' = kind
<1>1. CASE CloseResultSet \/ GetMoreResults \/ PreparedClosesItself \/ Close \/ CloseConnection
  BY <1>1 DEF CloseResultSet, GetMoreResults, PreparedClosesItself, Close, CloseConnection
<1>2. CASE SetCloseOnCompletion \/ SetMaxRows \/ GetResultSet
  BY <1>2 DEF SetCloseOnCompletion, SetMaxRows, GetResultSet
<1>3. CASE NextFirst \/ NextRow \/ NextDone \/ NextFails
  BY <1>3 DEF NextFirst, NextRow, NextDone, NextFails, StepMeets
<1>4. CASE \/ PreparedFails \/ PreparedFatal \/ PreparedExecute
           \/ PreparedExecuteQuery \/ PreparedExecuteUpdate \/ PreparedKeysFail
  BY <1>4 DEF PreparedFails, PreparedFatal, PreparedExecute, PreparedExecuteQuery,
              PreparedExecuteUpdate, PreparedKeysFail, Restarted
<1>5. CASE ExecutePlain
  BY <1>5 DEF ExecutePlain, ExecuteWithoutCursor, WithoutCursor, ExecuteRejected,
              ExecuteFails, Execute, ExecuteQuery, ExecuteQueryOfUpdate, Recompiled
<1> QED BY <1>1, <1>2, <1>3, <1>4, <1>5 DEF Steps

-----------------------------------------------------------------------------
\* RoomForRow, with what its arithmetic needs.
BInv ==
  /\ kind \in {"plain", "prepared"}
  /\ length \in Nat /\ batchPos \in Nat
  /\ RoomForRow

LEMMA BatchInitially == ASSUME BatchInit PROVE BInv
BY DEF BatchInit, Init, BInv, RoomForRow

\* What a call that is not about the batch does to it.
LEMMA ClosingKeepsBatch ==
  ASSUME BInv, kind' = kind, InternalClose \/ UNCHANGED batchVars
  PROVE  BInv'
BY DEF BInv, RoomForRow, InternalClose, batchVars

LEMMA ClearingKeepsBatch ==
  ASSUME BatchAssumption, BInv, kind' = kind, ClearBatch
  PROVE  BInv'
BY DEF BatchAssumption, BInv, RoomForRow, ClearBatch

LEMMA BatchInductive ==
  ASSUME BatchAssumption, BInv, [BatchNext]_<<vars, batchVars, ran>>
  PROVE  BInv'
<1>1. CASE UNCHANGED <<vars, batchVars, ran>>
  BY <1>1, ClosingKeepsBatch DEF vars
<1>2. CASE Cursor \/ PlainRun \/ PreparedRun
  <2>1. Steps
    BY <1>2 DEF Cursor, PlainRun, PreparedRun, Steps
  <2>2. InternalClose \/ UNCHANGED batchVars
    BY <1>2 DEF Cursor, PlainRun, PreparedRun
  <2> QED BY <2>1, <2>2, KindKept, ClosingKeepsBatch
<1>3. CASE SetParameter
  <2>1. /\ kind' = kind /\ kind = "prepared"
        /\ length' = Size /\ batchPos' = batchPos
    BY <1>3 DEF SetParameter, vars
  <2> QED BY <2>1 DEF BInv, RoomForRow, Size, BatchAssumption
<1>4. CASE ClearParameters
  BY <1>4 DEF ClearParameters, vars, BInv, RoomForRow
<1>5. CASE PreparedAddBatch
  <2>1. /\ kind' = kind /\ kind = "prepared"
        /\ batchPos' = batchPos + ParamCount /\ length' = Roomy(batchPos + ParamCount)
    BY <1>5 DEF PreparedAddBatch, vars
  <2> QED BY <2>1 DEF BInv, RoomForRow, Roomy, Size, BatchAssumption
<1>6. CASE PreparedRunBatch \/ PreparedBatchRefused
  BY <1>6, ClearingKeepsBatch
  DEF PreparedRunBatch, PreparedExecuteBatch, PreparedBatchRefused, vars
<1>7. CASE PlainAddBatch
  <2>1. kind' = kind /\ kind = "plain"
    BY <1>7 DEF PlainAddBatch, WithoutCursor, Recompiled
  <2>2. /\ batchPos' = (IF pointerOpen THEN 0 ELSE batchPos) + 1
        /\ length' =
             LET pos  == IF pointerOpen THEN 0 ELSE batchPos
                 size == IF pointerOpen THEN 0 ELSE length
                 most == IF 2 * pos > 10 THEN 2 * pos ELSE 10
             IN  IF pos + 1 >= size THEN most ELSE size
    BY <1>7 DEF PlainAddBatch
  <2> QED BY <2>1, <2>2 DEF BInv, RoomForRow
<1>8. CASE PlainRunBatch
  <2>1. kind' = kind
    BY <1>8 DEF PlainRunBatch, WithoutCursor, Recompiled
  <2>2. InternalClose \/ ClearBatch
    BY <1>8 DEF PlainRunBatch
  <2> QED BY <2>1, <2>2, ClosingKeepsBatch, ClearingKeepsBatch
<1>9. CASE ClearBatch /\ UNCHANGED <<vars, ran>>
  BY <1>9, ClearingKeepsBatch DEF vars
<1> QED BY <1>1, <1>2, <1>3, <1>4, <1>5, <1>6, <1>7, <1>8, <1>9 DEF BatchNext

\* Neither a setter nor addBatch writes behind the end of the array, for any number
\* of parameters and entries and whatever is executed and closed in between.
THEOREM RoomForRowHolds == BatchSpec => []RoomForRow
<1>1. BInv => RoomForRow BY DEF BInv
<1> QED BY <1>1, BatchAssumption, BatchInitially, BatchInductive, PTL DEF BatchSpec

-----------------------------------------------------------------------------
LEMMA StepIsCursorStep ==
  ASSUME [BatchNext]_<<vars, batchVars, ran>>
  PROVE  [Next]_vars
<1>1. CASE Cursor \/ PlainRun \/ PreparedRun
  BY <1>1 DEF Cursor, PlainRun, PreparedRun, Next, ExecutePrepared
<1>2. CASE PlainAddBatch \/ PlainRunBatch
  BY <1>2 DEF PlainAddBatch, PlainRunBatch, Next, ExecutePlain, ExecuteWithoutCursor
<1>3. CASE PreparedRunBatch
  BY <1>3 DEF PreparedRunBatch, Next, ExecutePrepared
<1>4. CASE SetParameter \/ ClearParameters \/ PreparedAddBatch \/ PreparedBatchRefused
           \/ (ClearBatch /\ UNCHANGED <<vars, ran>>) \/ UNCHANGED <<vars, batchVars, ran>>
  BY <1>4 DEF SetParameter, ClearParameters, PreparedAddBatch, PreparedBatchRefused
<1> QED BY <1>1, <1>2, <1>3, <1>4 DEF BatchNext

\* A statement with its batch behaves as StatementCursor says, so what is proved of
\* Spec holds of BatchSpec.
THEOREM ImplementsCursor == BatchSpec => Spec
<1>1. BatchInit => Init BY DEF BatchInit
<1> QED BY <1>1, StepIsCursorStep, PTL DEF BatchSpec, Spec

-----------------------------------------------------------------------------
(* The queue: what the array stands for.                                   *)

Parameters ==
  IF kind = "plain" \/ length = 0 THEN BlankRow
  ELSE [j \in 1 .. ParamCount |-> cells[batchPos + j - 1]]

Queued ==
  IF length = 0 THEN <<>>
  ELSE IF kind = "plain" THEN [i \in 1 .. batchPos |-> cells[i - 1]]
  ELSE [i \in 1 .. batchQueryCount |-> Row(i - 1)]

BatchRows == [1 .. ParamCount -> Values \cup {Null}]

\* The actions of EntryQueue in these terms.
LEMMA QueueActions ==
  /\ Queue!Init <=>
       /\ (kind = "prepared") \in BOOLEAN
       /\ Queued = <<>> /\ Parameters = BlankRow /\ ran = <<>>
  /\ Queue!SetParameters <=>
       /\ kind = "prepared" /\ Parameters' \in BatchRows
       /\ UNCHANGED <<kind = "prepared", Queued, ran>>
  /\ Queue!Add <=>
       /\ \E entry \in (IF kind = "prepared" THEN {Parameters} ELSE SqlTexts) :
            Queued' = Append(Queued, entry)
       /\ UNCHANGED <<kind = "prepared", Parameters, ran>>
  /\ Queue!Forget <=>
       Queued' = <<>> /\ Parameters' = BlankRow /\ UNCHANGED <<kind = "prepared", ran>>
  /\ Queue!Restart <=>
       /\ ~(kind = "prepared") /\ Parameters' = BlankRow
       /\ \E entry \in SqlTexts : Queued' = <<entry>>
       /\ UNCHANGED <<kind = "prepared", ran>>
  /\ Queue!Run <=>
       /\ \E n \in 0 .. Len(Queued) : ran' = SubSeq(Queued, 1, n)
       /\ Queued' = <<>> /\ Parameters' = BlankRow
       /\ UNCHANGED (kind = "prepared")
  /\ Queue!Bind <=>
       /\ kind = "prepared"
       /\ ran' = <<IF Queued = <<>> THEN Parameters ELSE Head(Queued)>>
       /\ UNCHANGED <<kind = "prepared", Queued, Parameters>>
BY DEF Queue!Init, Queue!SetParameters, Queue!Add, Queue!Forget, Queue!Restart, Queue!Run,
       Queue!Bind, Queued, Parameters, BatchRows

\* The cells of the first n rows lie below n * p.
LEMMA RowWithin ==
  ASSUME NEW p \in Nat \ {0}, NEW n \in Nat, NEW i \in 1 .. n, NEW j \in 1 .. p
  PROVE  (i - 1) * p + j - 1 \in 0 .. n * p - 1
<1> DEFINE d == n - i
<1>1. d \in Nat /\ n = i + d
  OBVIOUS
<1>2. d * p \in Nat /\ (i - 1) * p \in Nat /\ i * p \in Nat
  BY <1>1
<1>3. n * p = i * p + d * p
  BY <1>1
<1>4. (i - 1) * p = i * p - p
  OBVIOUS
<1> QED BY <1>2, <1>3, <1>4

\* An open prepared statement fills the row behind those that were added.
QInv ==
  /\ BInv
  /\ batchQueryCount \in Nat
  /\ DOMAIN cells = 0 .. length - 1
  /\ kind = "prepared" => \A i \in 0 .. length - 1 : cells[i] \in Values \cup {Null}
  /\ kind = "prepared" /\ pointerOpen => batchPos = batchQueryCount * ParamCount

LEMMA QueueInitially == ASSUME BatchAssumption, BatchInit PROVE QInv
<1>1. BInv BY BatchInitially
<1>2. batchQueryCount = 0 /\ batchPos = 0 /\ length = 0 /\ cells = <<>> BY DEF BatchInit
<1>3. DOMAIN cells = 0 .. length - 1 BY <1>2
<1>4. batchPos = batchQueryCount * ParamCount BY <1>2 DEF BatchAssumption
<1> QED BY <1>1, <1>2, <1>3, <1>4 DEF QInv

\* A prepared statement that is closed stays closed.
LEMMA ClosedForGood ==
  ASSUME Steps, kind = "prepared", pointerOpen'
  PROVE  pointerOpen
<1>1. CASE CloseResultSet \/ GetMoreResults \/ PreparedClosesItself \/ Close \/ CloseConnection
  BY <1>1 DEF CloseResultSet, GetMoreResults, PreparedClosesItself, ResultSetClosed, Close, CloseConnection
<1>2. CASE SetCloseOnCompletion \/ SetMaxRows \/ GetResultSet
  BY <1>2 DEF SetCloseOnCompletion, SetMaxRows, GetResultSet
<1>3. CASE NextFirst \/ NextRow \/ NextDone \/ NextFails
  BY <1>3 DEF NextFirst, NextRow, NextDone, NextFails, StepMeets
<1>4. CASE \/ PreparedFails \/ PreparedFatal \/ PreparedExecute
           \/ PreparedExecuteQuery \/ PreparedExecuteUpdate \/ PreparedKeysFail
  BY <1>4 DEF PreparedFails, PreparedFatal, PreparedExecute, PreparedExecuteQuery,
              PreparedExecuteUpdate, PreparedKeysFail, Restarted
<1>5. CASE ExecutePlain
  BY <1>5 DEF ExecutePlain, ExecuteWithoutCursor, WithoutCursor, ExecuteRejected,
              ExecuteFails, Execute, ExecuteQuery, ExecuteQueryOfUpdate, Recompiled
<1> QED BY <1>1, <1>2, <1>3, <1>4, <1>5 DEF Steps

\* internalClose forgets the entries, or does nothing.
LEMMA Forgetting ==
  ASSUME QInv, kind' = kind, InternalClose,
         kind = "prepared" /\ pointerOpen => ~pointerOpen',
         kind = "prepared" /\ pointerOpen' => pointerOpen
  PROVE  /\ QInv'
         /\ \/ Queued' = <<>> /\ Parameters' = BlankRow /\ (pointerOpen \/ UNCHANGED batchVars)
            \/ UNCHANGED batchVars
<1>1. BInv' BY ClosingKeepsBatch DEF QInv
<1>2. CASE pointerOpen
  <2>1. length' = 0 /\ cells' = <<>> /\ batchPos' = 0 /\ batchQueryCount' = batchQueryCount
    BY <1>2 DEF InternalClose
  <2>2. Queued' = <<>> /\ Parameters' = BlankRow
    BY <2>1 DEF Queued, Parameters, BlankRow
  <2>3. QInv'
    BY <1>1, <1>2, <2>1 DEF QInv
  <2> QED BY <1>2, <2>2, <2>3
<1>3. CASE ~pointerOpen
  <2>1. UNCHANGED batchVars BY <1>3 DEF InternalClose
  <2>2. QInv' BY <1>1, <1>3, <2>1 DEF QInv, batchVars
  <2> QED BY <2>1, <2>2
<1> QED BY <1>2, <1>3

\* clearBatch keeps the array, and blanks it.
LEMMA Clearing ==
  ASSUME BatchAssumption, QInv, kind' = kind, ClearBatch
  PROVE  QInv' /\ Queued' = <<>> /\ Parameters' = BlankRow
<1>1. BInv' BY ClearingKeepsBatch DEF QInv
<1>2. /\ length' = length /\ batchPos' = 0 /\ batchQueryCount' = 0
      /\ DOMAIN cells' = 0 .. length - 1
      /\ \A i \in 0 .. length - 1 : cells'[i] = Null
  BY DEF ClearBatch, QInv
<1>3. QInv'
  BY <1>1, <1>2 DEF QInv, BatchAssumption
<1>4. Queued' = <<>>
  <2>1. [i \in 1 .. 0 |-> cells'[i - 1]] = <<>> /\ [i \in 1 .. 0 |-> Row(i - 1)'] = <<>>
    OBVIOUS
  <2> QED BY <1>2, <2>1 DEF Queued
<1>5. Parameters' = BlankRow
  <2>1. CASE kind = "plain" \/ length = 0
    BY <1>2, <2>1 DEF Parameters, BlankRow
  <2>2. CASE ~(kind = "plain" \/ length = 0)
    <3>1. ParamCount \in Nat /\ ParamCount <= length /\ length \in Nat
      BY <1>1, <1>2, <2>2 DEF BInv, RoomForRow, BatchAssumption
    <3>2. \A j \in 1 .. ParamCount : cells'[0 + j - 1] = Null
      BY <1>2, <3>1
    <3> QED BY <1>2, <2>2, <3>2 DEF Parameters, BlankRow
  <2> QED BY <2>1, <2>2
<1> QED BY <1>3, <1>4, <1>5

\* A setter writes behind the rows that were added, into an array that may have to
\* be made for it.
LEMMA SettingParameter ==
  ASSUME BatchAssumption, QInv, SetParameter
  PROVE  QInv' /\ Queue!SetParameters
<1>1. PICK k \in 1 .. ParamCount, value \in Values \cup {Null} :
        cells' = [Grown(Size) EXCEPT ![batchPos + k - 1] = value]
  BY DEF SetParameter
<1>2. /\ kind' = kind /\ kind = "prepared" /\ pointerOpen' = pointerOpen /\ pointerOpen
      /\ length' = Size /\ batchPos' = batchPos /\ batchQueryCount' = batchQueryCount
      /\ ran' = ran
  BY DEF SetParameter, vars
<1>3. /\ length \in Nat /\ batchPos \in Nat /\ batchQueryCount \in Nat
      /\ ParamCount \in Nat \ {0} /\ Size \in Nat /\ Size # 0
      /\ batchPos + ParamCount <= Size /\ batchPos = batchQueryCount * ParamCount
      /\ length <= Size
  BY <1>2 DEF QInv, BInv, RoomForRow, Size, BatchAssumption
<1>4. /\ DOMAIN cells' = 0 .. Size - 1
      /\ \A i \in 0 .. Size - 1 :
           cells'[i] = IF i = batchPos + k - 1 THEN value ELSE IF i < length THEN cells[i] ELSE Null
  BY <1>1 DEF Grown
<1>5. \A i \in 0 .. Size - 1 : cells'[i] \in Values \cup {Null}
  <2> SUFFICES ASSUME NEW i \in 0 .. Size - 1 PROVE cells'[i] \in Values \cup {Null}
    OBVIOUS
  <2>1. i < length => cells[i] \in Values \cup {Null}
    BY <1>2, <1>3 DEF QInv
  <2> QED BY <1>4, <2>1
<1>6. BInv'
  BY <1>2, <1>3 DEF BInv, RoomForRow
<1>7. QInv'
  BY <1>2, <1>3, <1>4, <1>5, <1>6 DEF QInv
<1>8. Parameters' \in BatchRows
  <2>1. \A j \in 1 .. ParamCount : cells'[batchPos + j - 1] \in Values \cup {Null}
    BY <1>3, <1>5
  <2> QED BY <1>2, <1>3, <2>1 DEF Parameters, BatchRows
<1>9. Queued' = Queued
  <2>1. CASE length = 0
    <3>1. batchPos = 0 BY <2>1, <1>2, <1>3 DEF QInv, BInv, RoomForRow
    <3>2. batchQueryCount = 0
      <4> SUFFICES ASSUME batchQueryCount >= 1 PROVE FALSE
        BY <1>3
      <4>1. (batchQueryCount - 1) * ParamCount \in Nat
        BY <1>3
      <4> QED BY <1>3, <3>1, <4>1
    <3> QED BY <1>2, <1>3, <2>1, <3>2 DEF Queued
  <2>2. CASE length # 0
    <3>1. Size = length BY <2>2 DEF Size
    <3>2. ASSUME NEW i \in 1 .. batchQueryCount PROVE Row(i - 1)' = Row(i - 1)
      <4>1. ASSUME NEW j \in 1 .. ParamCount
            PROVE  cells'[(i - 1) * ParamCount + j - 1] = cells[(i - 1) * ParamCount + j - 1]
        <5>1. (i - 1) * ParamCount + j - 1 \in 0 .. batchPos - 1
          BY <1>3, RowWithin
        <5> QED BY <1>3, <1>4, <3>1, <5>1
      <4> QED BY <4>1 DEF Row
    <3> QED BY <1>2, <2>2, <3>1, <3>2 DEF Queued
  <2> QED BY <2>1, <2>2
<1> QED BY <1>2, <1>7, <1>8, <1>9, QueueActions

\* So does clearParameters.
LEMMA ClearingParameters ==
  ASSUME BatchAssumption, QInv, ClearParameters
  PROVE  QInv' /\ Queue!SetParameters
<1>1. /\ kind' = kind /\ kind = "prepared" /\ pointerOpen' = pointerOpen /\ pointerOpen
      /\ length' = length /\ batchPos' = batchPos /\ batchQueryCount' = batchQueryCount
      /\ ran' = ran
  BY DEF ClearParameters, vars
<1>2. /\ length \in Nat /\ batchPos \in Nat /\ batchQueryCount \in Nat
      /\ ParamCount \in Nat \ {0} /\ batchPos = batchQueryCount * ParamCount
      /\ length # 0 => batchPos + ParamCount <= length
  BY <1>1 DEF QInv, BInv, RoomForRow, BatchAssumption
<1>3. /\ DOMAIN cells' = 0 .. length - 1
      /\ \A i \in 0 .. length - 1 :
           cells'[i] = IF i >= batchPos /\ i < batchPos + ParamCount THEN Null ELSE cells[i]
  BY DEF ClearParameters, QInv
<1>4. \A i \in 0 .. length - 1 : cells'[i] \in Values \cup {Null}
  BY <1>1, <1>3 DEF QInv
<1>5. BInv'
  BY <1>1, <1>2 DEF QInv, BInv, RoomForRow
<1>6. QInv'
  BY <1>1, <1>2, <1>3, <1>4, <1>5 DEF QInv
<1>7. Parameters' \in BatchRows
  <2>1. CASE length = 0
    BY <1>1, <2>1 DEF Parameters, BlankRow, BatchRows
  <2>2. CASE length # 0
    <3>1. \A j \in 1 .. ParamCount : cells'[batchPos + j - 1] \in Values \cup {Null}
      BY <1>2, <1>4, <2>2
    <3> QED BY <1>1, <2>2, <3>1 DEF Parameters, BatchRows
  <2> QED BY <2>1, <2>2
<1>8. Queued' = Queued
  <2>1. CASE length = 0
    BY <1>1, <2>1 DEF Queued
  <2>2. CASE length # 0
    <3>1. ASSUME NEW i \in 1 .. batchQueryCount PROVE Row(i - 1)' = Row(i - 1)
      <4>1. ASSUME NEW j \in 1 .. ParamCount
            PROVE  cells'[(i - 1) * ParamCount + j - 1] = cells[(i - 1) * ParamCount + j - 1]
        <5>1. (i - 1) * ParamCount + j - 1 \in 0 .. batchPos - 1
          BY <1>2, RowWithin
        <5> QED BY <1>2, <1>3, <2>2, <5>1, SMTT(30)
      <4> QED BY <4>1 DEF Row
    <3> QED BY <1>1, <2>2, <3>1 DEF Queued
  <2> QED BY <2>1, <2>2
<1> QED BY <1>1, <1>6, <1>7, <1>8, QueueActions

\* A queue grows at its end.
LEMMA Growing ==
  ASSUME NEW n \in Nat, NEW f, NEW g, NEW e, DOMAIN f = 1 .. n,
         f = [i \in 1 .. n |-> f[i]], g = [i \in 1 .. n + 1 |-> g[i]],
         \A i \in 1 .. n : g[i] = f[i], g[n + 1] = e
  PROVE  g = Append(f, e)
<1> DEFINE S == {f[i] : i \in 1 .. n} \cup {e}
<1>1. f \in Seq(S) /\ Len(f) = n /\ e \in S
  OBVIOUS
<1>2. Append(f, e) \in Seq(S) /\ Len(Append(f, e)) = n + 1
      /\ \A i \in 1 .. n : Append(f, e)[i] = f[i]
      /\ Append(f, e)[n + 1] = e
  BY <1>1
<1>3. g \in Seq(S) /\ Len(g) = n + 1
  <2>1. \A i \in 1 .. n + 1 : i \in 1 .. n \/ i = n + 1
    OBVIOUS
  <2>2. \A i \in 1 .. n + 1 : g[i] \in S
    BY <2>1
  <2> HIDE DEF S
  <2>3. g \in [1 .. n + 1 -> S]
    BY <2>2
  <2>4. n + 1 \in Nat
    OBVIOUS
  <2> QED BY <2>3, <2>4, SeqDef
<1> HIDE DEF S
<1>4. \A i \in 1 .. Len(g) : g[i] = Append(f, e)[i]
  <2> SUFFICES ASSUME NEW i \in 1 .. n + 1 PROVE g[i] = Append(f, e)[i]
    BY <1>3
  <2>1. CASE i \in 1 .. n
    BY <1>2, <2>1
  <2>2. CASE i = n + 1
    BY <1>2, <2>2
  <2> QED BY <2>1, <2>2
<1> QED BY <1>2, <1>3, <1>4, SeqEqual

\* addBatch lets the position pass the row, and copies it into the next one.
LEMMA Adding ==
  ASSUME BatchAssumption, QInv, PreparedAddBatch
  PROVE  QInv' /\ Queue!Add
<1> DEFINE pos == batchPos + ParamCount
           room == Roomy(pos)
<1>1. /\ kind' = kind /\ kind = "prepared" /\ pointerOpen' = pointerOpen /\ pointerOpen
      /\ length' = room /\ batchPos' = pos /\ batchQueryCount' = batchQueryCount + 1
      /\ ran' = ran
  BY DEF PreparedAddBatch, vars
<1>2. /\ length \in Nat /\ batchPos \in Nat /\ batchQueryCount \in Nat
      /\ ParamCount \in Nat \ {0} /\ batchPos = batchQueryCount * ParamCount
      /\ length # 0 => batchPos + ParamCount <= length
      /\ length = 0 => batchPos = 0
      /\ room \in Nat /\ pos + ParamCount <= room /\ length <= room /\ room # 0
  BY <1>1 DEF QInv, BInv, RoomForRow, BatchAssumption, Roomy, Size
<1>3. /\ DOMAIN cells' = 0 .. room - 1
      /\ \A i \in 0 .. room - 1 :
           cells'[i] = IF i >= pos /\ i < pos + ParamCount THEN Grown(room)[i - ParamCount]
                       ELSE Grown(room)[i]
  BY DEF PreparedAddBatch, Grown
<1>4. \A i \in 0 .. room - 1 :
        /\ Grown(room)[i] = IF i < length THEN cells[i] ELSE Null
        /\ Grown(room)[i] \in Values \cup {Null}
  <2>1. \A i \in 0 .. room - 1 : Grown(room)[i] = IF i < length THEN cells[i] ELSE Null
    BY DEF Grown
  <2>2. \A i \in 0 .. room - 1 : i < length => cells[i] \in Values \cup {Null}
    BY <1>1, <1>2 DEF QInv
  <2> QED BY <2>1, <2>2
<1> HIDE DEF room
<1>5. \A i \in 0 .. room - 1 : cells'[i] \in Values \cup {Null}
  <2> SUFFICES ASSUME NEW i \in 0 .. room - 1 PROVE cells'[i] \in Values \cup {Null}
    OBVIOUS
  <2>1. i >= pos => i - ParamCount \in 0 .. room - 1
    BY <1>2
  <2> QED BY <1>3, <1>4, <2>1
<1>6. QInv'
  <2>1. BInv'
    BY <1>1, <1>2 DEF BInv, RoomForRow
  <2>2. pos = (batchQueryCount + 1) * ParamCount
    BY <1>2
  <2> QED BY <1>1, <1>2, <1>3, <1>5, <2>1, <2>2 DEF QInv
<1>7. \A j \in 1 .. ParamCount :
        /\ cells'[batchPos + j - 1] = IF length = 0 THEN Null ELSE cells[batchPos + j - 1]
        /\ cells'[pos + j - 1] = cells'[batchPos + j - 1]
  <2> SUFFICES ASSUME NEW j \in 1 .. ParamCount
               PROVE  /\ cells'[batchPos + j - 1] = IF length = 0 THEN Null ELSE cells[batchPos + j - 1]
                      /\ cells'[pos + j - 1] = cells'[batchPos + j - 1]
    OBVIOUS
  <2>1. /\ batchPos + j - 1 \in 0 .. room - 1 /\ pos + j - 1 \in 0 .. room - 1
        /\ (pos + j - 1) - ParamCount = batchPos + j - 1
        /\ batchPos + j - 1 < pos /\ pos + j - 1 >= pos /\ pos + j - 1 < pos + ParamCount
        /\ length # 0 => batchPos + j - 1 < length
    BY <1>2
  <2> QED BY <1>2, <1>3, <1>4, <2>1
<1>8. Parameters = [j \in 1 .. ParamCount |-> cells'[batchPos + j - 1]]
  BY <1>1, <1>7 DEF Parameters, BlankRow
<1>9. Parameters' = Parameters
  BY <1>1, <1>2, <1>7, <1>8 DEF Parameters
<1>10. Queued' = Append(Queued, Parameters)
  <2> DEFINE n == batchQueryCount
             RowNext(i) == [j \in 1 .. ParamCount |-> cells'[i * ParamCount + j - 1]]
  <2>1. Queued' = [i \in 1 .. n + 1 |-> RowNext(i - 1)]
    BY <1>1, <1>2 DEF Queued, Row
  <2>2. RowNext(n) = Parameters /\ (n + 1) - 1 = n
    BY <1>2, <1>8
  <2>3. CASE length = 0
    <3>1. n = 0
      <4> SUFFICES ASSUME n >= 1 PROVE FALSE
        BY <1>2
      <4>1. (n - 1) * ParamCount \in Nat
        BY <1>2
      <4> QED BY <1>2, <2>3, <4>1
    <3>2. Queued = <<>>
      BY <2>3 DEF Queued
    <3>3. Queued' = <<Parameters>>
      <4>1. Queued' = [i \in 1 .. 1 |-> RowNext(i - 1)] /\ RowNext(0) = Parameters
        BY <2>1, <2>2, <3>1
      <4> HIDE DEF RowNext
      <4> QED BY <4>1
    <3> QED BY <3>2, <3>3
  <2>4. CASE length # 0
    <3>1. Queued = [i \in 1 .. n |-> Row(i - 1)]
      BY <1>1, <2>4 DEF Queued
    <3>2. ASSUME NEW i \in 1 .. n PROVE RowNext(i - 1) = Row(i - 1)
      <4>1. ASSUME NEW j \in 1 .. ParamCount
            PROVE  cells'[(i - 1) * ParamCount + j - 1] = cells[(i - 1) * ParamCount + j - 1]
        <5>1. (i - 1) * ParamCount + j - 1 \in 0 .. batchPos - 1
          BY <1>2, RowWithin
        <5> QED BY <1>2, <1>3, <1>4, <2>4, <5>1
      <4> QED BY <4>1 DEF Row
    <3>3. /\ n \in Nat /\ DOMAIN Queued = 1 .. n /\ Queued = [i \in 1 .. n |-> Queued[i]]
          /\ Queued' = [i \in 1 .. n + 1 |-> Queued'[i]]
          /\ \A i \in 1 .. n : Queued'[i] = Queued[i]
          /\ Queued'[n + 1] = Parameters
      <4>1. n \in Nat /\ n + 1 \in 1 .. n + 1 /\ \A i \in 1 .. n : i \in 1 .. n + 1
        BY <1>2
      <4> HIDE DEF n, RowNext
      <4>2. \A i \in 1 .. n : Queued'[i] = Queued[i]
        BY <2>1, <3>1, <3>2, <4>1
      <4>3. Queued'[n + 1] = RowNext(n)
        BY <2>1, <2>2, <4>1
      <4>4. DOMAIN Queued = 1 .. n /\ Queued = [i \in 1 .. n |-> Queued[i]]
        BY <3>1
      <4>5. Queued' = [i \in 1 .. n + 1 |-> Queued'[i]]
        BY <2>1
      <4> QED BY <2>2, <4>1, <4>2, <4>3, <4>4, <4>5
    <3> HIDE DEF n
    <3> QED BY <3>3, Growing
  <2> QED BY <2>3, <2>4
<1> QED BY <1>1, <1>6, <1>9, <1>10, QueueActions

\* The first n entries of a queue.
LEMMA FirstOf ==
  ASSUME NEW m \in Nat, NEW n \in 0 .. m, NEW f, f = [i \in 1 .. m |-> f[i]]
  PROVE  /\ Len(f) = m /\ SubSeq(f, 1, n) = [i \in 1 .. n |-> f[i]]
         /\ m > 0 => Head(f) = f[1] /\ f # <<>>
<1> DEFINE S == {f[i] : i \in 1 .. m}
<1>1. f \in Seq(S) /\ Len(f) = m
  <2>1. f \in [1 .. m -> S]
    OBVIOUS
  <2> HIDE DEF S
  <2> QED BY <2>1, SeqDef
<1>2. SubSeq(f, 1, n) = [i \in 1 .. n |-> f[1 + i - 1]]
  BY <1>1
<1>3. \A i \in 1 .. n : 1 + i - 1 = i
  OBVIOUS
<1>4. m > 0 => Head(f) = f[1] /\ f # <<>>
  BY <1>1, EmptySeq, HeadTailProperties
<1> QED BY <1>1, <1>2, <1>3, <1>4

\* An open statement with entries has an array.
LEMMA PreparedQueue ==
  ASSUME QInv, kind = "prepared", pointerOpen, batchQueryCount > 0, BatchAssumption
  PROVE  length # 0 /\ Queued = [i \in 1 .. batchQueryCount |-> Row(i - 1)]
<1>1. /\ batchQueryCount \in Nat /\ ParamCount \in Nat \ {0}
      /\ batchPos = batchQueryCount * ParamCount /\ length \in Nat
      /\ length = 0 => batchPos = 0
  BY DEF QInv, BInv, RoomForRow, BatchAssumption
<1>2. batchPos # 0
  <2>1. (batchQueryCount - 1) * ParamCount \in Nat
    BY <1>1
  <2> QED BY <1>1, <2>1
<1> QED BY <1>1, <1>2 DEF Queued

\* executeBatch of a prepared statement.
LEMMA RunningBatch ==
  ASSUME BatchAssumption, QInv, PreparedRunBatch
  PROVE  QInv' /\ Queue!Run
<1>1. kind' = kind /\ kind = "prepared" /\ pointerOpen /\ batchQueryCount > 0 /\ ClearBatch
  BY DEF PreparedRunBatch, PreparedExecuteBatch
<1>2. QInv' /\ Queued' = <<>> /\ Parameters' = BlankRow
  BY <1>1, Clearing
<1>3. PICK n \in 0 .. batchQueryCount : ran' = [i \in 1 .. n |-> Row(i - 1)]
  BY DEF PreparedRunBatch
<1>4. batchQueryCount \in Nat
  BY DEF QInv
<1>5. Queued = [i \in 1 .. batchQueryCount |-> Row(i - 1)]
  BY <1>1, PreparedQueue
<1>6. Len(Queued) = batchQueryCount /\ SubSeq(Queued, 1, n) = [i \in 1 .. n |-> Queued[i]]
  BY <1>4, <1>5, FirstOf
<1>7. \A i \in 1 .. n : Queued[i] = Row(i - 1)
  BY <1>4, <1>5
<1>8. ran' = SubSeq(Queued, 1, n)
  BY <1>3, <1>6, <1>7
<1> QED BY <1>1, <1>2, <1>6, <1>8, QueueActions

\* The other executions of a prepared statement bind the first row.
LEMMA Binding ==
  ASSUME BatchAssumption, QInv, PreparedRun
  PROVE  QInv' /\ Queue!Bind
<1>1. Steps /\ kind = "prepared" /\ pointerOpen /\ Binds /\ UNCHANGED batchVars
  BY DEF PreparedRun, Steps, PreparedExecute, PreparedExecuteQuery, PreparedExecuteUpdate,
         PreparedKeysFail, Restarted
<1>2. kind' = kind
  BY <1>1, KindKept
<1>3. QInv'
  <2>1. BInv' BY <1>1, <1>2, ClosingKeepsBatch DEF QInv
  <2> QED BY <1>1, <1>2, <2>1 DEF QInv, batchVars
<1>4. Queued' = Queued /\ Parameters' = Parameters
  BY <1>1, <1>2 DEF Queued, Parameters, Row, batchVars
<1>5. (IF Queued = <<>> THEN Parameters ELSE Head(Queued))
        = IF length = 0 THEN BlankRow ELSE Row(0)
  <2>1. batchQueryCount \in Nat /\ ParamCount \in Nat \ {0} /\ batchPos = batchQueryCount * ParamCount
    BY <1>1 DEF QInv, BatchAssumption
  <2>2. CASE length = 0
    BY <2>2 DEF Queued, Parameters
  <2>3. CASE length # 0 /\ batchQueryCount = 0
    <3>1. Queued = <<>> BY <1>1, <2>3 DEF Queued
    <3>2. batchPos = 0 /\ 0 * ParamCount = 0 BY <2>1, <2>3
    <3>3. Parameters = Row(0) BY <1>1, <2>3, <3>2 DEF Parameters, Row
    <3> QED BY <2>3, <3>1, <3>3
  <2>4. CASE length # 0 /\ batchQueryCount > 0
    <3>1. Queued = [i \in 1 .. batchQueryCount |-> Row(i - 1)]
      BY <1>1, <2>4 DEF Queued
    <3>2. Head(Queued) = Queued[1] /\ Queued # <<>>
      <4>1. 0 \in 0 .. batchQueryCount BY <2>1
      <4> QED BY <2>1, <2>4, <3>1, <4>1, FirstOf
    <3>3. Queued[1] = Row(0)
      <4>1. 1 \in 1 .. batchQueryCount /\ 1 - 1 = 0 BY <2>1, <2>4
      <4> QED BY <3>1, <4>1
    <3> QED BY <2>4, <3>2, <3>3
  <2> QED BY <2>1, <2>2, <2>3, <2>4
<1>6. ran' = <<IF Queued = <<>> THEN Parameters ELSE Head(Queued)>>
  BY <1>1, <1>5 DEF Binds
<1> QED BY <1>1, <1>2, <1>3, <1>4, <1>6, QueueActions

\* addBatch(sql), with or without a statement to close first.
LEMMA AddingPlain ==
  ASSUME BatchAssumption, QInv, PlainAddBatch
  PROVE  QInv' /\ (Queue!Add \/ Queue!Restart)
<1> DEFINE pos  == IF pointerOpen THEN 0 ELSE batchPos
           size == IF pointerOpen THEN 0 ELSE length
           most == IF 2 * pos > 10 THEN 2 * pos ELSE 10
           room == IF pos + 1 >= size THEN most ELSE size
<1>1. kind' = kind /\ kind = "plain" /\ ran' = ran
  BY DEF PlainAddBatch, WithoutCursor, Recompiled
<1>2. /\ length' = room /\ batchPos' = pos + 1 /\ batchQueryCount' = batchQueryCount
      /\ \E sql \in SqlTexts :
           cells' = [i \in 0 .. room - 1 |->
                       IF i = pos THEN sql ELSE IF i < size THEN cells[i] ELSE Null]
  BY DEF PlainAddBatch
<1>3. PICK sql \in SqlTexts :
        cells' = [i \in 0 .. room - 1 |->
                    IF i = pos THEN sql ELSE IF i < size THEN cells[i] ELSE Null]
  BY <1>2
<1>4. /\ pos \in Nat /\ room \in Nat /\ pos + 1 <= room /\ pos <= size
      /\ size \in Nat /\ room # 0
  BY <1>1 DEF QInv, BInv, RoomForRow
<1>5. QInv'
  <2>1. BInv'
    BY <1>1, <1>2 DEF QInv, BInv, RoomForRow
  <2> QED BY <1>1, <1>2, <1>3, <2>1, SMTT(30) DEF QInv
<1>6. /\ \A i \in 0 .. pos - 1 : cells'[i] = cells[i]
      /\ cells'[pos] = sql
  BY <1>3, <1>4
<1>7. Queued' = [i \in 1 .. pos + 1 |-> cells'[i - 1]]
  BY <1>1, <1>2, <1>4 DEF Queued
<1>8. Parameters' = BlankRow /\ Parameters = BlankRow
  BY <1>1 DEF Parameters, BlankRow
<1>9. CASE pos = 0
  <2>1. Queued' = [i \in 1 .. 1 |-> cells'[i - 1]] /\ cells'[0] = sql
    BY <1>6, <1>7, <1>9
  <2>2. Queued' = <<sql>>
    BY <2>1
  <2> QED BY <1>1, <1>5, <1>8, <2>2, QueueActions
<1>10. CASE pos # 0
  <2>1. pos = batchPos /\ length # 0
    BY <1>4, <1>10
  <2>2. Queued = [i \in 1 .. pos |-> cells[i - 1]]
    BY <1>1, <2>1 DEF Queued
  <2> HIDE DEF pos, size, room
  <2>3. /\ DOMAIN Queued = 1 .. pos /\ Queued = [i \in 1 .. pos |-> Queued[i]]
        /\ Queued' = [i \in 1 .. pos + 1 |-> Queued'[i]]
    BY <1>7, <2>2
  <2>4. \A i \in 1 .. pos : Queued'[i] = Queued[i]
    <3> SUFFICES ASSUME NEW i \in 1 .. pos PROVE Queued'[i] = Queued[i]
      OBVIOUS
    <3>1. i \in 1 .. pos + 1 /\ i - 1 \in 0 .. pos - 1
      BY <1>4
    <3> QED BY <1>6, <1>7, <2>2, <3>1
  <2>5. Queued'[pos + 1] = sql
    <3>1. pos + 1 \in 1 .. pos + 1 /\ (pos + 1) - 1 = pos
      BY <1>4
    <3> QED BY <1>6, <1>7, <3>1
  <2>6. Queued' = Append(Queued, sql)
    BY <1>4, <2>3, <2>4, <2>5, Growing, SMTT(30)
  <2> QED BY <1>1, <1>5, <1>8, <2>6, QueueActions
<1> QED BY <1>9, <1>10

\* executeBatch of a plain statement.
LEMMA RunningPlainBatch ==
  ASSUME BatchAssumption, QInv, PlainRunBatch
  PROVE  QInv' /\ Queue!Run
<1>1. kind' = kind /\ kind = "plain"
  BY DEF PlainRunBatch, WithoutCursor, Recompiled
<1>2. /\ length \in Nat /\ batchPos \in Nat
      /\ length = 0 => batchPos = 0
  BY <1>1 DEF QInv, BInv, RoomForRow
<1>3. CASE pointerOpen \/ batchPos = 0
  <2>1. InternalClose /\ ran' = <<>>
    BY <1>3 DEF PlainRunBatch
  <2>2. /\ QInv'
        /\ \/ Queued' = <<>> /\ Parameters' = BlankRow /\ (pointerOpen \/ UNCHANGED batchVars)
           \/ UNCHANGED batchVars
    BY <1>1, <2>1, Forgetting
  <2>3. Queued' = <<>> /\ Parameters' = BlankRow
    <3>1. CASE pointerOpen
      BY <2>1, <3>1 DEF InternalClose, Queued, Parameters, BlankRow
    <3>2. CASE ~pointerOpen
      BY <1>1, <1>3, <2>1, <3>2 DEF InternalClose, batchVars, Queued, Parameters, BlankRow
    <3> QED BY <3>1, <3>2
  <2>4. Len(Queued) \in Nat /\ SubSeq(Queued, 1, 0) = <<>>
    <3>1. CASE length = 0
      BY <3>1 DEF Queued
    <3>2. CASE length # 0
      <4>1. Queued = [i \in 1 .. batchPos |-> cells[i - 1]]
        BY <1>1, <3>2 DEF Queued
      <4> QED BY <1>2, <4>1, FirstOf
    <3> QED BY <3>1, <3>2
  <2> QED BY <1>1, <2>1, <2>2, <2>3, <2>4, QueueActions
<1>4. CASE ~(pointerOpen \/ batchPos = 0)
  <2>1. ClearBatch
    BY <1>4 DEF PlainRunBatch
  <2>2. QInv' /\ Queued' = <<>> /\ Parameters' = BlankRow
    BY <1>1, <2>1, Clearing
  <2>3. PICK n \in 0 .. batchPos : ran' = [i \in 1 .. n |-> cells[i - 1]]
    BY <1>4 DEF PlainRunBatch
  <2>4. Queued = [i \in 1 .. batchPos |-> cells[i - 1]]
    BY <1>1, <1>2, <1>4 DEF Queued
  <2>5. Len(Queued) = batchPos /\ SubSeq(Queued, 1, n) = [i \in 1 .. n |-> Queued[i]]
    BY <1>2, <2>4, FirstOf
  <2>6. \A i \in 1 .. n : Queued[i] = cells[i - 1]
    BY <1>2, <2>4
  <2>7. ran' = SubSeq(Queued, 1, n)
    BY <2>3, <2>5, <2>6
  <2> QED BY <1>1, <2>2, <2>5, <2>7, QueueActions
<1> QED BY <1>3, <1>4

QueueIsKept == UNCHANGED <<kind, batchVars, ran>>

LEMMA KeptQueue ==
  ASSUME QueueIsKept PROVE UNCHANGED Queue!queueVars
BY DEF QueueIsKept, batchVars, Queue!queueVars, Row

\* Calls that are not about the batch throw it away or leave it alone.
LEMMA Elsewhere ==
  ASSUME BatchAssumption, QInv, (Cursor /\ UNCHANGED ran) \/ PlainRun
  PROVE  QInv' /\ (Queue!Forget \/ UNCHANGED Queue!queueVars)
<1>1. Steps /\ ran' = ran
  BY DEF Cursor, PlainRun, Steps
<1>2. kind' = kind
  BY <1>1, KindKept
<1>3. kind = "prepared" /\ pointerOpen' => pointerOpen
  BY <1>1, ClosedForGood
<1>4. CASE UNCHANGED batchVars
  <2>1. BInv' BY <1>2, <1>4, ClosingKeepsBatch DEF QInv
  <2>2. QInv' BY <1>2, <1>3, <1>4, <2>1 DEF QInv, batchVars
  <2>3. QueueIsKept BY <1>1, <1>2, <1>4 DEF QueueIsKept
  <2> QED BY <2>2, <2>3, KeptQueue
<1>5. CASE InternalClose /\ (kind = "prepared" /\ pointerOpen => ~pointerOpen')
  <2>1. /\ QInv'
        /\ \/ Queued' = <<>> /\ Parameters' = BlankRow
           \/ UNCHANGED batchVars
    BY <1>2, <1>3, <1>5, Forgetting
  <2>2. CASE Queued' = <<>> /\ Parameters' = BlankRow
    BY <1>1, <1>2, <2>1, <2>2, QueueActions
  <2> QED BY <1>4, <2>1, <2>2
<1>6. InternalClose => (kind = "prepared" /\ pointerOpen => ~pointerOpen') \/ UNCHANGED batchVars
  <2>1. CASE PlainRun
    BY <2>1 DEF PlainRun, ExecutePlain, ExecuteWithoutCursor, WithoutCursor, ExecuteRejected,
                ExecuteFails, Execute, ExecuteQuery, ExecuteQueryOfUpdate, Recompiled
  <2>2. CASE (CloseResultSet \/ GetMoreResults \/ PreparedClosesItself)
             /\ IF ClosesStatement(rs) THEN InternalClose ELSE UNCHANGED batchVars
    BY <2>2 DEF CloseResultSet, GetMoreResults, PreparedClosesItself, ResultSetClosed
  <2>3. CASE Close
    BY <2>3 DEF Close
  <2> QED BY <2>1, <2>2, <2>3 DEF Cursor
<1>7. InternalClose \/ UNCHANGED batchVars
  BY DEF Cursor, PlainRun
<1> QED BY <1>4, <1>5, <1>6, <1>7

LEMMA QueueStep ==
  ASSUME BatchAssumption, QInv, [BatchNext]_<<vars, batchVars, ran>>
  PROVE  QInv' /\ [Queue!Next]_(Queue!queueVars)
<1>1. CASE UNCHANGED <<vars, batchVars, ran>>
  <2>1. kind' = kind /\ pointerOpen' = pointerOpen BY <1>1 DEF vars
  <2>2. BInv' BY <1>1, <2>1, ClosingKeepsBatch DEF QInv
  <2>3. QInv' BY <1>1, <2>1, <2>2 DEF QInv, batchVars
  <2> QED BY <1>1, <2>1, <2>3, KeptQueue DEF QueueIsKept
<1>2. CASE (Cursor /\ UNCHANGED ran) \/ PlainRun
  BY <1>2, Elsewhere DEF Queue!Next
<1>3. CASE SetParameter
  BY <1>3, SettingParameter DEF Queue!Next
<1>4. CASE ClearParameters
  BY <1>4, ClearingParameters DEF Queue!Next
<1>5. CASE PreparedAddBatch
  BY <1>5, Adding DEF Queue!Next
<1>6. CASE PreparedRunBatch
  BY <1>6, RunningBatch DEF Queue!Next
<1>7. CASE PreparedRun
  BY <1>7, Binding DEF Queue!Next
<1>8. CASE PlainAddBatch
  BY <1>8, AddingPlain DEF Queue!Next
<1>9. CASE PlainRunBatch
  BY <1>9, RunningPlainBatch DEF Queue!Next
<1>10. CASE PreparedBatchRefused \/ (ClearBatch /\ UNCHANGED <<vars, ran>>)
  <2>1. ClearBatch /\ kind' = kind /\ ran' = ran
    BY <1>10 DEF PreparedBatchRefused, vars
  <2>2. QInv' /\ Queued' = <<>> /\ Parameters' = BlankRow
    BY <2>1, Clearing
  <2> QED BY <2>1, <2>2, QueueActions DEF Queue!Next
<1> QED BY <1>1, <1>2, <1>3, <1>4, <1>5, <1>6, <1>7, <1>8, <1>9, <1>10 DEF BatchNext

\* executeBatch runs the entries that were added, with the parameters they had then, in
\* their order, for any number of parameters and entries: StatementBatch implements
\* EntryQueue.
THEOREM RunsWhatWasAddedHolds == BatchSpec => RunsWhatWasAdded
<1>1. BatchInit => Queue!Init
  BY QueueActions DEF BatchInit, Init, Queued, Parameters
<1> QED BY <1>1, BatchAssumption, QueueInitially, QueueStep, PTL
  DEF BatchSpec, RunsWhatWasAdded, Queue!Spec

=============================================================================
