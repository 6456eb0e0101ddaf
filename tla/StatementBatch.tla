---------------------------- MODULE StatementBatch ----------------------------
(***************************************************************************)
(* StatementCursor with the batch of the statement: CoreStatement.batch is *)
(* one array that grows, of SQL texts for a plain statement and of the     *)
(* parameters of all rows, one behind the other, for a prepared one.  It   *)
(* implements EntryQueue.  A statement without parameters, whose batch is  *)
(* only a number, is left out.                                             *)
(***************************************************************************)
EXTENDS StatementCursor, Sequences

CONSTANTS
  ParamCount,   \* parameters of the prepared statement
  Values, SqlTexts, Null,
  MaxEntries    \* bound on the entries of a batch, for each kind

ASSUME BatchAssumption == ParamCount \in Nat \ {0}

VARIABLES
  length,           \* of the array, which is null if this is 0
  cells,            \* its contents
  batchPos, batchQueryCount,
  ran               \* the entries the last execution ran

batchVars == <<length, cells, batchPos, batchQueryCount>>

Cells == Values \cup SqlTexts \cup {Null}

BatchInit ==
  /\ Init
  /\ length = 0 /\ cells = <<>> /\ batchPos = 0 /\ batchQueryCount = 0
  /\ ran = <<>>

\* Arrays.copyOf
Grown(size) == [i \in 0 .. size - 1 |-> IF i < length THEN cells[i] ELSE Null]

\* MUTANT: the rows are taken to overlap.
RowOverlaps(i) == [j \in 1 .. ParamCount |-> cells[i + j - 1]]

\* Entry i of the array as a row of parameters.
Row(i) == [j \in 1 .. ParamCount |-> cells[i * ParamCount + j - 1]]

BlankRow == [j \in 1 .. ParamCount |-> Null]

ClearBatch ==
  /\ batchPos' = 0 /\ batchQueryCount' = 0
  /\ cells' = [i \in DOMAIN cells |-> Null]
  /\ UNCHANGED length

\* MUTANT: internalClose forgets the array, not the position.
InternalCloseKeepsPosition ==
  IF pointerOpen
  THEN length' = 0 /\ cells' = <<>> /\ UNCHANGED <<batchPos, batchQueryCount>>
  ELSE UNCHANGED batchVars

\* CoreStatement.internalClose forgets the batch if the statement is open.
InternalClose ==
  IF pointerOpen
  THEN length' = 0 /\ cells' = <<>> /\ batchPos' = 0 /\ UNCHANGED batchQueryCount
  ELSE UNCHANGED batchVars

-----------------------------------------------------------------------------
(* A prepared statement.                                                   *)

Size == IF length = 0 THEN ParamCount ELSE length

SetParameter ==
  /\ kind = "prepared" /\ pointerOpen
  /\ \E j \in 1 .. ParamCount, value \in Values \cup {Null} :
       cells' = [Grown(Size) EXCEPT ![batchPos + j - 1] = value]
  /\ length' = Size
  /\ UNCHANGED <<vars, batchPos, batchQueryCount, ran>>

ClearParameters ==
  /\ kind = "prepared" /\ pointerOpen
  /\ cells' = [i \in DOMAIN cells |->
                 IF i >= batchPos /\ i < batchPos + ParamCount THEN Null ELSE cells[i]]
  /\ UNCHANGED <<vars, length, batchPos, batchQueryCount, ran>>

Roomy(pos) == IF pos + ParamCount > Size THEN 2 * Size ELSE Size

\* The parameters of the entry are copied into the next row.
PreparedAddBatch ==
  LET pos  == batchPos + ParamCount
      grown == Grown(Roomy(pos))
  IN  /\ kind = "prepared" /\ pointerOpen
      /\ batchQueryCount < MaxEntries[kind]
      /\ batchPos' = pos /\ batchQueryCount' = batchQueryCount + 1
      /\ length' = Roomy(pos)
      /\ cells' = [i \in DOMAIN grown |->
                     IF i >= pos /\ i < pos + ParamCount
                     THEN grown[i - ParamCount] ELSE grown[i]]
      /\ UNCHANGED <<vars, ran>>

\* The rows run up to the first that fails; clearBatch follows in either case.
PreparedRunBatch ==
  /\ PreparedExecuteBatch /\ batchQueryCount > 0
  /\ \E n \in 0 .. batchQueryCount : ran' = [i \in 1 .. n |-> Row(i - 1)]
  /\ ClearBatch

\* An error has closed the statement: executeBatch throws, and clears the batch.
PreparedBatchRefused ==
  /\ kind = "prepared" /\ ~pointerOpen /\ batchQueryCount > 0
  /\ ClearBatch
  /\ UNCHANGED <<vars, ran>>

\* DB.execute binds the array from its start: the first row of a batch.
Binds == ran' = <<IF length = 0 THEN BlankRow ELSE Row(0)>>

PreparedRun ==
  /\ PreparedExecute \/ PreparedExecuteQuery \/ PreparedExecuteUpdate \/ PreparedKeysFail
  /\ Binds
  /\ UNCHANGED batchVars

-----------------------------------------------------------------------------
(* A plain statement, which addBatch and executeBatch close first.         *)

PlainAddBatch ==
  LET pos  == IF pointerOpen THEN 0 ELSE batchPos
      size == IF pointerOpen THEN 0 ELSE length
      most == IF 2 * pos > 10 THEN 2 * pos ELSE 10
      room == IF pos + 1 >= size THEN most ELSE size
  IN  /\ WithoutCursor(FALSE)
      /\ pos < MaxEntries[kind]
      /\ \E sql \in SqlTexts :
           cells' = [i \in 0 .. room - 1 |->
                       IF i = pos THEN sql ELSE IF i < size THEN cells[i] ELSE Null]
      /\ length' = room /\ batchPos' = pos + 1
      /\ UNCHANGED <<batchQueryCount, ran>>

PlainRunBatch ==
  /\ WithoutCursor(FALSE)
  /\ IF pointerOpen \/ batchPos = 0
     THEN InternalClose /\ ran' = <<>>
     ELSE /\ \E n \in 0 .. batchPos : ran' = [i \in 1 .. n |-> cells[i - 1]]
          /\ ClearBatch

\* Every other call of a plain statement that executes.
PlainRun ==
  /\ ExecutePlain /\ InternalClose
  /\ UNCHANGED ran

-----------------------------------------------------------------------------
Cursor ==
  \/ (CloseResultSet \/ GetMoreResults \/ PreparedClosesItself)
     /\ IF ClosesStatement(rs) THEN InternalClose ELSE UNCHANGED batchVars
  \/ Close /\ InternalClose
  \/ /\ \/ CloseConnection \/ SetCloseOnCompletion \/ SetMaxRows \/ GetResultSet
        \/ NextFirst \/ NextRow \/ NextDone \/ NextFails
        \/ PreparedFails \/ PreparedFatal
     /\ UNCHANGED batchVars

BatchNext ==
  \/ Cursor /\ UNCHANGED ran
  \/ SetParameter \/ ClearParameters \/ PreparedAddBatch
  \/ PreparedRunBatch \/ PreparedBatchRefused \/ PreparedRun
  \/ PlainAddBatch \/ PlainRunBatch \/ PlainRun
  \/ ClearBatch /\ UNCHANGED <<vars, ran>>

BatchSpec == BatchInit /\ [][BatchNext]_<<vars, batchVars, ran>>

-----------------------------------------------------------------------------
(* Properties.                                                             *)

\* The array has room for the entry that is being filled, so neither a setter nor
\* addBatch writes behind its end.
RoomForRow ==
  \/ length = 0 /\ batchPos = 0
  \/ batchPos + (IF kind = "prepared" THEN ParamCount ELSE 1) <= length

\* Whatever is set, added, executed and closed in between, executeBatch runs the
\* entries that were added, with the parameters they had then, in their order.
Queue ==
  INSTANCE EntryQueue WITH
    prepared   <- kind = "prepared",
    Rows       <- [1 .. ParamCount -> Values \cup {Null}],
    Blank      <- BlankRow,
    parameters <- IF kind = "plain" \/ length = 0 THEN BlankRow
                  ELSE [j \in 1 .. ParamCount |-> cells[batchPos + j - 1]],
    queue      <- IF length = 0 THEN <<>>
                  ELSE IF kind = "plain" THEN [i \in 1 .. batchPos |-> cells[i - 1]]
                  ELSE [i \in 1 .. batchQueryCount |-> Row(i - 1)]

RunsWhatWasAdded == Queue!Spec

=============================================================================
