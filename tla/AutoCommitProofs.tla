--------------------------- MODULE AutoCommitProofs ---------------------------
(* Theorems about AutoCommit, for any changes and statements.                *)
EXTENDS AutoCommit, TLAPS

\* Without a transaction and without an active writer nothing is in limbo.
LimboNeedsWriter == ~inTx /\ active = {} => pending = {}

\* An acknowledged change is in the file, in limbo, or was dropped for good.
AckedIsSomewhere ==
  /\ acked \subseteq durable \cup pending \cup dropped
  /\ dropped \cap (durable \cup pending) = {}
  /\ pending \cap durable = {}

\* The flag the running command of setAutoCommit was called with.
ControlHasFlag ==
  /\ control = "begin" => flag = "off"
  /\ control = "commit" => flag = "on"

\* TransactionIsReported, also while setAutoCommit(true) runs.
ToldOrCommitting == flag = "on" /\ inTx => told \/ control = "commit"

IInv ==
  /\ TypeOK /\ LimboNeedsWriter /\ AckedIsSomewhere
  /\ ControlHasFlag /\ ToldOrCommitting

LEMMA Initially == ASSUME AutoCommitAssumption, Init PROVE IInv
  BY DEF Init, IInv, TypeOK, Flags, LimboNeedsWriter, AckedIsSomewhere,
         ControlHasFlag, ToldOrCommitting

-----------------------------------------------------------------------------
(* What the parts of an action keep.                                        *)

\* A change that is made is new, so it is neither acknowledged nor lost.
LEMMA FreshIsNew ==
  ASSUME IInv, NEW W \in SUBSET Fresh
  PROVE  W \subseteq Writes /\ W \cap dropped = {} /\ W \cap (pending \cup durable) = {}
  BY DEF IInv, TypeOK, Fresh

\* Control and flag of an execution.
Executing == UNCHANGED <<flag, control>>

LEMMA HaltKeeps ==
  ASSUME IInv, NEW W \in SUBSET Fresh, Halt(W, active'), active' \subseteq Statements,
         Executing, UNCHANGED <<inTx, batch>>,
         NEW A \in SUBSET W, Returns(A)
  PROVE  IInv'
<1>1. W \subseteq Writes /\ W \cap dropped = {} /\ W \cap (pending \cup durable) = {}
  BY FreshIsNew
<1>2. TypeOK'
  BY <1>1, SMT DEF IInv, TypeOK, Halt, Executing, Returns, Flags
<1>3. LimboNeedsWriter' /\ AckedIsSomewhere'
  BY <1>1, SMT DEF IInv, TypeOK, Halt, Returns, LimboNeedsWriter, AckedIsSomewhere
<1>4. ControlHasFlag'
  BY DEF IInv, Executing, ControlHasFlag
<1>5. told' <=> told /\ flag' = "on" /\ inTx'
  BY DEF Returns
<1>6. ToldOrCommitting'
  BY <1>5 DEF IInv, Executing, ToldOrCommitting
<1> QED BY <1>2, <1>3, <1>4, <1>6 DEF IInv

LEMMA LossKeeps ==
  ASSUME IInv, pending' = {}, UNCHANGED durable, Executing, Throws,
         inTx' \in BOOLEAN, active' \subseteq Statements,
         batch' \in {"none"} \cup Flags
  PROVE  IInv'
<1>1. TypeOK'
  BY SMT DEF IInv, TypeOK, Executing, Throws, Flags
<1>2. LimboNeedsWriter' /\ AckedIsSomewhere'
  BY SMT DEF IInv, TypeOK, Throws, LimboNeedsWriter, AckedIsSomewhere
<1>3. ControlHasFlag' /\ ToldOrCommitting'
  BY SMT DEF IInv, Executing, Throws, ControlHasFlag, ToldOrCommitting
<1> QED BY <1>1, <1>2, <1>3 DEF IInv

LEMMA EnsureKeeps ==
  ASSUME IInv, NEW W \in SUBSET Fresh, NEW f \in Flags, EnsureAutoCommit(W, f),
         Executing, UNCHANGED active, batch' \in {"none"} \cup Flags,
         Throws \/ (~EnsureThrows(f) /\ Returns(W))
  PROVE  IInv'
<1>1. W \subseteq Writes /\ W \cap dropped = {} /\ W \cap (pending \cup durable) = {}
  BY FreshIsNew
<1>2. /\ inTx' \in BOOLEAN
      /\ pending' \cup durable' = pending \cup durable \cup W
      /\ pending' \subseteq Writes /\ durable' \subseteq Writes
  BY <1>1, SMT DEF IInv, TypeOK, EnsureAutoCommit, Halt, Flags
<1>3. TypeOK'
  <2>1. told' \in BOOLEAN
    BY Zenon DEF Throws, Returns
  <2>2. acked' \subseteq Writes /\ dropped' \subseteq acked'
    BY <1>1, <1>2, SMT DEF IInv, TypeOK, Throws, Returns
  <2> QED BY <1>2, <2>1, <2>2 DEF IInv, TypeOK, Executing
<1>4. LimboNeedsWriter'
  BY SMT DEF IInv, TypeOK, EnsureAutoCommit, Halt, LimboNeedsWriter
<1>5. AckedIsSomewhere'
  <2>1. pending' \cap durable' = {}
    BY <1>1, SMT DEF IInv, TypeOK, AckedIsSomewhere, EnsureAutoCommit, Halt
  <2> QED BY <1>1, <1>2, <2>1, SMT DEF IInv, TypeOK, Throws, Returns, AckedIsSomewhere
<1>6. ControlHasFlag' /\ ToldOrCommitting'
  BY SMT DEF IInv, TypeOK, Flags, Executing, Throws, Returns, EnsureThrows,
     EnsureAutoCommit, ControlHasFlag, ToldOrCommitting
<1> QED BY <1>3, <1>4, <1>5, <1>6 DEF IInv

-----------------------------------------------------------------------------
(* The actions keep the invariant.                                          *)

LEMMA StatementsKeep ==
  ASSUME IInv,
         Execute \/ ExecuteUpdate \/ ExecuteBusy \/ ExecuteFatal
         \/ BatchCalled \/ ExecuteBatch \/ BatchFatal
  PROVE  IInv'
<1>1. TypeOK BY DEF IInv
<1>2. CASE Execute
  <2>1. PICK w \in Fresh :
          /\ EnsureAutoCommit({w}, flag)
          /\ IF EnsureThrows(flag) THEN Throws ELSE Returns({w})
    BY <1>2 DEF Execute
  <2>2. {w} \in SUBSET Fresh /\ flag \in Flags
    BY <1>1 DEF TypeOK
  <2>3. Executing /\ UNCHANGED active /\ batch' \in {"none"} \cup Flags
    BY <1>1, <1>2 DEF Execute, Executing, TypeOK
  <2>4. Throws \/ (~EnsureThrows(flag) /\ Returns({w}))
    BY <2>1
  <2> QED BY <2>1, <2>2, <2>3, <2>4, EnsureKeeps
<1>3. CASE ExecuteUpdate
  <2>1. PICK w \in Fresh : Halt({w}, active) /\ Returns({w})
    BY <1>3 DEF ExecuteUpdate
  <2>2. {w} \in SUBSET Fresh
    OBVIOUS
  <2>3. Executing /\ UNCHANGED <<inTx, batch>> /\ active' = active /\ active' \subseteq Statements
    BY <1>1, <1>3 DEF ExecuteUpdate, Executing, TypeOK
  <2> QED BY <2>1, <2>2, <2>3, HaltKeeps
<1>4. CASE ExecuteBusy
  <2>1. /\ Executing /\ pending' = {} /\ UNCHANGED durable /\ Throws
        /\ inTx' \in BOOLEAN /\ active' \subseteq Statements
        /\ batch' \in {"none"} \cup Flags
    BY <1>1, <1>4 DEF ExecuteBusy, HaltBusy, Executing, TypeOK
  <2> QED BY <2>1, LossKeeps
<1>5. CASE ExecuteFatal
  <2>1. /\ Executing /\ pending' = {} /\ UNCHANGED durable /\ Throws
        /\ inTx' \in BOOLEAN /\ active' \subseteq Statements
        /\ batch' \in {"none"} \cup Flags
    BY <1>1, <1>5 DEF ExecuteFatal, RollbackAll, Executing, TypeOK
  <2> QED BY <2>1, LossKeeps
<1>6. CASE BatchCalled
  BY <1>6 DEF BatchCalled, IInv, TypeOK, Flags, LimboNeedsWriter, AckedIsSomewhere,
              ControlHasFlag, ToldOrCommitting
<1>7. CASE ExecuteBatch
  <2>1. PICK W \in SUBSET Fresh :
          /\ EnsureAutoCommit(W, batch)
          /\ Throws \/ (~EnsureThrows(batch) /\ Returns(W))
    BY <1>7 DEF ExecuteBatch
  <2>2. batch \in Flags
    BY <1>1, <1>7 DEF ExecuteBatch, TypeOK
  <2>3. Executing /\ UNCHANGED active /\ batch' \in {"none"} \cup Flags
    BY <1>7 DEF ExecuteBatch, Executing
  <2> QED BY <2>1, <2>2, <2>3, EnsureKeeps
<1>8. CASE BatchFatal
  <2>1. /\ Executing /\ pending' = {} /\ UNCHANGED durable /\ Throws
        /\ active' \subseteq Statements /\ batch' \in {"none"} \cup Flags
    BY <1>1, <1>8 DEF BatchFatal, Executing, TypeOK
  <2>2. inTx' \in BOOLEAN
    BY <1>8, Zenon DEF BatchFatal
  <2> QED BY <2>1, <2>2, LossKeeps
<1> QED BY <1>2, <1>3, <1>4, <1>5, <1>6, <1>7, <1>8

LEMMA ReadingKeeps ==
  ASSUME IInv, NEW s \in Statements, Reading(s)
  PROVE  IInv'
<1>1. TypeOK /\ {} \in SUBSET Fresh BY DEF IInv
<1>2. CASE ExecuteReturning(s)
  <2>1. PICK w \in Fresh : pending' = pending \cup {w}
    BY <1>2 DEF ExecuteReturning
  <2>2. w \in Writes /\ w \notin dropped /\ w \notin durable
    BY <1>1, FreshIsNew, {w} \in SUBSET Fresh
  <2>3. told' <=> told /\ flag' = "on" /\ inTx'
    BY <1>2 DEF ExecuteReturning, Returns
  <2>4. TypeOK' /\ LimboNeedsWriter' /\ AckedIsSomewhere'
    BY <1>1, <1>2, <2>1, <2>2, SMT
    DEF ExecuteReturning, Returns, IInv, TypeOK, LimboNeedsWriter, AckedIsSomewhere
  <2>5. ControlHasFlag' /\ ToldOrCommitting'
    BY <1>2, <2>3 DEF ExecuteReturning, IInv, ControlHasFlag, ToldOrCommitting
  <2> QED BY <2>4, <2>5 DEF IInv
<1>3. CASE NextDone(s) \/ CloseResultSet(s)
  <2>1. /\ Halt({}, active') /\ Returns({}) /\ Executing
        /\ UNCHANGED <<inTx, batch>> /\ active' \subseteq Statements
    BY <1>1, <1>3 DEF NextDone, CloseResultSet, Leave, Executing, TypeOK
  <2> QED BY <1>1, <2>1, HaltKeeps
<1>4. CASE NextBusy(s) \/ NextFatal(s)
  <2>1. /\ Executing /\ pending' = {} /\ UNCHANGED durable /\ Throws
        /\ inTx' \in BOOLEAN /\ active' \subseteq Statements
        /\ batch' \in {"none"} \cup Flags
    BY <1>1, <1>4 DEF NextBusy, NextFatal, HaltBusy, RollbackAll, Leave, Executing, TypeOK
  <2> QED BY <2>1, LossKeeps
<1>5. CASE CloseDrops(s)
  <2>1. TypeOK' /\ LimboNeedsWriter'
    BY <1>1, <1>5, SMT DEF CloseDrops, HaltBusy, Leave, TypeOK, LimboNeedsWriter
  <2>2. AckedIsSomewhere'
    BY <1>1, <1>5, SMT DEF CloseDrops, HaltBusy, Leave, IInv, TypeOK, AckedIsSomewhere
  <2>3. ControlHasFlag' /\ ToldOrCommitting'
    BY <1>5 DEF CloseDrops, HaltBusy, Leave, IInv, ControlHasFlag, ToldOrCommitting
  <2> QED BY <2>1, <2>2, <2>3 DEF IInv
<1> QED BY <1>2, <1>3, <1>4, <1>5 DEF Reading

LEMMA ControlKeeps ==
  ASSUME IInv, SetAutoCommit \/ Begin \/ CommitAuto \/ Commit \/ Rollback
  PROVE  IInv'
<1>1. TypeOK BY DEF IInv
<1>2. CASE SetAutoCommit
  <2>1. told' <=> told /\ flag' = "on" /\ inTx'
    BY <1>2 DEF SetAutoCommit, Returns
  <2>2. TypeOK' /\ LimboNeedsWriter' /\ AckedIsSomewhere'
    BY <1>1, <1>2, SMT DEF SetAutoCommit, Returns, IInv, TypeOK, Flags,
       LimboNeedsWriter, AckedIsSomewhere
  <2>3. ControlHasFlag' /\ ToldOrCommitting'
    BY <1>1, <1>2, <2>1 DEF SetAutoCommit, IInv, TypeOK, ControlHasFlag, ToldOrCommitting
  <2> QED BY <2>2, <2>3 DEF IInv
<1>3. CASE Begin
  <2>1. flag = "off" /\ flag' = "off"
    BY <1>3 DEF Begin, IInv, ControlHasFlag
  <2>2. acked' \subseteq acked /\ dropped' = dropped /\ dropped \subseteq acked'
    BY <1>1, <1>3, SMT DEF Begin, Returns, Throws, TypeOK
  <2>3. told' \in BOOLEAN
    BY <1>3, Zenon DEF Begin, Returns, Throws
  <2>4. inTx' \in BOOLEAN /\ (~inTx' => ~inTx)
    BY <1>1, <1>3 DEF Begin, TypeOK
  <2>5. control' = "idle" /\ UNCHANGED <<flag, active, pending, durable, batch>>
    BY <1>3 DEF Begin
  <2> HIDE DEF Begin
  <2>6. TypeOK' /\ LimboNeedsWriter' /\ AckedIsSomewhere'
    BY <1>1, <2>2, <2>3, <2>4, <2>5, SMT
    DEF IInv, TypeOK, LimboNeedsWriter, AckedIsSomewhere
  <2>7. ControlHasFlag' /\ ToldOrCommitting'
    BY <2>1, <2>5 DEF ControlHasFlag, ToldOrCommitting
  <2> QED BY <2>6, <2>7 DEF IInv
<1>4. ASSUME NEW next \in {"idle", "begin"}, SqlCommit(next), next = "begin" => flag = "off"
      PROVE  IInv'
  <2>1. CASE /\ inTx /\ active = {} /\ inTx' = FALSE
             /\ durable' = durable \cup pending /\ pending' = {}
             /\ UNCHANGED <<flag, active, batch>>
             /\ control' = next /\ Returns({})
    <3>1. told' = FALSE
      BY <2>1 DEF Returns
    <3>2. acked' = acked /\ dropped' = dropped
      BY <2>1 DEF Returns
    <3>3. pending' = {} /\ pending' \cup durable' = pending \cup durable
      BY <2>1
    <3>4. TypeOK'
      BY <1>1, <1>4, <2>1, <3>1, <3>2, <3>3 DEF TypeOK
    <3>5. LimboNeedsWriter' /\ AckedIsSomewhere'
      BY <3>2, <3>3 DEF IInv, LimboNeedsWriter, AckedIsSomewhere
    <3> QED BY <1>4, <2>1, <3>4, <3>5 DEF IInv, ControlHasFlag, ToldOrCommitting
  <2>2. CASE /\ UNCHANGED <<flag, inTx, active, pending, durable, batch>>
             /\ control' = "idle" /\ Throws
    <3>1. told' <=> flag' = "on" /\ inTx'
      BY <2>2 DEF Throws
    <3>2. told' \in BOOLEAN
      BY <2>2, Zenon DEF Throws
    <3>3. TypeOK' /\ LimboNeedsWriter' /\ AckedIsSomewhere'
      BY <1>1, <2>2, <3>2, SMT DEF Throws, IInv, TypeOK, LimboNeedsWriter, AckedIsSomewhere
    <3> QED BY <2>2, <3>1, <3>3 DEF IInv, ControlHasFlag, ToldOrCommitting
  <2> QED BY <1>4, <2>1, <2>2 DEF SqlCommit
<1>5. CASE CommitAuto
  BY <1>4, <1>5 DEF CommitAuto
<1>6. CASE Commit
  BY <1>4, <1>6 DEF Commit
<1>7. CASE Rollback
  <2>1. CASE ~inTx
    <3>1. Throws /\ UNCHANGED <<flag, inTx, active, pending, durable, control, batch>>
      BY <1>7, <2>1 DEF Rollback
    <3>2. told' \in BOOLEAN
      BY <3>1, Zenon DEF Throws
    <3>3. TypeOK' /\ LimboNeedsWriter' /\ AckedIsSomewhere'
      BY <1>1, <3>1, <3>2, SMT DEF Throws, IInv, TypeOK, LimboNeedsWriter, AckedIsSomewhere
    <3> QED BY <2>1, <3>1, <3>3 DEF IInv, ControlHasFlag, ToldOrCommitting
  <2>2. CASE inTx
    <3>1. /\ flag = "off" /\ pending' = {} /\ inTx' = FALSE /\ control' = "begin"
          /\ acked' = acked \ pending
          /\ UNCHANGED <<flag, active, batch, durable, dropped, told>>
      BY <1>7, <2>2 DEF Rollback, RollbackAll
    <3>2. AckedIsSomewhere'
      BY <3>1 DEF IInv, AckedIsSomewhere
    <3>3. dropped' \subseteq acked' /\ acked' \subseteq Writes
      BY <1>1, <3>1 DEF IInv, TypeOK, AckedIsSomewhere
    <3>4. TypeOK'
      BY <1>1, <3>1, <3>3 DEF TypeOK
    <3> QED BY <3>1, <3>2, <3>4 DEF IInv, LimboNeedsWriter, ControlHasFlag, ToldOrCommitting
  <2> QED BY <2>1, <2>2
<1> QED BY <1>2, <1>3, <1>5, <1>6, <1>7

LEMMA NextKeeps == ASSUME IInv, [Next]_vars PROVE IInv'
<1>1. CASE UNCHANGED vars
  BY <1>1 DEF vars, IInv, TypeOK, LimboNeedsWriter, AckedIsSomewhere,
              ControlHasFlag, ToldOrCommitting
<1>2. CASE \E s \in Statements : Reading(s)
  BY <1>2, ReadingKeeps
<1> QED BY <1>1, <1>2, StatementsKeep, ControlKeeps DEF Next

LEMMA Inductive == Spec => []IInv
BY AutoCommitAssumption, Initially, NextKeeps, PTL DEF Spec

-----------------------------------------------------------------------------
(* Theorems.                                                                *)

\* Every reachable state is well typed.
THEOREM TypeCorrect == Spec => []TypeOK
<1>1. IInv => TypeOK BY DEF IInv
<1> QED BY <1>1, Inductive, PTL

\* A transaction that ensureAutoCommit leaves open in auto-commit mode is reported.
THEOREM TransactionIsReportedHolds == Spec => []TransactionIsReported
<1>1. IInv => TransactionIsReported
  BY DEF IInv, ToldOrCommitting, TransactionIsReported
<1> QED BY <1>1, Inductive, PTL

\* When the last RETURNING result ends, acknowledged changes are in the file.
THEOREM LimboEndsHolds == Spec => []LimboEnds
<1>1. IInv => LimboEnds
  BY DEF IInv, LimboNeedsWriter, AckedIsSomewhere, LimboEnds
<1> QED BY <1>1, Inductive, PTL

\* Only commit() and setAutoCommit(true) commit a transaction, so ensureAutoCommit
\* with a stale flag does not: its "begin" fails first.
THEOREM OnlyCommitCommitsHolds == Spec => OnlyCommitCommits
<1>1. ASSUME IInv, Next, inTx, durable' # durable
      PROVE  control = "commit" \/ (control = "idle" /\ control' = "begin")
  <2>1. CASE CommitAuto
    BY <2>1 DEF CommitAuto
  <2>2. CASE Commit
    BY <1>1, <2>2 DEF Commit, SqlCommit
  <2>3. CASE \E s \in Statements : Reading(s)
    BY <1>1, <2>3 DEF Reading, ExecuteReturning, NextDone, NextBusy, NextFatal,
       CloseResultSet, CloseDrops, Halt, HaltBusy, RollbackAll
  <2>4. CASE Execute \/ ExecuteUpdate \/ ExecuteBusy \/ ExecuteFatal
             \/ BatchCalled \/ ExecuteBatch \/ BatchFatal
    BY <1>1, <2>4 DEF Execute, ExecuteUpdate, ExecuteBusy, ExecuteFatal, BatchCalled,
       ExecuteBatch, BatchFatal, EnsureAutoCommit, Halt, HaltBusy, RollbackAll
  <2>5. CASE SetAutoCommit \/ Begin \/ Rollback
    BY <1>1, <2>5 DEF SetAutoCommit, Begin, Rollback, RollbackAll
  <2> QED BY <1>1, <2>1, <2>2, <2>3, <2>4, <2>5 DEF Next
<1>2. ASSUME IInv, [Next]_vars
      PROVE  [inTx /\ durable' # durable
              => control = "commit" \/ (control = "idle" /\ control' = "begin")]_vars
  BY <1>1, <1>2
<1> QED BY <1>2, Inductive, PTL DEF Spec, OnlyCommitCommits

-----------------------------------------------------------------------------
(* The comment of ensureAutoCommit, AckedIsDurable, does not hold for this   *)
(* code.  The theorems below say under which conditions it does.             *)

\* No call has thrown since SQLite is in a transaction: an application that has
\* been told of nothing may believe that what it wrote is in the file.
SilenceIsDurable ==
  flag = "on" /\ control = "idle" /\ active = {} /\ ~told => acked \subseteq durable

NothingDropped == dropped = {}

\* A close that loses changes needs a commit that is busy.
LEMMA OnlyBusyDrops == ASSUME ~OtherReaders PROVE Spec => []NothingDropped
<1>1. Init => NothingDropped
  BY DEF Init, NothingDropped
<1>2. ASSUME NothingDropped, [Next]_vars PROVE NothingDropped'
  <2>1. CASE UNCHANGED vars
    BY <1>2, <2>1 DEF vars, NothingDropped
  <2>2. CASE Execute \/ ExecuteUpdate \/ ExecuteBusy \/ ExecuteFatal
             \/ BatchCalled \/ ExecuteBatch \/ BatchFatal
    BY <1>2, <2>2 DEF Execute, ExecuteUpdate, ExecuteBusy, ExecuteFatal, BatchCalled,
       ExecuteBatch, BatchFatal, Returns, Throws, NothingDropped
  <2>3. ASSUME NEW s \in Statements, Reading(s) PROVE NothingDropped'
    BY <1>2, <2>3 DEF Reading, ExecuteReturning, NextDone, NextBusy, NextFatal,
       CloseResultSet, CloseDrops, HaltBusy, Returns, Throws, NothingDropped
  <2>4. CASE SetAutoCommit \/ Begin \/ CommitAuto \/ Commit \/ Rollback
    BY <1>2, <2>4 DEF SetAutoCommit, Begin, CommitAuto, Commit, SqlCommit, Rollback,
       Returns, Throws, NothingDropped
  <2> QED BY <1>2, <2>1, <2>2, <2>3, <2>4 DEF Next
<1> QED BY <1>1, <1>2, PTL DEF Spec

\* With no other connection reading, changes are missing from the file only
\* after a call that threw: ensureAutoCommit loses nothing silently.
THEOREM SilenceIsDurableAlone ==
  ASSUME ~OtherReaders PROVE Spec => []SilenceIsDurable
<1>1. IInv /\ NothingDropped => SilenceIsDurable
  BY DEF IInv, NothingDropped, ToldOrCommitting, LimboNeedsWriter, AckedIsSomewhere, SilenceIsDurable
<1> QED BY <1>1, Inductive, OnlyBusyDrops, PTL

\* Without RETURNING results, a transaction in auto-commit mode is about to be
\* committed.
OnlyToCommit == flag = "on" /\ inTx => control = "commit"

LEMMA OnlyToCommitHolds ==
  ASSUME Statements = {}, ~OtherReaders PROVE Spec => []OnlyToCommit
<1>1. Init => OnlyToCommit
  BY DEF Init, OnlyToCommit
<1>2. ASSUME IInv, OnlyToCommit, [Next]_vars PROVE OnlyToCommit'
  <2>1. active = {} /\ ControlHasFlag
    BY <1>2 DEF IInv, TypeOK
  <2>2. CASE UNCHANGED vars
    BY <1>2, <2>2 DEF vars, OnlyToCommit
  <2>3. CASE Execute \/ ExecuteUpdate \/ ExecuteBusy \/ ExecuteFatal
             \/ BatchCalled \/ ExecuteBatch \/ BatchFatal
    BY <1>2, <2>1, <2>3 DEF Execute, ExecuteUpdate, ExecuteBusy, ExecuteFatal, BatchCalled,
       ExecuteBatch, BatchFatal, EnsureAutoCommit, HaltBusy, RollbackAll, OnlyToCommit
  <2>4. CASE SetAutoCommit \/ Begin \/ Rollback
    BY <1>2, <2>1, <2>4 DEF SetAutoCommit, Begin, Rollback, RollbackAll, ControlHasFlag,
       OnlyToCommit
  <2>5. CASE CommitAuto \/ Commit
    BY <1>2, <2>1, <2>5 DEF CommitAuto, Commit, SqlCommit, OnlyToCommit
  <2> QED BY <1>2, <2>2, <2>3, <2>4, <2>5 DEF Next
<1> QED BY <1>1, <1>2, Inductive, PTL DEF Spec

\* The documented promise, for a program that uses no RETURNING clause on a
\* database no other connection reads: whatever the interleaving of executions,
\* batches with a stale flag, failures and setAutoCommit, what a call in
\* auto-commit mode has acknowledged is in the file.
THEOREM AckedIsDurableWithoutReturning ==
  ASSUME Statements = {}, ~OtherReaders PROVE Spec => []AckedIsDurable
<1>1. IInv /\ OnlyToCommit /\ NothingDropped => AckedIsDurable
  BY DEF IInv, NothingDropped, OnlyToCommit, LimboNeedsWriter, AckedIsSomewhere, AckedIsDurable
<1> QED BY <1>1, Inductive, OnlyToCommitHolds, OnlyBusyDrops, PTL

=============================================================================
