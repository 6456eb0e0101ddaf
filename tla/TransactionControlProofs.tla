---------------------- MODULE TransactionControlProofs ----------------------
(* Theorems about TransactionControl, for every set of connections, every  *)
(* mix of configurations and whatever statements fail.                     *)
EXTENDS TransactionControl, SequenceTheorems, TLAPS

\* The part of TypeOK that the operators for SQL statements establish.
SqlTypeOK ==
  /\ open \in [Conns -> BOOLEAN]
  /\ savepoints \in [Conns -> Seq(SUBSET Writes)]
  /\ transactionSavepoint \in [Conns -> BOOLEAN]
  /\ lock \in [Conns -> Locks]
  /\ pending \in [Conns -> SUBSET Writes]
  /\ durable \in SUBSET Writes

\* Ending a transaction keeps SQLite's variables well typed.
LEMMA EndTransactionType ==
  ASSUME TypeOK, NEW c \in Conns, NEW ch \in SUBSET Writes, EndTransaction(c, ch)
  PROVE  SqlTypeOK'
BY DEF TypeOK, SqlTypeOK, EndTransaction, Locks

\* So does "commit;" whatever its result.
LEMMA SqlCommitType ==
  ASSUME TypeOK, NEW c \in Conns, SqlCommit(c)
  PROVE  SqlTypeOK'
<1>1. CommitResult(c) \in {"OK", "BUSY", "ERROR"}
  BY DEF CommitResult
<1>2. CASE CommitResult(c) = "OK"
  <2>1. EndTransaction(c, pending[c])
    BY <1>2 DEF SqlCommit
  <2>2. pending[c] \in SUBSET Writes
    BY DEF TypeOK
  <2> QED BY <2>1, <2>2, EndTransactionType
<1>3. CASE CommitResult(c) = "BUSY"
  BY <1>3 DEF SqlCommit, TypeOK, SqlTypeOK, Locks
<1>4. CASE CommitResult(c) = "ERROR"
  BY <1>4 DEF SqlCommit, TypeOK, SqlTypeOK
<1> QED BY <1>1, <1>2, <1>3, <1>4

\* And "begin ..." in each of its modes.
LEMMA SqlBeginType ==
  ASSUME TypeOK, NEW c \in Conns,
         NEW m \in {"DEFERRED", "IMMEDIATE", "EXCLUSIVE"}, SqlBegin(c, m)
  PROVE  SqlTypeOK'
<1>1. BeginLock(c, m) \in Locks
  BY DEF BeginLock, TypeOK, Locks, WriteLocks
<1> QED BY <1>1 DEF SqlBegin, TypeOK, SqlTypeOK

\* Every call end leaves the program counter and the history well typed.
LEMMA ReturnType ==
  ASSUME TypeOK, NEW c \in Conns, NEW told \in BOOLEAN, Return(c, told)
  PROVE  /\ pc' \in [Conns -> PCs]
         /\ stmt' \in [Conns -> Stmts]
         /\ excused' \in [Conns -> BOOLEAN]
BY DEF Return, TypeOK, PCs, Stmts, NoStmt, Apis

LEMMA ContinueType ==
  ASSUME TypeOK, NEW c \in Conns, NEW at \in PCs, NEW s \in Stmts, Continue(c, at, s)
  PROVE  /\ pc' \in [Conns -> PCs]
         /\ stmt' \in [Conns -> Stmts]
         /\ excused' \in [Conns -> BOOLEAN]
BY DEF Continue, TypeOK

LEMMA NoStmtType == NoStmt \in Stmts
BY DEF NoStmt, Stmts, Apis

\* A prefix of a stack of savepoints is a stack of savepoints.
LEMMA PrefixType ==
  ASSUME NEW S, NEW s \in Seq(S), NEW n \in Nat, n <= Len(s)
  PROVE  SubSeq(s, 1, n) \in Seq(S)
BY SubSeqProperties

\* One statement in SQLite.
LEMMA RunType ==
  ASSUME TypeOK, NEW c \in Conns, NEW s \in Stmts, Run(c, s)
  PROVE  TypeOK'
<1>1. UNCHANGED <<autoCommit, mode, readOnly, queryOnly>>
  BY DEF Run
<1>2. firstStatementExecuted' \in [Conns -> BOOLEAN]
  BY DEF Run, TypeOK
<1>3. CASE SqlRead(c) /\ Return(c, FALSE)
  <2>1. SqlTypeOK'
    BY <1>3 DEF SqlRead, TypeOK, SqlTypeOK, Locks
  <2> QED BY <1>1, <1>2, <1>3, <2>1, ReturnType DEF SqlRead, TypeOK, SqlTypeOK
<1>4. ASSUME NEW w \in fresh, SqlWrite(c, w), Return(c, FALSE)
      PROVE  TypeOK'
  <2>1. w \in Writes
    BY DEF TypeOK
  <2>2. SqlTypeOK'
    <3>1. CASE open[c]
      <4>1. pending' \in [Conns -> SUBSET Writes]
        <5>1. pending[c] \cup {w} \in SUBSET Writes
          BY <2>1 DEF TypeOK
        <5>2. pending' = [pending EXCEPT ![c] = pending[c] \cup {w}]
          BY <1>4, <3>1 DEF SqlWrite
        <5> QED BY <5>1, <5>2 DEF TypeOK
      <4>2. lock' \in [Conns -> Locks]
        BY <1>4, <3>1 DEF SqlWrite, TypeOK, Locks
      <4> QED BY <1>4, <3>1, <4>1, <4>2 DEF SqlWrite, TypeOK, SqlTypeOK
    <3>2. CASE ~open[c]
      BY <1>4, <2>1, <3>2 DEF SqlWrite, TypeOK, SqlTypeOK
    <3> QED BY <3>1, <3>2
  <2>3. fresh' \in SUBSET Writes /\ acked' \in [Conns -> SUBSET Writes]
    BY <1>4, <2>1 DEF SqlWrite, TypeOK
  <2> QED BY <1>1, <1>2, <1>4, <2>2, <2>3, ReturnType DEF TypeOK, SqlTypeOK
<1>5. CASE SqlWriteFails(c) /\ Return(c, FALSE)
  <2>1. SqlTypeOK'
    BY <1>5 DEF SqlWriteFails, TypeOK, SqlTypeOK, Locks
  <2> QED BY <1>1, <1>2, <1>5, <2>1, ReturnType DEF SqlWriteFails, TypeOK, SqlTypeOK
<1>6. CASE SqlFatal(c) /\ Return(c, TRUE)
  <2>1. SqlTypeOK'
    BY <1>6, EndTransactionType DEF SqlFatal
  <2> QED BY <1>1, <1>2, <1>6, <2>1, ReturnType DEF SqlFatal, TypeOK, SqlTypeOK
<1> QED BY <1>3, <1>4, <1>5, <1>6 DEF Run

LEMMA InitType == ConfigAssumption /\ Init => TypeOK
BY DEF Init, TypeOK, PCs, Stmts, NoStmt, Apis, Modes, Locks

\* Every action keeps the state well typed.
LEMMA NextType == TypeOK /\ [Next]_vars => TypeOK'
<1> SUFFICES ASSUME TypeOK, [Next]_vars PROVE TypeOK'
  OBVIOUS
<1> USE ConfigAssumption DEF ConfigAssumption
<1>a. (\A c \in Conns : TransactionMode[c] \in Modes) /\ {"null", "IMMEDIATE"} \subseteq Modes
  BY DEF Modes
<1>b. {"closed", "idle", "commitBegin", "rollbackBegin", "upgradeBegin", "run"} \subseteq PCs
  BY DEF PCs
<1>1. ASSUME NEW c \in Conns, Open(c) PROVE TypeOK'
  BY <1>1, <1>a, ReturnType DEF Open, TypeOK
<1>2. ASSUME NEW c \in Conns, Close(c) PROVE TypeOK'
  <2>1. SqlTypeOK'
    BY <1>2, EndTransactionType DEF Close
  <2> QED BY <1>2, <1>b, <2>1 DEF Close, TypeOK, SqlTypeOK
<1>3. ASSUME NEW c \in Conns, SetAutoCommitTrue(c) PROVE TypeOK'
  <2>1. SqlTypeOK'
    BY <1>3, SqlCommitType DEF SetAutoCommitTrue
  <2> QED BY <1>3, <1>a, <2>1, ReturnType DEF SetAutoCommitTrue, TypeOK, SqlTypeOK
<1>4. ASSUME NEW c \in Conns, SetAutoCommitFalse(c) PROVE TypeOK'
  <2>1. SqlTypeOK'
    BY <1>4, SqlBeginType DEF SetAutoCommitFalse
  <2> QED BY <1>4, <1>a, <2>1, ReturnType DEF SetAutoCommitFalse, TypeOK, SqlTypeOK
<1>5. ASSUME NEW c \in Conns, Commit(c) PROVE TypeOK'
  <2>1. SqlTypeOK'
    BY <1>5, SqlCommitType DEF Commit
  <2> QED BY <1>5, <1>b, <2>1, ReturnType, ContinueType, NoStmtType DEF Commit, TypeOK, SqlTypeOK
<1>6. ASSUME NEW c \in Conns, Rollback(c) PROVE TypeOK'
  <2>1. SqlTypeOK'
    <3>1. CASE open[c]
      BY <1>6, <3>1, EndTransactionType DEF Rollback
    <3>2. CASE ~open[c]
      BY <1>6, <3>2 DEF Rollback, TypeOK, SqlTypeOK
    <3> QED BY <3>1, <3>2
  <2> QED BY <1>6, <1>b, <2>1, ReturnType, ContinueType, NoStmtType DEF Rollback, TypeOK, SqlTypeOK
<1>7. ASSUME NEW c \in Conns, BeginAgain(c) PROVE TypeOK'
  <2>1. SqlTypeOK'
    BY <1>7, SqlBeginType DEF BeginAgain
  <2> QED BY <1>7, <1>a, <2>1, ReturnType DEF BeginAgain, TypeOK, SqlTypeOK
<1>8. ASSUME NEW c \in Conns, NEW ro \in BOOLEAN, SetReadOnly(c, ro) PROVE TypeOK'
  BY <1>8 DEF SetReadOnly, TypeOK, sqliteVars
<1>9. ASSUME NEW c \in Conns, SetSavepoint(c) PROVE TypeOK'
  <2>1. savepoints' \in [Conns -> Seq(SUBSET Writes)]
    BY <1>9 DEF SetSavepoint, TypeOK
  <2> QED BY <1>9, <2>1, ReturnType DEF SetSavepoint, TypeOK
<1>10. ASSUME NEW c \in Conns, NEW i \in 1 .. Len(savepoints[c]), ReleaseSavepoint(c, i)
       PROVE  TypeOK'
  <2>1. CASE ReleasesTransaction(c, i)
    <3>1. SqlTypeOK'
      BY <1>10, <2>1, SqlCommitType DEF ReleaseSavepoint
    <3> QED BY <1>10, <2>1, <3>1, ReturnType DEF ReleaseSavepoint, TypeOK, SqlTypeOK
  <2>2. CASE ~ReleasesTransaction(c, i)
    <3>1. SubSeq(savepoints[c], 1, i - 1) \in Seq(SUBSET Writes)
      BY PrefixType DEF TypeOK
    <3>2. savepoints' \in [Conns -> Seq(SUBSET Writes)]
      BY <1>10, <2>2, <3>1 DEF ReleaseSavepoint, TypeOK
    <3> QED BY <1>10, <2>2, <3>2, ReturnType DEF ReleaseSavepoint, TypeOK
  <2> QED BY <2>1, <2>2
<1>11. ASSUME NEW c \in Conns, NEW i \in 1 .. Len(savepoints[c]), RollbackToSavepoint(c, i)
       PROVE  TypeOK'
  <2>1. SubSeq(savepoints[c], 1, i) \in Seq(SUBSET Writes)
    BY PrefixType DEF TypeOK
  <2>2. savepoints' \in [Conns -> Seq(SUBSET Writes)]
    BY <1>11, <2>1 DEF RollbackToSavepoint, TypeOK
  <2>3. savepoints[c][i] \in SUBSET Writes
    BY DEF TypeOK
  <2> QED BY <1>11, <2>2, <2>3, ReturnType DEF RollbackToSavepoint, TypeOK
<1>12. ASSUME NEW c \in Conns, NEW s \in Stmts, Enforce(c, s) PROVE TypeOK'
  <2>1. queryOnly' \in [Conns -> BOOLEAN]
    BY <1>12 DEF Enforce, Enforced, TypeOK
  <2> QED BY <1>12, <1>b, <2>1, ContinueType DEF Enforce, TypeOK
<1>13. ASSUME NEW c \in Conns, NEW s \in Stmts, UpgradeCommit(c, s) PROVE TypeOK'
  <2>1. SqlTypeOK'
    BY <1>13, SqlCommitType DEF UpgradeCommit
  <2> QED BY <1>13, <1>b, <2>1, ReturnType, ContinueType DEF UpgradeCommit, TypeOK, SqlTypeOK
<1>14. ASSUME NEW c \in Conns, UpgradeBegin(c) PROVE TypeOK'
  <2>1. SqlTypeOK'
    BY <1>14, SqlBeginType DEF UpgradeBegin
  <2>2. stmt[c] \in Stmts
    BY DEF TypeOK
  <2> QED BY <1>14, <1>a, <1>b, <2>1, <2>2, ReturnType, ContinueType
          DEF UpgradeBegin, TypeOK, SqlTypeOK
<1>15. ASSUME NEW c \in Conns, ExecuteUpdate(c) PROVE TypeOK'
  BY <1>15, RunType DEF ExecuteUpdate, Stmts, Apis
<1>16. ASSUME NEW c \in Conns, RunStatement(c) PROVE TypeOK'
  <2>1. stmt[c] \in Stmts
    BY DEF TypeOK
  <2> QED BY <1>16, <2>1, RunType DEF RunStatement
<1>17. CASE UNCHANGED vars
  BY <1>17 DEF TypeOK, vars, jdbcVars, sqliteVars
<1> QED
  BY <1>1, <1>2, <1>3, <1>4, <1>5, <1>6, <1>7, <1>8, <1>9, <1>10, <1>11, <1>12, <1>13,
     <1>14, <1>15, <1>16, <1>17 DEF Next

\* The state of driver and SQLite is well typed in every reachable state.
THEOREM TypeCorrect == Spec => []TypeOK
BY ConfigAssumption, InitType, NextType, PTL DEF Spec

-----------------------------------------------------------------------------
(* Agreement of the two views.  It is not inductive: it says nothing of    *)
(* connections in the middle of a call, and what such a call assumes when  *)
(* it comes back is exactly what is missing.                               *)

Between == {"commitBegin", "rollbackBegin", "upgradeBegin"}

\* The invariant of one connection ...
AgreementOf(c) ==
  /\ pc[c] \in {"idle", "run"} /\ ~excused[c] => (autoCommit[c] <=> ~open[c])
  /\ pc[c] \in Between => ~autoCommit[c] /\ ~open[c]
  /\ pc[c] = "closed" => ~open[c]

\* ... and of all.
AgreementInv == \A c \in Conns : AgreementOf(c)

\* The variables it speaks about.
View(d) == <<pc[d], excused[d], autoCommit[d], open[d]>>

\* What the SQL operators do to the flag "inside a transaction".
LEMMA CommitOpen ==
  ASSUME TypeOK, NEW c \in Conns, SqlCommit(c)
  PROVE  open' = [open EXCEPT ![c] = @ /\ CommitResult(c) # "OK"]
BY DEF SqlCommit, CommitResult, EndTransaction, TypeOK

LEMMA BeginOpen ==
  ASSUME TypeOK, NEW c \in Conns, NEW m, SqlBegin(c, m)
  PROVE  /\ open' \in [Conns -> BOOLEAN]
         /\ \A d \in Conns \ {c} : open'[d] = open[d]
         /\ open'[c] <=> open[c] \/ BeginResult(c, m) = "OK"
         /\ BeginResult(c, m) = "OK" => ~open[c]
BY DEF SqlBegin, BeginResult, TypeOK

\* A call that ends leaves its connection in agreement, or excused.
LEMMA ReturnAgrees ==
  ASSUME TypeOK, TypeOK', NEW c \in Conns, NEW told \in BOOLEAN, Return(c, told),
         autoCommit'[c] = open'[c] => told \/ excused[c]
  PROVE  AgreementOf(c)'
BY DEF Return, TypeOK, AgreementOf, Between

LEMMA RunAgrees ==
  ASSUME TypeOK, TypeOK', NEW c \in Conns, NEW s \in Stmts, Run(c, s),
         pc[c] \in {"idle", "run"}, AgreementOf(c)
  PROVE  /\ AgreementOf(c)'
         /\ \A d \in Conns \ {c} : View(d)' = View(d)
<1>1. autoCommit[c] = open[c] => excused[c]
  BY DEF AgreementOf, TypeOK
<1>2. ASSUME UNCHANGED <<autoCommit, open>>, Return(c, FALSE)
      PROVE  /\ AgreementOf(c)'
             /\ \A d \in Conns \ {c} : View(d)' = View(d)
  <2>1. AgreementOf(c)'
    BY <1>1, <1>2, ReturnAgrees
  <2> QED BY <1>2, <2>1 DEF View, Return, TypeOK
<1>3. CASE SqlFatal(c) /\ Return(c, TRUE)
  <2>1. AgreementOf(c)'
    BY <1>3, ReturnAgrees
  <2> QED BY <1>3, <2>1 DEF View, Return, Run, SqlFatal, EndTransaction, TypeOK
<1> QED BY <1>2, <1>3 DEF Run, SqlRead, SqlWrite, SqlWriteFails

\* Every step preserves the invariant.
LEMMA AgreementStep == TypeOK /\ AgreementInv /\ [Next]_vars => AgreementInv'
<1> SUFFICES ASSUME TypeOK, AgreementInv, [Next]_vars PROVE AgreementInv'
  OBVIOUS
<1>t. TypeOK'
  BY NextType
<1>f. ASSUME NEW c \in Conns, AgreementOf(c)', \A d \in Conns \ {c} : View(d)' = View(d)
      PROVE  AgreementInv'
  BY <1>f DEF AgreementInv, AgreementOf, View
<1>u. ASSUME NEW c \in Conns PROVE AgreementOf(c)
  BY DEF AgreementInv
<1> USE <1>t DEF View, TypeOK
<1>1. ASSUME NEW c \in Conns, Open(c) PROVE AgreementInv'
  <2>1. AgreementOf(c)'
    BY <1>1, <1>u, ReturnAgrees DEF Open, AgreementOf
  <2> QED BY <1>1, <1>f, <2>1 DEF Open, Return
<1>2. ASSUME NEW c \in Conns, Close(c) PROVE AgreementInv'
  <2>1. AgreementOf(c)'
    BY <1>2 DEF Close, EndTransaction, AgreementOf, Between
  <2> QED BY <1>2, <1>f, <2>1 DEF Close, EndTransaction
<1>3. ASSUME NEW c \in Conns, SetAutoCommitTrue(c) PROVE AgreementInv'
  <2>1. open' = [open EXCEPT ![c] = @ /\ CommitResult(c) # "OK"]
    BY <1>3, CommitOpen DEF SetAutoCommitTrue
  <2>2. AgreementOf(c)'
    BY <1>3, <2>1, ReturnAgrees DEF SetAutoCommitTrue
  <2> QED BY <1>3, <1>f, <2>1, <2>2 DEF SetAutoCommitTrue, Return
<1>4. ASSUME NEW c \in Conns, SetAutoCommitFalse(c) PROVE AgreementInv'
  <2>1. /\ open'[c] <=> open[c] \/ BeginResult(c, TransactionMode[c]) = "OK"
        /\ \A d \in Conns \ {c} : open'[d] = open[d]
    BY <1>4, BeginOpen DEF SetAutoCommitFalse
  <2>2. AgreementOf(c)'
    BY <1>4, <2>1, ReturnAgrees DEF SetAutoCommitFalse
  <2> QED BY <1>4, <1>f, <2>1, <2>2 DEF SetAutoCommitFalse, Return
<1>5. ASSUME NEW c \in Conns, Commit(c) PROVE AgreementInv'
  <2>1. open' = [open EXCEPT ![c] = @ /\ CommitResult(c) # "OK"]
    BY <1>5, CommitOpen DEF Commit
  <2>2. CASE CommitResult(c) = "OK"
    <3>1. AgreementOf(c)'
      BY <1>5, <2>1, <2>2 DEF Commit, Continue, AgreementOf, Between
    <3> QED BY <1>5, <1>f, <2>1, <2>2, <3>1 DEF Commit, Continue
  <2>3. CASE CommitResult(c) # "OK"
    <3>1. AgreementOf(c)'
      BY <1>5, <2>1, <2>3, ReturnAgrees DEF Commit
    <3> QED BY <1>5, <1>f, <2>1, <2>3, <3>1 DEF Commit, Return
  <2> QED BY <2>2, <2>3
<1>6. ASSUME NEW c \in Conns, Rollback(c) PROVE AgreementInv'
  <2>1. CASE open[c]
    <3>1. AgreementOf(c)'
      BY <1>6, <2>1 DEF Rollback, EndTransaction, Continue, AgreementOf, Between
    <3> QED BY <1>6, <1>f, <2>1, <3>1 DEF Rollback, EndTransaction, Continue
  <2>2. CASE ~open[c]
    <3>1. AgreementOf(c)'
      BY <1>6, <2>2, ReturnAgrees DEF Rollback
    <3> QED BY <1>6, <1>f, <2>2, <3>1 DEF Rollback, Return
  <2> QED BY <2>1, <2>2
<1>7. ASSUME NEW c \in Conns, BeginAgain(c) PROVE AgreementInv'
  <2>1. /\ open'[c] <=> open[c] \/ BeginResult(c, TransactionMode[c]) = "OK"
        /\ \A d \in Conns \ {c} : open'[d] = open[d]
    BY <1>7, BeginOpen DEF BeginAgain
  <2>2. ~autoCommit[c]
    BY <1>7, <1>u DEF BeginAgain, AgreementOf, Between
  <2>3. AgreementOf(c)'
    BY <1>7, <2>1, <2>2, ReturnAgrees DEF BeginAgain
  <2> QED BY <1>7, <1>f, <2>1, <2>3 DEF BeginAgain, Return
<1>8. ASSUME NEW c \in Conns, NEW ro \in BOOLEAN, SetReadOnly(c, ro) PROVE AgreementInv'
  BY <1>8 DEF SetReadOnly, sqliteVars, AgreementInv, AgreementOf
<1>9. ASSUME NEW c \in Conns, SetSavepoint(c) PROVE AgreementInv'
  <2>1. AgreementOf(c)'
    BY <1>9, ReturnAgrees DEF SetSavepoint
  <2> QED BY <1>9, <1>f, <2>1 DEF SetSavepoint, Return
<1>10. ASSUME NEW c \in Conns, NEW i \in 1 .. Len(savepoints[c]), ReleaseSavepoint(c, i)
       PROVE  AgreementInv'
  <2>1. CASE ReleasesTransaction(c, i)
    <3>1. open' = [open EXCEPT ![c] = @ /\ CommitResult(c) # "OK"]
      BY <1>10, <2>1, CommitOpen DEF ReleaseSavepoint
    <3>2. AgreementOf(c)'
      BY <1>10, <2>1, ReturnAgrees DEF ReleaseSavepoint
    <3> QED BY <1>10, <1>f, <2>1, <3>1, <3>2 DEF ReleaseSavepoint, Return
  <2>2. CASE ~ReleasesTransaction(c, i)
    <3>1. AgreementOf(c)'
      BY <1>10, <1>u, <2>2, ReturnAgrees DEF ReleaseSavepoint, AgreementOf
    <3> QED BY <1>10, <1>f, <2>2, <3>1 DEF ReleaseSavepoint, Return
  <2> QED BY <2>1, <2>2
<1>11. ASSUME NEW c \in Conns, NEW i \in 1 .. Len(savepoints[c]), RollbackToSavepoint(c, i)
       PROVE  AgreementInv'
  <2>1. AgreementOf(c)'
    BY <1>11, <1>u, ReturnAgrees DEF RollbackToSavepoint, AgreementOf
  <2> QED BY <1>11, <1>f, <2>1 DEF RollbackToSavepoint, Return
<1>12. ASSUME NEW c \in Conns, NEW s \in Stmts, Enforce(c, s) PROVE AgreementInv'
  <2>1. AgreementOf(c)'
    BY <1>12, <1>u DEF Enforce, Continue, AgreementOf, Between
  <2> QED BY <1>12, <1>f, <2>1 DEF Enforce, Continue
<1>13. ASSUME NEW c \in Conns, NEW s \in Stmts, UpgradeCommit(c, s) PROVE AgreementInv'
  <2>1. open' = [open EXCEPT ![c] = @ /\ CommitResult(c) # "OK"]
    BY <1>13, CommitOpen DEF UpgradeCommit
  <2>2. CASE CommitResult(c) = "OK"
    <3>1. AgreementOf(c)'
      BY <1>13, <2>1, <2>2
      DEF UpgradeCommit, NeedsUpgrade, Enforced, Continue, AgreementOf, Between
    <3> QED BY <1>13, <1>f, <2>1, <2>2, <3>1 DEF UpgradeCommit, Continue
  <2>3. CASE CommitResult(c) # "OK"
    <3>1. AgreementOf(c)'
      BY <1>13, <2>1, <2>3, ReturnAgrees DEF UpgradeCommit
    <3> QED BY <1>13, <1>f, <2>1, <2>3, <3>1 DEF UpgradeCommit, Return
  <2> QED BY <2>2, <2>3
<1>14. ASSUME NEW c \in Conns, UpgradeBegin(c) PROVE AgreementInv'
  <2>1. /\ open'[c] <=> open[c] \/ BeginResult(c, "IMMEDIATE") = "OK"
        /\ \A d \in Conns \ {c} : open'[d] = open[d]
    BY <1>14, BeginOpen DEF UpgradeBegin
  <2>2. ~autoCommit[c]
    BY <1>14, <1>u DEF UpgradeBegin, AgreementOf, Between
  <2>3. CASE BeginResult(c, "IMMEDIATE") = "OK"
    <3>1. AgreementOf(c)'
      BY <1>14, <2>1, <2>2, <2>3 DEF UpgradeBegin, Continue, AgreementOf, Between
    <3> QED BY <1>14, <1>f, <2>1, <2>3, <3>1 DEF UpgradeBegin, Continue
  <2>4. CASE BeginResult(c, "IMMEDIATE") # "OK"
    <3>1. AgreementOf(c)'
      BY <1>14, <2>1, <2>4, ReturnAgrees DEF UpgradeBegin
    <3> QED BY <1>14, <1>f, <2>1, <2>4, <3>1 DEF UpgradeBegin, Return
  <2> QED BY <2>3, <2>4
<1>15. ASSUME NEW c \in Conns, ExecuteUpdate(c) PROVE AgreementInv'
  <2>1. [api |-> "update", write |-> TRUE] \in Stmts
    BY DEF Stmts, Apis
  <2> QED BY <1>15, <1>f, <1>u, <2>1, RunAgrees DEF ExecuteUpdate
<1>16. ASSUME NEW c \in Conns, RunStatement(c) PROVE AgreementInv'
  <2>1. stmt[c] \in Stmts
    OBVIOUS
  <2> QED BY <1>16, <1>f, <1>u, <2>1, RunAgrees DEF RunStatement
<1>17. CASE UNCHANGED vars
  BY <1>17 DEF vars, jdbcVars, sqliteVars, AgreementInv, AgreementOf
<1> QED
  BY <1>1, <1>2, <1>3, <1>4, <1>5, <1>6, <1>7, <1>8, <1>9, <1>10, <1>11, <1>12, <1>13,
     <1>14, <1>15, <1>16, <1>17 DEF Next

\* getAutoCommit() and SQLite agree between calls unless the client was told
\* otherwise: for any number of connections, any transaction mode, with
\* savepoints, busy locks and automatic rollbacks.
THEOREM AgreementHolds == Spec => []Agreement
<1>1. Init => AgreementInv
  BY DEF Init, AgreementInv, AgreementOf, Between
<1>2. AgreementInv => Agreement
  BY DEF AgreementInv, AgreementOf, Agreement
<1> QED BY <1>1, <1>2, AgreementStep, TypeCorrect, PTL DEF Spec

\* Changing the auto-commit flag repairs a disagreement, for every
\* configuration: setAutoCommit(true) then has nothing to commit, and
\* setAutoCommit(false) and setSavepoint find a transaction open.
THEOREM FlagChangeRepairsHolds == Spec => FlagChangeRepairs
<1>1. ASSUME TypeOK, [Next]_vars, NEW c \in Conns,
             autoCommit'[c] # autoCommit[c], autoCommit[c] = open[c]
      PROVE  autoCommit'[c] # open'[c]
  <2>1. ASSUME NEW d \in Conns, Open(d) PROVE autoCommit'[c] # open'[c]
    BY <1>1, <2>1 DEF Open, TypeOK
  <2>2. ASSUME NEW d \in Conns, SetAutoCommitTrue(d) PROVE autoCommit'[c] # open'[c]
    <3>1. open' = [open EXCEPT ![d] = @ /\ CommitResult(d) # "OK"]
      BY <1>1, <2>2, CommitOpen DEF SetAutoCommitTrue
    <3>2. ~open[c] /\ autoCommit'[c]
      BY <1>1, <2>2 DEF SetAutoCommitTrue, TypeOK
    <3> QED BY <1>1, <3>1, <3>2 DEF TypeOK
  <2>3. ASSUME NEW d \in Conns, SetAutoCommitFalse(d) PROVE autoCommit'[c] # open'[c]
    <3>1. open[c] => open'[c]
      BY <1>1, <2>3 DEF SetAutoCommitFalse, SqlBegin, TypeOK
    <3>2. open[c] /\ ~autoCommit'[c]
      BY <1>1, <2>3 DEF SetAutoCommitFalse, TypeOK
    <3> QED BY <3>1, <3>2
  <2>4. ASSUME NEW d \in Conns, SetSavepoint(d) PROVE autoCommit'[c] # open'[c]
    BY <1>1, <2>4 DEF SetSavepoint, TypeOK
  <2>5. CASE UNCHANGED autoCommit
    BY <1>1, <2>5
  <2> QED
    BY <1>1, <2>1, <2>2, <2>3, <2>4, <2>5
    DEF Next, Close, Commit, Rollback, BeginAgain, SetReadOnly, ReleaseSavepoint,
        RollbackToSavepoint, Enforce, UpgradeCommit, UpgradeBegin, ExecuteUpdate,
        RunStatement, Run, vars, jdbcVars
<1>2. TypeOK /\ [Next]_vars
      => [\A c \in Conns : autoCommit'[c] # autoCommit[c] /\ autoCommit[c] = open[c]
                            => autoCommit'[c] # open'[c]]_vars
  BY <1>1
<1> QED BY <1>2, TypeCorrect, PTL DEF Spec, FlagChangeRepairs

-----------------------------------------------------------------------------
(* Where the changes are: what commit() and rollback() promise, and that   *)
(* no acknowledged change is lost.                                         *)

\* A change is not issued, in the transaction of one connection, or in the
\* file; and a change another connection has pending is not mine.
Disjoint ==
  /\ fresh \cap durable = {}
  /\ \A c \in Conns :
       /\ fresh \cap acked[c] = {}
       /\ fresh \cap pending[c] = {}
       /\ durable \cap pending[c] = {}
  /\ \A c, d \in Conns : c # d => acked[c] \cap pending[d] = {} /\ pending[c] \cap pending[d] = {}

\* What a stack of savepoints remembers grows towards what is pending now.
Nested(stack, now) ==
  \A i \in 1 .. Len(stack) : /\ stack[i] \subseteq now
                             /\ \A j \in 1 .. i : stack[j] \subseteq stack[i]

\* Acknowledged changes are kept, and are in the file after the first half of a
\* commit; and the savepoints of a stack are nested.
KeptOf(c) ==
  /\ pc[c] = "commitBegin" => acked[c] \subseteq durable
  /\ pc[c] \notin {"rollbackBegin", "closed"} => acked[c] \subseteq pending[c] \cup durable
  /\ Nested(savepoints[c], pending[c])

\* The invariant of a connection without explicit read-only mode, which never
\* upgrades: what is acknowledged in a transaction that no savepoint opened is
\* in it.
Ordinary(c) == ~ExplicitReadOnly[c]

PromiseOf(c) ==
  /\ pc[c] \in {"idle", "run"} /\ open[c] /\ ~transactionSavepoint[c]
     => acked[c] \subseteq pending[c]
  /\ pc[c] \in {"commitBegin", "rollbackBegin"} => ~open[c]
  /\ pc[c] # "upgradeBegin"

Good(c) == KeptOf(c) /\ (Ordinary(c) => PromiseOf(c))

PromiseInv == Disjoint /\ \A c \in Conns : Good(c)

\* A step of connection c: the others' state stays, changes only move from
\* "not issued" or "pending in c" to where c puts them.
Own(d) == <<pc[d], open[d], acked[d], pending[d], savepoints[d], transactionSavepoint[d]>>

StepOf(c) ==
  /\ \A d \in Conns \ {c} : Own(d)' = Own(d)
  /\ fresh' \subseteq fresh
  /\ acked'[c] \subseteq acked[c] \cup (fresh \ fresh')
  /\ pending'[c] \subseteq pending[c] \cup (fresh \ fresh')
  /\ durable \subseteq durable'
  /\ durable' \subseteq durable \cup pending[c] \cup (fresh \ fresh')
  /\ durable' \cap pending'[c] = {}

LEMMA FrameDisjoint ==
  ASSUME Disjoint, NEW c \in Conns, StepOf(c)
  PROVE  Disjoint'
<1>1. fresh' \cap durable' = {}
  BY DEF Disjoint, StepOf
<1>2. ASSUME NEW d \in Conns
      PROVE  /\ fresh' \cap acked'[d] = {}
             /\ fresh' \cap pending'[d] = {}
             /\ durable' \cap pending'[d] = {}
  <2>1. CASE d = c
    BY <2>1 DEF Disjoint, StepOf
  <2>2. CASE d # c
    <3>1. acked'[d] = acked[d] /\ pending'[d] = pending[d]
      BY <2>2 DEF StepOf, Own
    <3> QED BY <2>2, <3>1 DEF Disjoint, StepOf
  <2> QED BY <2>1, <2>2
<1>3. ASSUME NEW d \in Conns, NEW e \in Conns, d # e
      PROVE  acked'[d] \cap pending'[e] = {} /\ pending'[d] \cap pending'[e] = {}
  <2>1. \A b \in Conns \ {c} : acked'[b] = acked[b] /\ pending'[b] = pending[b]
    BY DEF StepOf, Own
  <2>2. CASE d = c
    BY <1>3, <2>1, <2>2 DEF Disjoint, StepOf
  <2>3. CASE e = c
    BY <1>3, <2>1, <2>3 DEF Disjoint, StepOf
  <2>4. CASE d # c /\ e # c
    BY <1>3, <2>1, <2>4 DEF Disjoint
  <2> QED BY <2>2, <2>3, <2>4
<1> QED BY <1>1, <1>2, <1>3 DEF Disjoint

\* So it is enough to look at the connection that makes the step.
LEMMA FramePromise ==
  ASSUME PromiseInv, NEW c \in Conns, StepOf(c), Good(c)'
  PROVE  PromiseInv'
<1>1. Disjoint'
  BY FrameDisjoint DEF PromiseInv
<1>2. ASSUME NEW d \in Conns, d # c PROVE Good(d)'
  <2>1. /\ pc'[d] = pc[d] /\ open'[d] = open[d] /\ acked'[d] = acked[d]
        /\ pending'[d] = pending[d] /\ savepoints'[d] = savepoints[d]
        /\ transactionSavepoint'[d] = transactionSavepoint[d]
    BY <1>2 DEF StepOf, Own
  <2>3. KeptOf(d) /\ (Ordinary(d) => PromiseOf(d))
    BY DEF PromiseInv, Good
  <2>4. durable \subseteq durable' /\ durable' \subseteq durable \cup pending[c] \cup (fresh \ fresh')
    BY DEF StepOf
  <2>5. KeptOf(d)'
    BY <2>1, <2>3, <2>4 DEF KeptOf
  <2>6. Ordinary(d)' => Ordinary(d)
    BY DEF Ordinary
  <2>7. ASSUME Ordinary(d) PROVE PromiseOf(d)'
    BY <2>1, <2>3, <2>7 DEF PromiseOf
  <2> QED BY <2>5, <2>6, <2>7 DEF Good
<1> QED BY <1>1, <1>2 DEF PromiseInv

\* The empty stack is nested; a prefix of a nested stack is, also towards its
\* own top; and so is a nested stack with what is pending now on top.
LEMMA EmptyNested ==
  ASSUME NEW now
  PROVE  Nested(<<>>, now)
BY DEF Nested

LEMMA PrefixNested ==
  ASSUME NEW s \in Seq(SUBSET Writes), NEW now, Nested(s, now),
         NEW n \in 0 .. Len(s)
  PROVE  /\ Nested(SubSeq(s, 1, n), now)
         /\ n > 0 => s[n] \subseteq now /\ Nested(SubSeq(s, 1, n), s[n])
<1>1. /\ Len(SubSeq(s, 1, n)) = n /\ Len(s) \in Nat
      /\ \A i \in 1 .. n : SubSeq(s, 1, n)[i] = s[i] /\ i \in 1 .. Len(s)
  OBVIOUS
<1>2. \A i \in 1 .. n : s[i] \subseteq now /\ \A j \in 1 .. i : s[j] \subseteq s[i]
  BY <1>1 DEF Nested
<1>3. \A i \in 1 .. n : \A j \in 1 .. i : j \in 1 .. n
  OBVIOUS
<1>4. Nested(SubSeq(s, 1, n), now)
  BY <1>1, <1>2, <1>3 DEF Nested
<1>5. ASSUME n > 0 PROVE s[n] \subseteq now /\ Nested(SubSeq(s, 1, n), s[n])
  <2>1. n \in 1 .. n
    BY <1>5
  <2> QED BY <1>1, <1>2, <1>3, <2>1 DEF Nested
<1> QED BY <1>4, <1>5

LEMMA AppendNested ==
  ASSUME NEW s \in Seq(SUBSET Writes), NEW now \in SUBSET Writes, Nested(s, now)
  PROVE  Nested(Append(s, now), now)
<1> DEFINE t == Append(s, now)
<1>1. /\ Len(s) \in Nat /\ Len(t) = Len(s) + 1 /\ t[Len(s) + 1] = now
      /\ \A i \in 1 .. Len(s) : t[i] = s[i]
  OBVIOUS
<1>2. ASSUME NEW i \in 1 .. Len(t)
      PROVE  t[i] \subseteq now /\ \A j \in 1 .. i : t[j] \subseteq t[i]
  <2>1. CASE i = Len(s) + 1
    <3>1. \A j \in 1 .. i : j = Len(s) + 1 \/ j \in 1 .. Len(s)
      BY <1>1, <2>1
    <3>2. \A j \in 1 .. Len(s) : t[j] \subseteq now
      BY <1>1 DEF Nested
    <3> QED BY <1>1, <2>1, <3>1, <3>2
  <2>2. CASE i \in 1 .. Len(s)
    <3>1. \A j \in 1 .. i : j \in 1 .. Len(s)
      BY <1>1, <2>2
    <3>2. s[i] \subseteq now /\ \A j \in 1 .. i : s[j] \subseteq s[i]
      BY <2>2 DEF Nested
    <3> QED BY <1>1, <2>2, <3>1, <3>2
  <2> QED BY <1>1, <2>1, <2>2
<1> QED BY <1>2 DEF Nested

\* The end of a transaction moves nothing or what was pending to the file.
LEMMA EndStep ==
  ASSUME TypeOK, PromiseInv, NEW c \in Conns, NEW ch \in {{}, pending[c]},
         EndTransaction(c, ch), UNCHANGED fresh, acked'[c] \subseteq acked[c],
         \A d \in Conns \ {c} : pc'[d] = pc[d] /\ acked'[d] = acked[d]
  PROVE  /\ StepOf(c)
         /\ savepoints'[c] = <<>> /\ ~transactionSavepoint'[c] /\ ~open'[c]
         /\ pending'[c] = {} /\ durable' = durable \cup ch
BY DEF EndTransaction, StepOf, Own, TypeOK, PromiseInv, Disjoint

\* "commit;" ends the transaction, or leaves it as it was.
LEMMA CommitStep ==
  ASSUME TypeOK, PromiseInv, NEW c \in Conns, SqlCommit(c), UNCHANGED fresh,
         acked'[c] \subseteq acked[c],
         \A d \in Conns \ {c} : pc'[d] = pc[d] /\ acked'[d] = acked[d]
  PROVE  /\ StepOf(c)
         /\ CommitResult(c) = "OK" =>
              /\ open[c] /\ ~open'[c] /\ savepoints'[c] = <<>> /\ ~transactionSavepoint'[c]
              /\ pending'[c] = {} /\ durable' = durable \cup pending[c]
         /\ CommitResult(c) # "OK" =>
              UNCHANGED <<open, savepoints, transactionSavepoint, pending, durable>>
<1>1. CommitResult(c) \in {"OK", "BUSY", "ERROR"} /\ (CommitResult(c) = "OK" => open[c])
  BY DEF CommitResult
<1>3. CASE CommitResult(c) = "OK"
  <2>1. EndTransaction(c, pending[c])
    BY <1>3 DEF SqlCommit
  <2> QED BY <1>1, <1>3, <2>1, EndStep
<1>4. CASE CommitResult(c) # "OK"
  <2>1. UNCHANGED <<open, savepoints, transactionSavepoint, pending, durable>>
    BY <1>1, <1>4 DEF SqlCommit
  <2>2. StepOf(c)
    BY <2>1 DEF StepOf, Own, PromiseInv, Disjoint
  <2> QED BY <1>4, <2>1, <2>2
<1> QED BY <1>3, <1>4

\* After "commit;" what was acknowledged is kept, whatever the result.
LEMMA CommitKeeps ==
  ASSUME TypeOK, PromiseInv, NEW c \in Conns, SqlCommit(c), UNCHANGED fresh,
         acked'[c] \subseteq acked[c],
         \A d \in Conns \ {c} : pc'[d] = pc[d] /\ acked'[d] = acked[d],
         pc[c] \notin {"rollbackBegin", "closed"},
         pc'[c] = "commitBegin" => CommitResult(c) = "OK"
  PROVE  StepOf(c) /\ KeptOf(c)'
<1>1. KeptOf(c)
  BY DEF PromiseInv, Good
<1>2. CASE CommitResult(c) = "OK"
  <2>1. savepoints'[c] = <<>> /\ durable' = durable \cup pending[c]
    BY <1>2, CommitStep
  <2> QED BY <1>1, <2>1, CommitStep, EmptyNested DEF KeptOf
<1>3. CASE CommitResult(c) # "OK"
  <2>1. UNCHANGED <<savepoints, pending, durable>>
    BY <1>3, CommitStep
  <2> QED BY <1>1, <2>1, CommitStep DEF KeptOf
<1> QED BY <1>2, <1>3

LEMMA PromiseStep ==
  ASSUME TypeOK, TypeOK', PromiseInv, [Next]_vars
  PROVE  PromiseInv'
<1>f. \A d \in Conns : KeptOf(d) /\ (Ordinary(d) => PromiseOf(d))
  BY DEF PromiseInv, Good
<1>d. Disjoint
  BY DEF PromiseInv
<1>p. \A d \in Conns : Ordinary(d)' <=> Ordinary(d)
  BY DEF Ordinary
<1>1. ASSUME NEW c \in Conns, Open(c) PROVE PromiseInv'
  <2>1. StepOf(c)
    BY <1>1, <1>d DEF Open, Return, StepOf, Own, TypeOK, Disjoint
  <2>2. KeptOf(c)'
    BY <1>1, <1>f DEF Open, KeptOf, TypeOK
  <2>3. Ordinary(c) => PromiseOf(c)'
    BY <1>1, <1>f DEF Open, Return, PromiseOf, TypeOK
  <2> QED BY <1>p, <2>1, <2>2, <2>3, FramePromise DEF Good
<1>2. ASSUME NEW c \in Conns, Close(c) PROVE PromiseInv'
  <2>1. pc'[c] = "closed" /\ \A d \in Conns \ {c} : pc'[d] = pc[d]
    BY <1>2 DEF Close, TypeOK
  <2>2. StepOf(c) /\ savepoints'[c] = <<>> /\ ~transactionSavepoint'[c]
    BY <1>2, <2>1, EndStep DEF Close
  <2>3. KeptOf(c)' /\ PromiseOf(c)'
    BY <2>1, <2>2, EmptyNested DEF PromiseOf, KeptOf
  <2> QED BY <2>2, <2>3, FramePromise DEF Good
<1>3. ASSUME NEW c \in Conns, SetAutoCommitTrue(c) PROVE PromiseInv'
  <2>1. /\ pc[c] = "idle" /\ pc'[c] = "idle"
        /\ \A d \in Conns \ {c} : pc'[d] = pc[d]
        /\ SqlCommit(c) /\ UNCHANGED <<fresh, acked>>
    BY <1>3 DEF SetAutoCommitTrue, Return, TypeOK
  <2>2. StepOf(c) /\ KeptOf(c)'
    BY <2>1, CommitKeeps
  <2>3. Ordinary(c) => PromiseOf(c)'
    BY <1>f, <2>1, CommitStep DEF PromiseOf
  <2> QED BY <1>p, <2>2, <2>3, FramePromise DEF Good
<1>4. ASSUME NEW c \in Conns, SetAutoCommitFalse(c) PROVE PromiseInv'
  <2>0. /\ pc[c] = "idle" /\ pc'[c] = "idle" /\ acked'[c] \subseteq acked[c]
        /\ \A d \in Conns \ {c} : pc'[d] = pc[d] /\ open'[d] = open[d] /\ acked'[d] = acked[d]
        /\ UNCHANGED <<savepoints, transactionSavepoint, pending, durable, fresh>>
    BY <1>4 DEF SetAutoCommitFalse, SqlBegin, Return, TypeOK
  <2>1. StepOf(c)
    BY <1>d, <2>0 DEF StepOf, Own, Disjoint
  <2>2. KeptOf(c)'
    BY <1>f, <2>0 DEF KeptOf
  <2>3. open'[c] => acked'[c] = {} \/ (open[c] /\ acked'[c] = acked[c])
    BY <1>4 DEF SetAutoCommitFalse, SqlBegin, TypeOK
  <2>4. Ordinary(c) => PromiseOf(c)'
    BY <1>f, <2>0, <2>3 DEF PromiseOf
  <2> QED BY <1>p, <2>1, <2>2, <2>4, FramePromise DEF Good
<1>5. ASSUME NEW c \in Conns, Commit(c) PROVE PromiseInv'
  <2>1. /\ pc[c] = "idle"
        /\ pc'[c] = IF CommitResult(c) = "OK" THEN "commitBegin" ELSE "idle"
        /\ \A d \in Conns \ {c} : pc'[d] = pc[d]
        /\ SqlCommit(c) /\ UNCHANGED <<fresh, acked>>
    BY <1>5 DEF Commit, Return, Continue, TypeOK
  <2>2. StepOf(c) /\ KeptOf(c)'
    BY <2>1, CommitKeeps
  <2>3. Ordinary(c) => PromiseOf(c)'
    BY <1>f, <2>1, CommitStep DEF PromiseOf
  <2> QED BY <1>p, <2>2, <2>3, FramePromise DEF Good
<1>6. ASSUME NEW c \in Conns, Rollback(c) PROVE PromiseInv'
  <2>0. /\ pc[c] = "idle" /\ \A d \in Conns \ {c} : pc'[d] = pc[d]
        /\ UNCHANGED <<fresh, acked>>
    BY <1>6 DEF Rollback, Return, Continue, TypeOK
  <2>1. CASE open[c] /\ EndTransaction(c, {}) /\ pc'[c] = "rollbackBegin"
    <3>1. /\ StepOf(c) /\ savepoints'[c] = <<>> /\ ~transactionSavepoint'[c]
          /\ ~open'[c] /\ durable' = durable
      BY <2>0, <2>1, EndStep
    <3>3. PromiseOf(c)'
      BY <2>1, <3>1 DEF PromiseOf
    <3>4. KeptOf(c)'
      BY <2>1, <3>1, EmptyNested DEF KeptOf
    <3> QED BY <1>p, <3>1, <3>3, <3>4, FramePromise DEF Good
  <2>2. CASE /\ UNCHANGED <<open, savepoints, transactionSavepoint, lock, pending, durable>>
             /\ pc'[c] = "idle"
    <3>1. StepOf(c)
      BY <1>d, <2>0, <2>2 DEF StepOf, Own, Disjoint
    <3>2. KeptOf(c)' /\ (Ordinary(c) => PromiseOf(c)')
      BY <1>f, <2>0, <2>2 DEF PromiseOf, KeptOf
    <3> QED BY <1>p, <3>1, <3>2, FramePromise DEF Good
  <2> QED BY <1>6, <2>1, <2>2 DEF Rollback, Return, Continue, TypeOK
<1>7. ASSUME NEW c \in Conns, BeginAgain(c) PROVE PromiseInv'
  <2>0. /\ pc[c] \in {"commitBegin", "rollbackBegin"} /\ pc'[c] = "idle" /\ acked'[c] = {}
        /\ \A d \in Conns \ {c} : pc'[d] = pc[d] /\ open'[d] = open[d] /\ acked'[d] = acked[d]
        /\ UNCHANGED <<savepoints, transactionSavepoint, pending, durable, fresh>>
    BY <1>7 DEF BeginAgain, SqlBegin, Return, TypeOK
  <2>1. StepOf(c)
    BY <1>d, <2>0 DEF StepOf, Own, Disjoint
  <2>2. KeptOf(c)' /\ (Ordinary(c) => PromiseOf(c)')
    BY <1>f, <2>0 DEF PromiseOf, KeptOf
  <2> QED BY <1>p, <2>1, <2>2, FramePromise DEF Good
<1>8. ASSUME NEW c \in Conns, NEW ro \in BOOLEAN, SetReadOnly(c, ro) PROVE PromiseInv'
  BY <1>8, <1>f, <1>d, <1>p
  DEF SetReadOnly, sqliteVars, PromiseInv, Good, PromiseOf, KeptOf, Disjoint
<1>9. ASSUME NEW c \in Conns, SetSavepoint(c) PROVE PromiseInv'
  <2>0. /\ pc[c] = "idle" /\ pc'[c] = "idle" /\ acked'[c] \subseteq acked[c]
        /\ \A d \in Conns \ {c} : /\ pc'[d] = pc[d] /\ open'[d] = open[d] /\ acked'[d] = acked[d]
                                 /\ savepoints'[d] = savepoints[d]
                                 /\ transactionSavepoint'[d] = transactionSavepoint[d]
        /\ UNCHANGED <<pending, durable, fresh>>
    BY <1>9 DEF SetSavepoint, Return, TypeOK
  <2>1. StepOf(c)
    BY <1>d, <2>0 DEF StepOf, Own, Disjoint
  <2>2. savepoints'[c] = Append(savepoints[c], pending[c]) /\ savepoints[c] \in Seq(SUBSET Writes)
    BY <1>9 DEF SetSavepoint, TypeOK
  <2>3. Nested(savepoints'[c], pending'[c])
    <3>1. pending[c] \in SUBSET Writes /\ Nested(savepoints[c], pending[c]) /\ pending' = pending
      BY <1>f, <2>0 DEF KeptOf, TypeOK
    <3> QED BY <2>2, <3>1, AppendNested
  <2>4. KeptOf(c)'
    BY <1>f, <2>0, <2>3 DEF KeptOf
  <2>5. open[c] => acked'[c] = acked[c]
    BY <1>9 DEF SetSavepoint, TypeOK
  <2>6. ~open[c] => transactionSavepoint'[c]
    BY <1>9 DEF SetSavepoint, TypeOK
  <2>7. open[c] => transactionSavepoint'[c] = transactionSavepoint[c]
    BY <1>9 DEF SetSavepoint, TypeOK
  <2>8. Ordinary(c) => PromiseOf(c)'
    BY <1>f, <2>0, <2>5, <2>6, <2>7 DEF PromiseOf
  <2> QED BY <1>p, <2>1, <2>4, <2>8, FramePromise DEF Good
<1>11. ASSUME NEW c \in Conns, NEW i \in 1 .. Len(savepoints[c]), ReleaseSavepoint(c, i)
       PROVE  PromiseInv'
  <2>0. /\ pc[c] = "idle" /\ pc'[c] = "idle" /\ \A d \in Conns \ {c} : pc'[d] = pc[d]
        /\ UNCHANGED fresh
    BY <1>11 DEF ReleaseSavepoint, Return, TypeOK
  <2>1. CASE ReleasesTransaction(c, i)
    <3>1. /\ SqlCommit(c) /\ acked'[c] \subseteq acked[c]
          /\ \A d \in Conns \ {c} : acked'[d] = acked[d]
      BY <1>11, <2>1 DEF ReleaseSavepoint, TypeOK
    <3>2. StepOf(c) /\ KeptOf(c)'
      BY <2>0, <3>1, CommitKeeps
    <3>3. PromiseOf(c)'
      BY <2>0, <2>1, <3>1, CommitStep DEF PromiseOf, ReleasesTransaction
    <3> QED BY <1>p, <3>2, <3>3, FramePromise DEF Good
  <2>2. CASE ~ReleasesTransaction(c, i)
    <3>1. /\ savepoints'[c] = SubSeq(savepoints[c], 1, i - 1)
          /\ \A d \in Conns \ {c} : savepoints'[d] = savepoints[d]
          /\ UNCHANGED <<open, transactionSavepoint, pending, durable, acked>>
      BY <1>11, <2>2 DEF ReleaseSavepoint, TypeOK
    <3>2. StepOf(c)
      BY <1>d, <2>0, <3>1 DEF StepOf, Own, Disjoint
    <3>3. Nested(savepoints'[c], pending'[c])
      <4>1. savepoints[c] \in Seq(SUBSET Writes) /\ i - 1 \in 0 .. Len(savepoints[c])
        BY DEF TypeOK
      <4> QED BY <1>f, <3>1, <4>1, PrefixNested DEF KeptOf
    <3>4. KeptOf(c)'
      BY <1>f, <2>0, <3>1, <3>3 DEF KeptOf
    <3>5. Ordinary(c) => PromiseOf(c)'
      BY <1>f, <2>0, <3>1 DEF PromiseOf
    <3> QED BY <1>p, <3>2, <3>4, <3>5, FramePromise DEF Good
  <2> QED BY <2>1, <2>2
<1>12. ASSUME NEW c \in Conns, NEW i \in 1 .. Len(savepoints[c]), RollbackToSavepoint(c, i)
       PROVE  PromiseInv'
  <2>0. /\ pc[c] = "idle" /\ pc'[c] = "idle" /\ \A d \in Conns \ {c} : pc'[d] = pc[d]
        /\ savepoints'[c] = SubSeq(savepoints[c], 1, i)
        /\ pending'[c] = savepoints[c][i]
        /\ acked'[c] = acked[c] \ (pending[c] \ savepoints[c][i])
        /\ \A d \in Conns \ {c} : /\ savepoints'[d] = savepoints[d] /\ pending'[d] = pending[d]
                                 /\ acked'[d] = acked[d]
        /\ UNCHANGED <<open, transactionSavepoint, durable, fresh>>
    BY <1>12 DEF RollbackToSavepoint, Return, TypeOK
  <2>1. /\ savepoints[c][i] \subseteq pending[c]
        /\ Nested(SubSeq(savepoints[c], 1, i), savepoints[c][i])
    <3>1. /\ savepoints[c] \in Seq(SUBSET Writes) /\ i \in 0 .. Len(savepoints[c]) /\ i > 0
      BY DEF TypeOK
    <3> QED BY <1>f, <3>1, PrefixNested DEF KeptOf
  <2>2. StepOf(c)
    BY <1>d, <2>0, <2>1 DEF StepOf, Own, Disjoint
  <2>4. KeptOf(c)'
    <3>1. acked[c] \subseteq pending[c] \cup durable
      BY <1>f, <2>0 DEF KeptOf
    <3>2. acked'[c] \subseteq pending'[c] \cup durable'
      BY <2>0, <3>1
    <3> QED BY <2>0, <2>1, <3>2 DEF KeptOf
  <2>5. Ordinary(c) => PromiseOf(c)'
    BY <1>f, <2>0 DEF PromiseOf
  <2> QED BY <1>p, <2>2, <2>4, <2>5, FramePromise DEF Good
<1>13. ASSUME NEW c \in Conns, NEW s \in Stmts, Enforce(c, s) PROVE PromiseInv'
  <2>0. /\ pc[c] = "idle" /\ pc'[c] = "run" /\ \A d \in Conns \ {c} : pc'[d] = pc[d]
        /\ UNCHANGED <<open, savepoints, transactionSavepoint, pending, durable, fresh, acked>>
    BY <1>13 DEF Enforce, Continue, TypeOK
  <2>1. StepOf(c)
    BY <1>d, <2>0 DEF StepOf, Own, Disjoint
  <2>2. KeptOf(c)' /\ (Ordinary(c) => PromiseOf(c)')
    BY <1>f, <2>0 DEF PromiseOf, KeptOf
  <2> QED BY <1>p, <2>1, <2>2, FramePromise DEF Good
<1>14. ASSUME NEW c \in Conns, NEW s \in Stmts, UpgradeCommit(c, s) PROVE PromiseInv'
  <2>1. /\ pc[c] = "idle" /\ pc'[c] # "commitBegin" /\ SqlCommit(c) /\ UNCHANGED <<fresh, acked>>
        /\ \A d \in Conns \ {c} : pc'[d] = pc[d]
    BY <1>14 DEF UpgradeCommit, Return, Continue, TypeOK
  <2>2. StepOf(c) /\ KeptOf(c)'
    BY <2>1, CommitKeeps
  <2>3. ~Ordinary(c)
    BY <1>14 DEF UpgradeCommit, NeedsUpgrade, Enforced, Ordinary
  <2> QED BY <1>p, <2>2, <2>3, FramePromise DEF Good
<1>15. ASSUME NEW c \in Conns, UpgradeBegin(c) PROVE PromiseInv'
  <2>0. /\ pc[c] = "upgradeBegin" /\ pc'[c] \in {"run", "idle"}
        /\ \A d \in Conns \ {c} : pc'[d] = pc[d] /\ open'[d] = open[d]
        /\ UNCHANGED <<savepoints, transactionSavepoint, pending, durable, fresh, acked>>
    BY <1>15 DEF UpgradeBegin, SqlBegin, Return, Continue, TypeOK
  <2>1. StepOf(c)
    BY <1>d, <2>0 DEF StepOf, Own, Disjoint
  <2>2. KeptOf(c)' /\ ~Ordinary(c)
    BY <1>f, <2>0 DEF PromiseOf, KeptOf
  <2> QED BY <1>p, <2>1, <2>2, FramePromise DEF Good
<1>16. ASSUME NEW c \in Conns, NEW s \in Stmts, pc[c] \in {"idle", "run"}, Run(c, s)
       PROVE  PromiseInv'
  <2>0. pc'[c] = "idle" /\ \A d \in Conns \ {c} : pc'[d] = pc[d]
    BY <1>16 DEF Run, Return, TypeOK
  <2>1. CASE SqlRead(c) \/ SqlWriteFails(c)
    <3>0. UNCHANGED <<open, savepoints, transactionSavepoint, pending, durable, fresh, acked>>
      BY <2>1 DEF SqlRead, SqlWriteFails
    <3>1. StepOf(c)
      BY <1>d, <2>0, <3>0 DEF StepOf, Own, Disjoint
    <3>2. KeptOf(c)' /\ (Ordinary(c) => PromiseOf(c)')
      BY <1>16, <1>f, <2>0, <3>0 DEF PromiseOf, KeptOf
    <3> QED BY <1>p, <3>1, <3>2, FramePromise DEF Good
  <2>2. ASSUME NEW w \in fresh, SqlWrite(c, w) PROVE PromiseInv'
    <3>1. w \in Writes /\ w \notin durable /\ w \notin pending[c]
      BY <1>d, <2>2 DEF TypeOK, Disjoint
    <3>2. /\ fresh' \subseteq fresh /\ fresh \ fresh' = {w} /\ acked'[c] = acked[c] \cup {w}
          /\ UNCHANGED <<open, savepoints, transactionSavepoint>>
          /\ \A d \in Conns \ {c} : acked'[d] = acked[d] /\ pending'[d] = pending[d]
      BY <2>2 DEF SqlWrite, TypeOK
    <3>3. /\ pending'[c] = (IF open[c] THEN pending[c] \cup {w} ELSE pending[c])
          /\ durable' = (IF open[c] THEN durable ELSE durable \cup {w})
      BY <2>2 DEF SqlWrite, TypeOK
    <3>4. StepOf(c)
      BY <1>d, <2>0, <3>1, <3>2, <3>3 DEF StepOf, Own, Disjoint
    <3>5. KeptOf(c)'
      <4>1. acked'[c] \subseteq pending'[c] \cup durable' /\ pending[c] \subseteq pending'[c]
        BY <1>16, <1>f, <3>2, <3>3 DEF KeptOf
      <4> QED BY <1>f, <2>0, <3>2, <4>1 DEF KeptOf, Nested
    <3>6. Ordinary(c) => PromiseOf(c)'
      BY <1>16, <1>f, <2>0, <3>2, <3>3 DEF PromiseOf
    <3> QED BY <1>p, <3>4, <3>5, <3>6, FramePromise DEF Good
  <2>3. CASE SqlFatal(c)
    <3>1. /\ EndTransaction(c, {}) /\ UNCHANGED fresh /\ acked'[c] = acked[c] \ pending[c]
          /\ \A d \in Conns \ {c} : acked'[d] = acked[d]
      BY <2>3 DEF SqlFatal, TypeOK
    <3>2. /\ StepOf(c) /\ savepoints'[c] = <<>> /\ ~transactionSavepoint'[c]
          /\ ~open'[c] /\ pending'[c] = {} /\ durable' = durable
      BY <2>0, <3>1, EndStep
    <3>3. KeptOf(c)'
      BY <1>16, <1>f, <3>1, <3>2, EmptyNested DEF KeptOf
    <3>4. PromiseOf(c)'
      BY <2>0, <3>2 DEF PromiseOf
    <3> QED BY <3>2, <3>3, <3>4, FramePromise DEF Good
  <2> QED BY <1>16, <2>1, <2>2, <2>3 DEF Run
<1>17. ASSUME NEW c \in Conns, ExecuteUpdate(c) PROVE PromiseInv'
  <2>1. [api |-> "update", write |-> TRUE] \in Stmts
    BY DEF Stmts, Apis
  <2> QED BY <1>16, <1>17, <2>1 DEF ExecuteUpdate
<1>18. ASSUME NEW c \in Conns, RunStatement(c) PROVE PromiseInv'
  BY <1>16, <1>18 DEF RunStatement, TypeOK
<1>19. CASE UNCHANGED vars
  BY <1>19, <1>f, <1>d, <1>p
  DEF vars, jdbcVars, sqliteVars, PromiseInv, Good, PromiseOf, KeptOf, Disjoint
<1> QED
  BY <1>1, <1>2, <1>3, <1>4, <1>5, <1>6, <1>7, <1>8, <1>9, <1>11, <1>12, <1>13,
     <1>14, <1>15, <1>17, <1>18, <1>19 DEF Next

LEMMA PromiseHolds == Spec => []PromiseInv
<1>1. Init => PromiseInv
  BY EmptyNested DEF Init, PromiseInv, Good, KeptOf, PromiseOf, Disjoint
<1>2. TypeOK /\ TypeOK' /\ PromiseInv /\ [Next]_vars => PromiseInv'
  BY PromiseStep
<1> QED BY <1>1, <1>2, TypeCorrect, PTL DEF Spec

\* rollback(): for every number and mix of connections, every transaction mode
\* and savepoints of any depth, when the first half of a rollback passes on a
\* connection without explicit read-only mode, no change of that transaction is
\* in the file, unless a savepoint opened the transaction.
THEOREM RollbackDiscardsHolds == Spec => RollbackDiscards
<1>1. ASSUME TypeOK, PromiseInv, [Next]_vars, NEW c \in Conns, ~ExplicitReadOnly[c],
             pc[c] = "idle", ~transactionSavepoint[c], pc'[c] = "rollbackBegin"
      PROVE  acked'[c] \cap durable' = {}
  <2>1. /\ open[c] /\ pc[c] = "idle" => acked[c] \subseteq pending[c]
        /\ durable \cap pending[c] = {}
    BY <1>1 DEF PromiseInv, Disjoint, Good, Ordinary, PromiseOf
  <2>2. ASSUME NEW d \in Conns, Rollback(d) PROVE acked'[c] \cap durable' = {}
    <3>1. d = c /\ open[c] /\ EndTransaction(c, {}) /\ acked' = acked
      BY <1>1, <2>2 DEF Rollback, Return, Continue, TypeOK
    <3> QED BY <1>1, <2>1, <3>1 DEF EndTransaction
  <2>3. ASSUME NEW d \in Conns, NEW told, Return(d, told) PROVE FALSE
    BY <1>1, <2>3 DEF Return, TypeOK
  <2>4. ASSUME NEW d \in Conns, NEW at, NEW s, at # "rollbackBegin", Continue(d, at, s)
        PROVE  FALSE
    BY <1>1, <2>4 DEF Continue, TypeOK
  <2>5. ASSUME NEW d \in Conns,
               \/ Open(d) \/ SetAutoCommitTrue(d) \/ SetAutoCommitFalse(d) \/ BeginAgain(d)
               \/ SetSavepoint(d)
        PROVE  FALSE
    BY <2>3, <2>5 DEF Open, SetAutoCommitTrue, SetAutoCommitFalse, BeginAgain, SetSavepoint
  <2>6. ASSUME NEW d \in Conns, NEW i \in 1 .. Len(savepoints[d]),
               ReleaseSavepoint(d, i) \/ RollbackToSavepoint(d, i)
        PROVE  FALSE
    BY <2>3, <2>6 DEF ReleaseSavepoint, RollbackToSavepoint
  <2>7. ASSUME NEW d \in Conns, Commit(d) \/ UpgradeBegin(d) PROVE FALSE
    BY <2>3, <2>4, <2>7 DEF Commit, UpgradeBegin
  <2>8. ASSUME NEW d \in Conns, NEW s \in Stmts, Enforce(d, s) \/ UpgradeCommit(d, s)
        PROVE  FALSE
    BY <2>3, <2>4, <2>8 DEF Enforce, UpgradeCommit
  <2>9. ASSUME NEW d \in Conns, ExecuteUpdate(d) \/ RunStatement(d) PROVE FALSE
    BY <2>3, <2>9 DEF ExecuteUpdate, RunStatement, Run
  <2>10. ASSUME NEW d \in Conns, Close(d) \/ \E ro \in BOOLEAN : SetReadOnly(d, ro)
         PROVE  FALSE
    BY <1>1, <2>10 DEF Close, SetReadOnly, TypeOK
  <2>11. CASE UNCHANGED vars
    BY <1>1, <2>11 DEF vars, jdbcVars
  <2> QED
    BY <1>1, <2>2, <2>5, <2>6, <2>7, <2>8, <2>9, <2>10, <2>11 DEF Next
<1>2. TypeOK /\ PromiseInv /\ [Next]_vars
      => [\A c \in Conns :
            ~ExplicitReadOnly[c] /\ pc[c] = "idle" /\ ~transactionSavepoint[c]
            /\ pc'[c] = "rollbackBegin" => acked'[c] \cap durable' = {}]_vars
  BY <1>1
<1> QED BY <1>2, PromiseHolds, TypeCorrect, PTL DEF Spec, RollbackDiscards

\* commit(): once its first half has passed, every change the transaction has
\* acknowledged is in the file, also with savepoints and the read-only upgrade.
THEOREM CommitPersistsHolds == Spec => []CommitPersists
<1>1. PromiseInv => CommitPersists
  BY DEF PromiseInv, Good, KeptOf, CommitPersists
<1> QED BY <1>1, PromiseHolds, PTL

\* No acknowledged change is lost silently, with savepoints of any depth, the
\* read-only upgrade and statements that lose the transaction: what
\* RollbackToSavepoint takes back is exactly what was done after it.
THEOREM AckedWritesSurviveHolds == Spec => []AckedWritesSurvive
<1>1. PromiseInv => AckedWritesSurvive
  BY DEF PromiseInv, Good, KeptOf, AckedWritesSurvive
<1> QED BY <1>1, PromiseHolds, PTL

-----------------------------------------------------------------------------
(* Explicit read-only mode.                                                *)

\* The mode says IMMEDIATE only over a transaction that has the write lock, or
\* over none, or over one that a savepoint opened; and a statement that runs
\* in a read-only transaction finds query_only switched on.
ReadOnlyOf(c) ==
  /\ /\ pc[c] \in {"idle", "run"} /\ open[c] /\ ~transactionSavepoint[c]
     /\ mode[c] = "IMMEDIATE"
     => lock[c] \in WriteLocks
  /\ pc[c] = "run" /\ Enforced(c) /\ readOnly[c] => queryOnly[c]
  /\ pc[c] = "upgradeBegin" => ~readOnly[c]

ReadOnlyInv == \A c \in Conns : ReadOnlyOf(c)

\* What ReadOnlyOf speaks about.
Half(d) == <<pc[d], open[d], transactionSavepoint[d], mode[d], lock[d], readOnly[d],
             queryOnly[d], autoCommit[d]>>

\* "commit;" leaves the write lock with the transaction it does not end.
LEMMA CommitLock ==
  ASSUME TypeOK, NEW c \in Conns, SqlCommit(c)
  PROVE  /\ \A d \in Conns \ {c} : /\ open'[d] = open[d] /\ lock'[d] = lock[d]
                                   /\ transactionSavepoint'[d] = transactionSavepoint[d]
         /\ open'[c] => /\ open[c] /\ transactionSavepoint'[c] = transactionSavepoint[c]
                        /\ lock[c] \in WriteLocks => lock'[c] \in WriteLocks
         /\ open'[c] => CommitResult(c) # "OK"
<1>1. CommitResult(c) \in {"OK", "BUSY", "ERROR"}
  BY DEF CommitResult
<1>2. CASE CommitResult(c) = "OK"
  BY <1>2 DEF SqlCommit, EndTransaction, TypeOK
<1>3. CASE CommitResult(c) = "BUSY"
  BY <1>3 DEF SqlCommit, CommitResult, TypeOK, WriteLocks
<1>4. CASE CommitResult(c) = "ERROR"
  BY <1>4 DEF SqlCommit, TypeOK
<1> QED BY <1>1, <1>2, <1>3, <1>4

\* "begin immediate" that opens a transaction takes the write lock, and no
\* begin gives one up.
LEMMA BeginLocks ==
  ASSUME TypeOK, NEW c \in Conns, NEW m \in {"DEFERRED", "IMMEDIATE", "EXCLUSIVE"},
         SqlBegin(c, m)
  PROVE  /\ \A d \in Conns \ {c} : /\ open'[d] = open[d] /\ lock'[d] = lock[d]
                                   /\ transactionSavepoint'[d] = transactionSavepoint[d]
         /\ transactionSavepoint'[c] = transactionSavepoint[c]
         /\ lock[c] \in WriteLocks => lock'[c] \in WriteLocks
         /\ m = "IMMEDIATE" /\ BeginResult(c, m) = "OK" => lock'[c] \in WriteLocks
         /\ open'[c] /\ BeginResult(c, m) # "OK" => open[c]
BY DEF SqlBegin, BeginLock, TypeOK, WriteLocks, Locks

LEMMA RunLocks ==
  ASSUME TypeOK, NEW c \in Conns, NEW s \in Stmts, Run(c, s), ReadOnlyOf(c),
         pc[c] \in {"idle", "run"}
  PROVE  /\ ReadOnlyOf(c)'
         /\ \A d \in Conns \ {c} : Half(d)' = Half(d)
<1>1. /\ pc'[c] = "idle" /\ \A d \in Conns \ {c} : pc'[d] = pc[d]
      /\ UNCHANGED <<autoCommit, mode, readOnly, queryOnly>>
  BY DEF Run, Return, TypeOK
<1>2. /\ \A d \in Conns \ {c} : /\ open'[d] = open[d] /\ lock'[d] = lock[d]
                                /\ transactionSavepoint'[d] = transactionSavepoint[d]
      /\ open'[c] => /\ open[c] /\ transactionSavepoint'[c] = transactionSavepoint[c]
                     /\ lock[c] \in WriteLocks => lock'[c] \in WriteLocks
  <2>1. CASE SqlRead(c)
    BY <2>1 DEF SqlRead, TypeOK, WriteLocks
  <2>2. CASE \E w \in fresh : SqlWrite(c, w)
    BY <2>2 DEF SqlWrite, TypeOK, WriteLocks
  <2>3. CASE SqlWriteFails(c)
    BY <2>3 DEF SqlWriteFails, TypeOK, WriteLocks
  <2>4. CASE SqlFatal(c)
    BY <2>4 DEF SqlFatal, EndTransaction, TypeOK
  <2> QED BY <2>1, <2>2, <2>3, <2>4 DEF Run
<1> QED BY <1>1, <1>2 DEF ReadOnlyOf, Half

LEMMA ReadOnlyStep ==
  ASSUME TypeOK, AgreementInv, ReadOnlyInv, [Next]_vars
  PROVE  ReadOnlyInv'
<1>f. ASSUME NEW c \in Conns, ReadOnlyOf(c)', \A d \in Conns \ {c} : Half(d)' = Half(d)
      PROVE  ReadOnlyInv'
  BY <1>f DEF ReadOnlyInv, ReadOnlyOf, Half, Enforced
<1>u. \A c \in Conns : ReadOnlyOf(c)
  BY DEF ReadOnlyInv
<1>b. \A c \in Conns : pc[c] \in Between => ~open[c]
  BY DEF AgreementInv, AgreementOf
<1>m. \A c \in Conns : TransactionMode[c] \in {"DEFERRED", "IMMEDIATE", "EXCLUSIVE"}
  BY ConfigAssumption DEF ConfigAssumption
<1>1. ASSUME NEW c \in Conns, Open(c) PROVE ReadOnlyInv'
  <2>1. pc[c] = "closed" /\ pc'[c] = "idle" /\ UNCHANGED open
    BY <1>1 DEF Open, Return, TypeOK
  <2>2. ~open[c]
    BY <2>1 DEF AgreementInv, AgreementOf
  <2>8. ReadOnlyOf(c)'
    BY <1>1, <2>1, <2>2 DEF Open, Return, ReadOnlyOf, Enforced, TypeOK
  <2>9. \A d \in Conns \ {c} : Half(d)' = Half(d)
    BY <1>1, <2>1, <2>2 DEF Open, Return, Half, TypeOK
  <2> QED BY <1>f, <2>8, <2>9
<1>2. ASSUME NEW c \in Conns, Close(c) PROVE ReadOnlyInv'
  BY <1>2, <1>f DEF Close, EndTransaction, ReadOnlyOf, Half, TypeOK
<1>3. ASSUME NEW c \in Conns, SetAutoCommitTrue(c) PROVE ReadOnlyInv'
  <2>1. /\ pc[c] = "idle" /\ pc'[c] = "idle" /\ SqlCommit(c)
        /\ mode' = [mode EXCEPT ![c] = IF CommitResult(c) = "OK" THEN "null" ELSE @]
        /\ \A d \in Conns \ {c} : pc'[d] = pc[d] /\ autoCommit'[d] = autoCommit[d]
        /\ UNCHANGED <<readOnly, queryOnly>>
    BY <1>3 DEF SetAutoCommitTrue, Return, TypeOK
  <2>8. ReadOnlyOf(c)'
    BY <1>u, <2>1, CommitLock DEF ReadOnlyOf, Enforced, TypeOK
  <2>9. \A d \in Conns \ {c} : Half(d)' = Half(d)
    BY <1>u, <2>1, CommitLock DEF Half, TypeOK
  <2> QED BY <1>f, <2>8, <2>9
<1>4. ASSUME NEW c \in Conns, SetAutoCommitFalse(c) PROVE ReadOnlyInv'
  <2>1. /\ pc[c] = "idle" /\ pc'[c] = "idle" /\ SqlBegin(c, TransactionMode[c])
        /\ mode' = [mode EXCEPT ![c] =
                      IF BeginResult(c, TransactionMode[c]) = "OK" THEN TransactionMode[c] ELSE @]
        /\ \A d \in Conns \ {c} : pc'[d] = pc[d] /\ autoCommit'[d] = autoCommit[d]
        /\ UNCHANGED <<readOnly, queryOnly>>
    BY <1>4 DEF SetAutoCommitFalse, Return, TypeOK
  <2>8. ReadOnlyOf(c)'
    BY <1>m, <1>u, <2>1, BeginLocks DEF ReadOnlyOf, Enforced, TypeOK
  <2>9. \A d \in Conns \ {c} : Half(d)' = Half(d)
    BY <1>m, <1>u, <2>1, BeginLocks DEF Half, TypeOK
  <2> QED BY <1>f, <2>8, <2>9
<1>5. ASSUME NEW c \in Conns, Commit(c) PROVE ReadOnlyInv'
  <2>1. /\ pc[c] = "idle" /\ pc'[c] \in {"idle", "commitBegin"} /\ SqlCommit(c)
        /\ \A d \in Conns \ {c} : pc'[d] = pc[d]
        /\ UNCHANGED <<autoCommit, mode, readOnly, queryOnly>>
    BY <1>5 DEF Commit, Return, Continue, TypeOK
  <2>8. ReadOnlyOf(c)'
    BY <1>u, <2>1, CommitLock DEF ReadOnlyOf, Enforced, TypeOK
  <2>9. \A d \in Conns \ {c} : Half(d)' = Half(d)
    BY <1>u, <2>1, CommitLock DEF Half, TypeOK
  <2> QED BY <1>f, <2>8, <2>9
<1>6. ASSUME NEW c \in Conns, Rollback(c) PROVE ReadOnlyInv'
  <2>1. CASE open[c]
    <3>8. ReadOnlyOf(c)'
      BY <1>6, <2>1 DEF Rollback, EndTransaction, Continue, ReadOnlyOf, Enforced, TypeOK
    <3>9. \A d \in Conns \ {c} : Half(d)' = Half(d)
      BY <1>6, <2>1 DEF Rollback, EndTransaction, Continue, Half, TypeOK
    <3> QED BY <1>f, <3>8, <3>9
  <2>2. CASE ~open[c]
    <3>8. ReadOnlyOf(c)'
      BY <1>6, <1>u, <2>2 DEF Rollback, Return, ReadOnlyOf, Enforced, TypeOK
    <3>9. \A d \in Conns \ {c} : Half(d)' = Half(d)
      BY <1>6, <1>u, <2>2 DEF Rollback, Return, Half, TypeOK
    <3> QED BY <1>f, <3>8, <3>9
  <2> QED BY <2>1, <2>2
<1>7. ASSUME NEW c \in Conns, BeginAgain(c) PROVE ReadOnlyInv'
  <2>1. /\ pc[c] \in Between /\ pc'[c] = "idle" /\ SqlBegin(c, TransactionMode[c])
        /\ mode' = [mode EXCEPT ![c] =
                      IF BeginResult(c, TransactionMode[c]) = "OK" THEN TransactionMode[c] ELSE @]
        /\ \A d \in Conns \ {c} : pc'[d] = pc[d]
        /\ UNCHANGED <<autoCommit, readOnly, queryOnly>>
    BY <1>7 DEF BeginAgain, Return, TypeOK, Between
  <2>8. ReadOnlyOf(c)'
    BY <1>b, <1>m, <2>1, BeginLocks DEF ReadOnlyOf, Enforced, TypeOK
  <2>9. \A d \in Conns \ {c} : Half(d)' = Half(d)
    BY <1>b, <1>m, <2>1, BeginLocks DEF Half, TypeOK
  <2> QED BY <1>f, <2>8, <2>9
<1>8. ASSUME NEW c \in Conns, NEW ro \in BOOLEAN, SetReadOnly(c, ro) PROVE ReadOnlyInv'
  BY <1>8, <1>f, <1>u DEF SetReadOnly, sqliteVars, ReadOnlyOf, Half, TypeOK
<1>9. ASSUME NEW c \in Conns, SetSavepoint(c) PROVE ReadOnlyInv'
  BY <1>9, <1>f, <1>u DEF SetSavepoint, Return, ReadOnlyOf, Half, TypeOK
<1>10. ASSUME NEW c \in Conns, NEW i \in 1 .. Len(savepoints[c]), ReleaseSavepoint(c, i)
       PROVE  ReadOnlyInv'
  <2>1. /\ pc[c] = "idle" /\ pc'[c] = "idle" /\ \A d \in Conns \ {c} : pc'[d] = pc[d]
        /\ UNCHANGED <<autoCommit, mode, readOnly, queryOnly>>
    BY <1>10 DEF ReleaseSavepoint, Return, TypeOK
  <2>2. CASE SqlCommit(c)
    <3>8. ReadOnlyOf(c)'
      BY <1>u, <2>1, <2>2, CommitLock DEF ReadOnlyOf, Enforced, TypeOK
    <3>9. \A d \in Conns \ {c} : Half(d)' = Half(d)
      BY <1>u, <2>1, <2>2, CommitLock DEF Half, TypeOK
    <3> QED BY <1>f, <3>8, <3>9
  <2>3. CASE UNCHANGED <<open, transactionSavepoint, lock>>
    BY <1>f, <1>u, <2>1, <2>3 DEF ReadOnlyOf, Half
  <2> QED BY <1>10, <2>2, <2>3 DEF ReleaseSavepoint
<1>11. ASSUME NEW c \in Conns, NEW i \in 1 .. Len(savepoints[c]), RollbackToSavepoint(c, i)
       PROVE  ReadOnlyInv'
  BY <1>11, <1>f, <1>u DEF RollbackToSavepoint, Return, ReadOnlyOf, Half, TypeOK
<1>12. ASSUME NEW c \in Conns, NEW s \in Stmts, Enforce(c, s) PROVE ReadOnlyInv'
  <2>1. Enforced(c)' = Enforced(c)
    BY <1>12 DEF Enforce, Enforced
  <2>8. ReadOnlyOf(c)'
    BY <1>12, <1>u, <2>1 DEF Enforce, Continue, ReadOnlyOf, Enforced, TypeOK
  <2>9. \A d \in Conns \ {c} : Half(d)' = Half(d)
    BY <1>12, <1>u, <2>1 DEF Enforce, Continue, Half, TypeOK
  <2> QED BY <1>f, <2>8, <2>9
<1>13. ASSUME NEW c \in Conns, NEW s \in Stmts, UpgradeCommit(c, s) PROVE ReadOnlyInv'
  <2>1. /\ pc[c] = "idle" /\ pc'[c] \in {"idle", "upgradeBegin"} /\ SqlCommit(c)
        /\ ~readOnly[c]
        /\ \A d \in Conns \ {c} : pc'[d] = pc[d] /\ queryOnly'[d] = queryOnly[d]
        /\ UNCHANGED <<autoCommit, mode, readOnly>>
    BY <1>13 DEF UpgradeCommit, NeedsUpgrade, Return, Continue, TypeOK
  <2>8. ReadOnlyOf(c)'
    BY <1>u, <2>1, CommitLock DEF ReadOnlyOf, Enforced, TypeOK
  <2>9. \A d \in Conns \ {c} : Half(d)' = Half(d)
    BY <1>u, <2>1, CommitLock DEF Half, TypeOK
  <2> QED BY <1>f, <2>8, <2>9
<1>14. ASSUME NEW c \in Conns, UpgradeBegin(c) PROVE ReadOnlyInv'
  <2>1. /\ pc[c] \in Between /\ SqlBegin(c, "IMMEDIATE")
        /\ pc'[c] = IF BeginResult(c, "IMMEDIATE") = "OK" THEN "run" ELSE "idle"
        /\ \A d \in Conns \ {c} : pc'[d] = pc[d] /\ mode'[d] = mode[d]
        /\ UNCHANGED <<autoCommit, readOnly, queryOnly>>
    BY <1>14 DEF UpgradeBegin, Return, Continue, TypeOK, Between
  <2>2. CASE BeginResult(c, "IMMEDIATE") = "OK"
    <3>1. ~readOnly[c]
      BY <1>14, <1>u DEF UpgradeBegin, ReadOnlyOf
    <3>8. ReadOnlyOf(c)'
      BY <2>1, <2>2, <3>1, BeginLocks DEF ReadOnlyOf, Enforced, TypeOK
    <3>9. \A d \in Conns \ {c} : Half(d)' = Half(d)
      BY <2>1, <2>2, <3>1, BeginLocks DEF Half, TypeOK
    <3> QED BY <1>f, <3>8, <3>9
  <2>3. CASE BeginResult(c, "IMMEDIATE") # "OK"
    <3>8. ReadOnlyOf(c)'
      BY <1>b, <2>1, <2>3, BeginLocks DEF ReadOnlyOf, Enforced, TypeOK
    <3>9. \A d \in Conns \ {c} : Half(d)' = Half(d)
      BY <1>b, <2>1, <2>3, BeginLocks DEF Half, TypeOK
    <3> QED BY <1>f, <3>8, <3>9
  <2> QED BY <2>2, <2>3
<1>15. ASSUME NEW c \in Conns, ExecuteUpdate(c) PROVE ReadOnlyInv'
  <2>1. [api |-> "update", write |-> TRUE] \in Stmts
    BY DEF Stmts, Apis
  <2> QED BY <1>15, <1>f, <1>u, <2>1, RunLocks DEF ExecuteUpdate
<1>16. ASSUME NEW c \in Conns, RunStatement(c) PROVE ReadOnlyInv'
  <2>1. stmt[c] \in Stmts
    BY DEF TypeOK
  <2> QED BY <1>16, <1>f, <1>u, <2>1, RunLocks DEF RunStatement
<1>17. CASE UNCHANGED vars
  BY <1>17 DEF vars, jdbcVars, sqliteVars, ReadOnlyInv, ReadOnlyOf, Enforced
<1> QED
  BY <1>1, <1>2, <1>3, <1>4, <1>5, <1>6, <1>7, <1>8, <1>9, <1>10, <1>11, <1>12, <1>13,
     <1>14, <1>15, <1>16, <1>17 DEF Next

LEMMA ReadOnlyHolds == Spec => [](TypeOK /\ AgreementInv /\ ReadOnlyInv)
<1>1. Init => AgreementInv /\ ReadOnlyInv
  BY DEF Init, AgreementInv, AgreementOf, Between, ReadOnlyInv, ReadOnlyOf
<1> QED BY <1>1, AgreementStep, ReadOnlyStep, TypeCorrect, PTL DEF Spec

\* After the upgrade a statement always finds the write lock held, for every
\* number of other connections and whatever they lock in between.
THEOREM UpgradedHoldsWriteLockHolds == Spec => []UpgradedHoldsWriteLock
<1>1. AgreementInv /\ ReadOnlyInv /\ TypeOK => UpgradedHoldsWriteLock
  BY DEF AgreementInv, AgreementOf, ReadOnlyInv, ReadOnlyOf, Enforced, UpgradedHoldsWriteLock, TypeOK
<1> QED BY <1>1, ReadOnlyHolds, PTL

\* And in a read-only transaction the statements that tryEnforceTransactionMode
\* guards never add a change.
THEOREM EnforcedReadOnlyHolds == Spec => EnforcedReadOnly
<1>1. ASSUME TypeOK, ReadOnlyInv, [Next]_vars, NEW c \in Conns,
             pc[c] = "run", Enforced(c), readOnly[c]
      PROVE  acked'[c] \subseteq acked[c]
  <2>1. queryOnly[c]
    BY <1>1 DEF ReadOnlyInv, ReadOnlyOf
  <2>2. ASSUME NEW d \in Conns, NEW s \in Stmts, Run(d, s), d = c
        PROVE  acked'[c] \subseteq acked[c]
    <3>1. ASSUME NEW w, SqlWrite(d, w) PROVE FALSE
      BY <2>1, <2>2, <3>1 DEF SqlWrite, WriteAllowed
    <3>2. CASE SqlFatal(d)
      BY <1>1, <2>2, <3>2 DEF SqlFatal, TypeOK
    <3>3. CASE SqlRead(d) \/ SqlWriteFails(d)
      BY <3>3 DEF SqlRead, SqlWriteFails
    <3> QED BY <2>2, <3>1, <3>2, <3>3 DEF Run
  <2>3. ASSUME NEW d \in Conns, NEW s \in Stmts, Run(d, s), d # c
        PROVE  acked'[c] \subseteq acked[c]
    <3>1. ASSUME NEW w, SqlWrite(d, w) PROVE acked'[c] = acked[c]
      BY <1>1, <2>3, <3>1 DEF SqlWrite, TypeOK
    <3>2. CASE SqlFatal(d)
      BY <1>1, <2>3, <3>2 DEF SqlFatal, TypeOK
    <3>3. CASE SqlRead(d) \/ SqlWriteFails(d)
      BY <3>3 DEF SqlRead, SqlWriteFails
    <3> QED BY <2>3, <3>1, <3>2, <3>3 DEF Run
  <2>4. ASSUME NEW d \in Conns, RunStatement(d) \/ ExecuteUpdate(d)
        PROVE  acked'[c] \subseteq acked[c]
    <3>1. /\ stmt[d] \in Stmts /\ [api |-> "update", write |-> TRUE] \in Stmts
      BY <1>1 DEF TypeOK, Stmts, Apis
    <3> QED BY <2>2, <2>3, <2>4, <3>1 DEF RunStatement, ExecuteUpdate
  <2>5. ASSUME NEW d \in Conns, Open(d) \/ SetAutoCommitFalse(d) \/ BeginAgain(d) \/ SetSavepoint(d)
        PROVE  acked'[c] \subseteq acked[c]
    BY <1>1, <2>5 DEF Open, SetAutoCommitFalse, BeginAgain, SetSavepoint, TypeOK
  <2>6. ASSUME NEW d \in Conns, NEW i \in 1 .. Len(savepoints[d]),
               ReleaseSavepoint(d, i) \/ RollbackToSavepoint(d, i)
        PROVE  acked'[c] \subseteq acked[c]
    BY <1>1, <2>6 DEF ReleaseSavepoint, RollbackToSavepoint, TypeOK
  <2>7. CASE UNCHANGED acked
    BY <2>7
  <2> QED
    BY <1>1, <2>4, <2>5, <2>6, <2>7
    DEF Next, Close, SetAutoCommitTrue, Commit, Rollback, SetReadOnly, Enforce, UpgradeCommit,
        UpgradeBegin, vars
<1>2. TypeOK /\ ReadOnlyInv /\ [Next]_vars
      => [\A c \in Conns : pc[c] = "run" /\ Enforced(c) /\ readOnly[c]
                            => acked'[c] \subseteq acked[c]]_vars
  BY <1>1
<1> QED BY <1>2, ReadOnlyHolds, PTL DEF Spec, EnforcedReadOnly

-----------------------------------------------------------------------------
(* What the exceptions are for.  Agreement and UpgradedHoldsWriteLock except *)
(* the clients that were told of a failure, or that use savepoints.  Here    *)
(* are the configurations whose clients never need the exception.            *)

\* A connection on which no savepoint is ever set.
NoSavepoint(c) == savepoints[c] = <<>> /\ ~transactionSavepoint[c]

\* What one connection sees of a step.
Sees(c) == <<pc[c], autoCommit[c], open[c], mode[c], queryOnly[c]>>

\* The steps such a connection can take when no statement makes SQLite roll
\* back: it is opened or closed; "commit;" or "rollback;" ends its transaction,
\* or "commit;" is refused; "begin ..." opens one, or is refused; or a statement
\* is on its way, which changes nothing but query_only.
MoveOf(c) ==
  \/ Sees(c)' = Sees(c)
  \/ /\ pc'[c] = "idle" /\ autoCommit'[c] /\ ~open'[c]
     /\ mode'[c] = TransactionMode[c] /\ ~queryOnly'[c]
  \/ pc'[c] = "closed" /\ ~open'[c]
  \/ /\ pc[c] = "idle" /\ ~autoCommit[c] /\ open[c] /\ ~open'[c]
     /\ \/ pc'[c] = "idle" /\ autoCommit'[c] /\ mode'[c] = "null" /\ queryOnly'[c] = queryOnly[c]
        \/ /\ pc'[c] \in {"commitBegin", "rollbackBegin"} /\ ~autoCommit'[c]
           /\ mode'[c] = mode[c] /\ queryOnly'[c] = queryOnly[c]
        \/ /\ pc'[c] = "upgradeBegin" /\ ~autoCommit'[c]
           /\ mode[c] = "DEFERRED" /\ mode'[c] = "DEFERRED"
           /\ ExplicitReadOnly[c] /\ ~queryOnly'[c]
  \/ /\ pc[c] = "idle" /\ pc'[c] = "idle" /\ ~autoCommit[c] /\ CommitResult(c) # "OK"
     /\ open'[c] = open[c] /\ mode'[c] = mode[c] /\ queryOnly'[c] = queryOnly[c]
  \/ /\ pc[c] \in {"commitBegin", "rollbackBegin"} \/ (pc[c] = "idle" /\ autoCommit[c])
     /\ pc'[c] = "idle" /\ ~autoCommit'[c] /\ queryOnly'[c] = queryOnly[c]
     /\ LET began == BeginResult(c, TransactionMode[c]) = "OK"
        IN  /\ open'[c] <=> open[c] \/ began
            /\ mode'[c] = IF began THEN TransactionMode[c] ELSE mode[c]
  \/ /\ pc[c] = "upgradeBegin" /\ autoCommit'[c] = autoCommit[c]
     /\ queryOnly'[c] = queryOnly[c]
     /\ LET began == BeginResult(c, "IMMEDIATE") = "OK"
        IN  /\ open'[c] <=> open[c] \/ began
            /\ mode'[c] = IF began THEN "IMMEDIATE" ELSE mode[c]
            /\ pc'[c] = IF began THEN "run" ELSE "idle"
  \/ /\ pc[c] \in {"idle", "run"} /\ pc'[c] \in {"idle", "run"}
     /\ autoCommit'[c] = autoCommit[c] /\ open'[c] = open[c] /\ mode'[c] = mode[c]
     /\ queryOnly'[c] => queryOnly[c] \/ ExplicitReadOnly[c]

\* A failed "commit;" leaves everything but the lock alone.
LEMMA CommitEnds ==
  ASSUME TypeOK, NEW c \in Conns, SqlCommit(c), NoSavepoint(c)
  PROVE  /\ NoSavepoint(c)'
         /\ CommitResult(c) = "OK" => open[c] /\ ~open'[c]
         /\ CommitResult(c) # "OK" => open'[c] = open[c]
<1>1. CommitResult(c) \in {"OK", "BUSY", "ERROR"}
  BY DEF CommitResult
<1>2. CASE CommitResult(c) = "OK"
  <2>1. EndTransaction(c, pending[c]) /\ open[c]
    BY <1>2 DEF SqlCommit, CommitResult
  <2> QED BY <1>2, <2>1 DEF EndTransaction, TypeOK, NoSavepoint
<1>3. CASE CommitResult(c) = "BUSY"
  BY <1>3 DEF SqlCommit, NoSavepoint
<1>4. CASE CommitResult(c) = "ERROR"
  BY <1>4 DEF SqlCommit, NoSavepoint
<1> QED BY <1>1, <1>2, <1>3, <1>4

\* A step of another connection is not seen.
LEMMA OthersMove ==
  ASSUME TypeOK, NEW c \in Conns, NEW d \in Conns, d # c, SqlCommit(d) \/ EndTransaction(d, {})
  PROVE  open'[c] = open[c] /\ savepoints'[c] = savepoints[c]
         /\ transactionSavepoint'[c] = transactionSavepoint[c]
<1>1. ASSUME NEW ch, EndTransaction(d, ch)
      PROVE  open'[c] = open[c] /\ savepoints'[c] = savepoints[c]
             /\ transactionSavepoint'[c] = transactionSavepoint[c]
  BY <1>1 DEF EndTransaction, TypeOK
<1>2. CommitResult(d) \in {"OK", "BUSY", "ERROR"}
  BY DEF CommitResult
<1> QED BY <1>1, <1>2 DEF SqlCommit

\* A statement leaves the transaction of its connection alone.
LEMMA RunMove ==
  ASSUME TypeOK, ~Faulty, NEW d \in Conns, NEW s, Run(d, s)
  PROVE  /\ UNCHANGED <<autoCommit, mode, readOnly, queryOnly, open, savepoints,
                        transactionSavepoint>>
         /\ pc' = [pc EXCEPT ![d] = "idle"]
BY DEF Run, SqlRead, SqlWrite, SqlWriteFails, SqlFatal, Return

\* Every step of the system is one of those moves of the connection.
LEMMA MovesOf ==
  ASSUME TypeOK, AgreementInv, [Next]_vars, ~Faulty, NEW c \in Conns,
         MaxSavepoints[c] = 0, NoSavepoint(c)
  PROVE  MoveOf(c) /\ NoSavepoint(c)'
<1>b. \A d \in Conns : pc[d] = "closed" => ~open[d]
  BY DEF AgreementInv, AgreementOf
<1>n. \A d \in Conns : pc[d] \in Between => ~autoCommit[d]
  BY DEF AgreementInv, AgreementOf
<1>0. ASSUME Sees(c)' = Sees(c), UNCHANGED <<savepoints[c], transactionSavepoint[c]>>
      PROVE  MoveOf(c) /\ NoSavepoint(c)'
  BY <1>0 DEF MoveOf, NoSavepoint
<1>1. ASSUME NEW d \in Conns, Open(d) PROVE MoveOf(c) /\ NoSavepoint(c)'
  <2>1. CASE d = c
    BY <1>1, <1>b, <2>1 DEF Open, Return, MoveOf, NoSavepoint, TypeOK
  <2>2. CASE d # c
    BY <1>0, <1>1, <2>2 DEF Open, Return, Sees, TypeOK
  <2> QED BY <2>1, <2>2
<1>2. ASSUME NEW d \in Conns, Close(d) PROVE MoveOf(c) /\ NoSavepoint(c)'
  <2>1. CASE d = c
    BY <1>2, <2>1 DEF Close, EndTransaction, MoveOf, NoSavepoint, TypeOK
  <2>2. CASE d # c
    BY <1>0, <1>2, <2>2, OthersMove DEF Close, Sees, TypeOK
  <2> QED BY <2>1, <2>2
<1>3. ASSUME NEW d \in Conns, SetAutoCommitTrue(d) PROVE MoveOf(c) /\ NoSavepoint(c)'
  <2>1. CASE d = c
    BY <1>3, <2>1, CommitEnds DEF SetAutoCommitTrue, Return, MoveOf, TypeOK
  <2>2. CASE d # c
    BY <1>0, <1>3, <2>2, OthersMove DEF SetAutoCommitTrue, Return, Sees, TypeOK
  <2> QED BY <2>1, <2>2
<1>4. ASSUME NEW d \in Conns, SetAutoCommitFalse(d) PROVE MoveOf(c) /\ NoSavepoint(c)'
  <2>0. SqlBegin(d, TransactionMode[d])
    BY <1>4 DEF SetAutoCommitFalse
  <2>1. CASE d = c
    <3>1. open'[c] <=> open[c] \/ BeginResult(c, TransactionMode[c]) = "OK"
      BY <2>0, <2>1, BeginOpen
    <3> QED BY <1>4, <2>0, <2>1, <3>1
            DEF SetAutoCommitFalse, SqlBegin, Return, MoveOf, NoSavepoint, TypeOK
  <2>2. CASE d # c
    <3>1. open'[c] = open[c]
      BY <2>0, <2>2, BeginOpen
    <3> QED BY <1>0, <1>4, <2>0, <2>2, <3>1 DEF SetAutoCommitFalse, SqlBegin, Return, Sees, TypeOK
  <2> QED BY <2>1, <2>2
<1>5. ASSUME NEW d \in Conns, Commit(d) PROVE MoveOf(c) /\ NoSavepoint(c)'
  <2>1. CASE d = c
    BY <1>5, <2>1, CommitEnds DEF Commit, Return, Continue, MoveOf, TypeOK
  <2>2. CASE d # c
    BY <1>0, <1>5, <2>2, OthersMove DEF Commit, Return, Continue, Sees, TypeOK
  <2> QED BY <2>1, <2>2
<1>6. ASSUME NEW d \in Conns, Rollback(d) PROVE MoveOf(c) /\ NoSavepoint(c)'
  <2>1. CASE d = c /\ open[d]
    BY <1>6, <2>1 DEF Rollback, EndTransaction, Continue, MoveOf, NoSavepoint, TypeOK
  <2>2. CASE d = c /\ ~open[d]
    BY <1>0, <1>6, <2>2 DEF Rollback, Return, Sees, TypeOK
  <2>3. CASE d # c
    BY <1>0, <1>6, <2>3, OthersMove DEF Rollback, Return, Continue, Sees, TypeOK
  <2> QED BY <2>1, <2>2, <2>3
<1>7. ASSUME NEW d \in Conns, BeginAgain(d) PROVE MoveOf(c) /\ NoSavepoint(c)'
  <2>0. SqlBegin(d, TransactionMode[d])
    BY <1>7 DEF BeginAgain
  <2>1. CASE d = c
    <3>1. open'[c] <=> open[c] \/ BeginResult(c, TransactionMode[c]) = "OK"
      BY <2>0, <2>1, BeginOpen
    <3>2. ~autoCommit[c]
      BY <1>7, <1>n, <2>1 DEF BeginAgain, Between
    <3>3. NoSavepoint(c)'
      BY <2>0 DEF SqlBegin, NoSavepoint
    <3>4. /\ pc[c] \in {"commitBegin", "rollbackBegin"} /\ pc'[c] = "idle"
          /\ ~autoCommit'[c] /\ queryOnly'[c] = queryOnly[c]
      BY <1>7, <2>1, <3>2 DEF BeginAgain, Return, TypeOK
    <3>5. mode'[c] = IF BeginResult(c, TransactionMode[c]) = "OK" THEN TransactionMode[c]
                     ELSE mode[c]
      BY <1>7, <2>1 DEF BeginAgain, TypeOK
    <3> QED BY <3>1, <3>3, <3>4, <3>5 DEF MoveOf
  <2>2. CASE d # c
    <3>1. open'[c] = open[c]
      BY <2>0, <2>2, BeginOpen
    <3> QED BY <1>0, <1>7, <2>0, <2>2, <3>1 DEF BeginAgain, SqlBegin, Return, Sees, TypeOK
  <2> QED BY <2>1, <2>2
<1>8. ASSUME NEW d \in Conns, NEW ro \in BOOLEAN, SetReadOnly(d, ro)
      PROVE  MoveOf(c) /\ NoSavepoint(c)'
  BY <1>0, <1>8 DEF SetReadOnly, sqliteVars, Sees
<1>9. ASSUME NEW d \in Conns, SetSavepoint(d) PROVE MoveOf(c) /\ NoSavepoint(c)'
  <2>1. d # c
    BY <1>9 DEF SetSavepoint, NoSavepoint
  <2> QED BY <1>0, <1>9, <2>1 DEF SetSavepoint, Return, Sees, TypeOK
<1>10. ASSUME NEW d \in Conns, NEW i \in 1 .. Len(savepoints[d]), ReleaseSavepoint(d, i)
       PROVE  MoveOf(c) /\ NoSavepoint(c)'
  <2>1. d # c
    BY <1>10 DEF NoSavepoint
  <2>2. CASE ReleasesTransaction(d, i)
    BY <1>0, <1>10, <2>1, <2>2, OthersMove DEF ReleaseSavepoint, Return, Sees, TypeOK
  <2>3. CASE ~ReleasesTransaction(d, i)
    BY <1>0, <1>10, <2>1, <2>3 DEF ReleaseSavepoint, Return, Sees, TypeOK
  <2> QED BY <2>2, <2>3
<1>11. ASSUME NEW d \in Conns, NEW i \in 1 .. Len(savepoints[d]), RollbackToSavepoint(d, i)
       PROVE  MoveOf(c) /\ NoSavepoint(c)'
  <2>1. d # c
    BY <1>11 DEF NoSavepoint
  <2> QED BY <1>0, <1>11, <2>1 DEF RollbackToSavepoint, Return, Sees, TypeOK
<1>12. ASSUME NEW d \in Conns, NEW s \in Stmts, Enforce(d, s) PROVE MoveOf(c) /\ NoSavepoint(c)'
  <2>1. CASE d = c
    BY <1>12, <2>1 DEF Enforce, Enforced, Continue, MoveOf, NoSavepoint, TypeOK
  <2>2. CASE d # c
    BY <1>0, <1>12, <2>2 DEF Enforce, Continue, Sees, TypeOK
  <2> QED BY <2>1, <2>2
<1>13. ASSUME NEW d \in Conns, NEW s \in Stmts, UpgradeCommit(d, s)
       PROVE  MoveOf(c) /\ NoSavepoint(c)'
  <2>1. CASE d = c
    <3>1. ExplicitReadOnly[c] /\ ~autoCommit[c] /\ mode[c] = "DEFERRED"
      BY <1>13, <2>1 DEF UpgradeCommit, NeedsUpgrade, Enforced
    <3> QED BY <1>13, <2>1, <3>1, CommitEnds DEF UpgradeCommit, Return, Continue, MoveOf, TypeOK
  <2>2. CASE d # c
    BY <1>0, <1>13, <2>2, OthersMove DEF UpgradeCommit, Return, Continue, Sees, TypeOK
  <2> QED BY <2>1, <2>2
<1>14. ASSUME NEW d \in Conns, UpgradeBegin(d) PROVE MoveOf(c) /\ NoSavepoint(c)'
  <2>0. SqlBegin(d, "IMMEDIATE")
    BY <1>14 DEF UpgradeBegin
  <2>1. CASE d = c
    <3>1. open'[c] <=> open[c] \/ BeginResult(c, "IMMEDIATE") = "OK"
      BY <2>0, <2>1, BeginOpen
    <3> QED BY <1>14, <2>0, <2>1, <3>1
            DEF UpgradeBegin, SqlBegin, Return, Continue, MoveOf, NoSavepoint, TypeOK
  <2>2. CASE d # c
    <3>1. open'[c] = open[c]
      BY <2>0, <2>2, BeginOpen
    <3> QED BY <1>0, <1>14, <2>0, <2>2, <3>1
            DEF UpgradeBegin, SqlBegin, Return, Continue, Sees, TypeOK
  <2> QED BY <2>1, <2>2
<1>15. ASSUME NEW d \in Conns, ExecuteUpdate(d) \/ RunStatement(d)
       PROVE  MoveOf(c) /\ NoSavepoint(c)'
  <2>1. PICK s : Run(d, s) /\ pc[d] \in {"idle", "run"}
    BY <1>15 DEF ExecuteUpdate, RunStatement
  <2>2. /\ UNCHANGED <<autoCommit, mode, readOnly, queryOnly, open, savepoints,
                       transactionSavepoint>>
        /\ pc' = [pc EXCEPT ![d] = "idle"]
    BY <2>1, RunMove
  <2>3. CASE d = c
    BY <2>1, <2>2, <2>3 DEF MoveOf, NoSavepoint, TypeOK
  <2>4. CASE d # c
    BY <1>0, <2>2, <2>4 DEF Sees, TypeOK
  <2> QED BY <2>3, <2>4
<1>16. CASE UNCHANGED vars
  BY <1>0, <1>16 DEF vars, jdbcVars, sqliteVars, Sees
<1> QED
  BY <1>1, <1>2, <1>3, <1>4, <1>5, <1>6, <1>7, <1>8, <1>9, <1>10, <1>11, <1>12, <1>13,
     <1>14, <1>15, <1>16 DEF Next

\* With the default transaction mode DEFERRED and no explicit read-only support
\* a client that has switched auto-commit off is in a transaction whenever it
\* may call, however many connections there are and whatever they lock: the
\* "begin;" of setAutoCommit, commit and rollback asks for no lock, so it fails
\* only inside a transaction.  rollback() then always has one to end.
THEOREM DeferredAlwaysInTransaction ==
  ASSUME NEW c \in Conns, ~Faulty, MaxSavepoints[c] = 0,
         TransactionMode[c] = "DEFERRED", ~ExplicitReadOnly[c]
  PROVE  Spec => [](pc[c] \in {"idle", "run"} /\ ~autoCommit[c] => open[c])
<1> DEFINE Inside == pc[c] \in {"idle", "run"} /\ ~autoCommit[c] => open[c]
           Calm == pc[c] # "upgradeBegin"
<1>1. Init => Inside /\ Calm /\ NoSavepoint(c)
  BY DEF Init, NoSavepoint
<1>2. ASSUME TypeOK, AgreementInv, Inside, Calm, NoSavepoint(c), [Next]_vars
      PROVE  Inside' /\ Calm' /\ NoSavepoint(c)'
  <2>1. MoveOf(c) /\ NoSavepoint(c)'
    BY <1>2, MovesOf
  <2>2. BeginResult(c, "DEFERRED") = "OK" \/ open[c]
    BY DEF BeginResult
  <2> QED BY <1>2, <2>1, <2>2 DEF MoveOf, Sees
<1> QED BY <1>1, <1>2, ReadOnlyHolds, PTL DEF Spec

\* On a DEFERRED connection without savepoints the mode says IMMEDIATE only over
\* a transaction with the write lock: the statement behind the upgrade finds it
\* held, even after calls that threw.
THEOREM UpgradeAlwaysHoldsWriteLock ==
  ASSUME NEW c \in Conns, ~Faulty, MaxSavepoints[c] = 0, TransactionMode[c] = "DEFERRED"
  PROVE  Spec => [](pc[c] \in {"idle", "run"} /\ mode[c] = "IMMEDIATE"
                    => open[c] /\ lock[c] \in WriteLocks)
<1> DEFINE Upgraded == pc[c] \in {"idle", "run"} /\ mode[c] = "IMMEDIATE" => open[c]
           Before == pc[c] = "upgradeBegin" => mode[c] = "DEFERRED"
           Both == pc[c] \in {"idle", "run"} /\ mode[c] = "IMMEDIATE"
                   => open[c] /\ lock[c] \in WriteLocks
<1>1. Init => Upgraded /\ Before /\ NoSavepoint(c)
  BY DEF Init, NoSavepoint
<1>2. ASSUME TypeOK, AgreementInv, Upgraded, Before, NoSavepoint(c), [Next]_vars
      PROVE  Upgraded' /\ Before' /\ NoSavepoint(c)'
  <2>1. MoveOf(c) /\ NoSavepoint(c)'
    BY <1>2, MovesOf
  <2>2. BeginResult(c, "DEFERRED") = "OK" \/ open[c]
    BY DEF BeginResult
  <2>3. pc[c] \in Between => ~open[c]
    BY <1>2 DEF AgreementInv, AgreementOf
  <2> QED BY <1>2, <2>1, <2>2, <2>3 DEF MoveOf, Sees, Between
<1>3. TypeOK /\ ReadOnlyInv /\ Upgraded /\ NoSavepoint(c) => Both
  BY DEF ReadOnlyInv, ReadOnlyOf, NoSavepoint
<1> QED BY <1>1, <1>2, <1>3, ReadOnlyHolds, PTL DEF Spec

\* A connection that has the file to itself, sets no savepoint and is not both
\* read-only and eager to write: its flag and SQLite agree after every call,
\* with nothing excused.  So every disagreement that Agreement admits comes
\* from another connection's lock, a savepoint, a read-only "begin immediate"
\* or a statement on which SQLite rolls back.
THEOREM AloneAlwaysAgrees ==
  ASSUME NEW c \in Conns, Conns = {c}, ~Faulty, MaxSavepoints[c] = 0,
         ExplicitReadOnly[c] => TransactionMode[c] = "DEFERRED"
  PROVE  Spec => [](pc[c] \in {"idle", "run"} => (autoCommit[c] <=> ~open[c]))
<1> DEFINE Agrees == pc[c] \in {"idle", "run"} => (autoCommit[c] <=> ~open[c])
           Writable == /\ pc[c] # "closed" /\ queryOnly[c] => ExplicitReadOnly[c]
                       /\ pc[c] = "upgradeBegin" => ~queryOnly[c]
<1>1. Init => Agrees /\ Writable /\ NoSavepoint(c)
  BY DEF Init, NoSavepoint
<1>2. ASSUME TypeOK, AgreementInv, Agrees, Writable, NoSavepoint(c), [Next]_vars
      PROVE  Agrees' /\ Writable' /\ NoSavepoint(c)'
  <2>1. MoveOf(c) /\ NoSavepoint(c)'
    BY <1>2, MovesOf
  <2>2. open[c] => CommitResult(c) = "OK"
    BY DEF CommitResult, CanExclude
  <2>3. \A m : (m # "DEFERRED" => ~queryOnly[c]) /\ ~open[c] => BeginResult(c, m) = "OK"
    BY DEF BeginResult, CanReserve, CanExclude
  <2>4. pc[c] \in Between => ~autoCommit[c] /\ ~open[c]
    BY <1>2 DEF AgreementInv, AgreementOf
  <2>5. TypeOK'
    BY <1>2, NextType
  <2> QED BY <1>2, <2>1, <2>2, <2>3, <2>4, <2>5 DEF MoveOf, Sees, Between, TypeOK
<1> QED BY <1>1, <1>2, ReadOnlyHolds, PTL DEF Spec

=============================================================================
