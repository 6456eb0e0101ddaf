-------------------------- MODULE OnlineBackupProofs --------------------------
(***************************************************************************)
(* Theorems about OnlineBackup, for files and steps of any size and any    *)
(* limit of busy answers.                                                  *)
(***************************************************************************)
EXTENDS OnlineBackup, WellFoundedInduction, TLAPS

\* Where a call stands, what the last step said, and what became of the call.
Control ==
  /\ pc = "idle" => outcome # "running" /\ ~bDestLocked
  /\ pc \in {"step", "sleep"} => outcome = "running" /\ stepRc # "DONE"
  /\ pc \in {"step", "sleep", "callback"} => nTimeout <= NTimeoutLimit
  /\ pc = "callback" => stepRc \in {"OK", "DONE"}
  /\ pc = "finish" => stepRc # "OK"
  /\ pc \in {"callback", "finish"} =>
       outcome = (IF stepRc = "DONE" THEN "copied" ELSE "running")

\* The pages before iNext are in the working copy of the target.
Progress ==
  /\ bDestLocked => iNext - 1 <= Len(copy)
  /\ ~bDestLocked => iNext = 1

IInv == TypeOK /\ Control /\ Progress /\ CopyInSync /\ BackupReported

-----------------------------------------------------------------------------
(* Files.                                                                  *)

LEMMA FileIsSeq ==
  ASSUME NEW f \in Files
  PROVE  f \in Seq(Data) /\ Len(f) \in 0 .. MaxPages /\ f \in [1 .. Len(f) -> Data]
<1>1. PICK n \in 0 .. MaxPages : f \in [1 .. n -> Data]
  BY DEF Files
<1>2. n \in Nat
  BY <1>1, BackupAssumption
<1> QED BY <1>1, <1>2

LEMMA ContentIsSeq ==
  ASSUME NEW f \in Contents
  PROVE  f \in Files /\ Len(f) \in 1 .. MaxPages
<1>1. PICK n \in 1 .. MaxPages : f \in [1 .. n -> Data]
  BY DEF Contents
<1>2. n \in Nat /\ n \in 0 .. MaxPages
  BY <1>1, BackupAssumption
<1> QED BY <1>1, <1>2 DEF Files

LEMMA FileIntro ==
  ASSUME NEW n \in 0 .. MaxPages, NEW f \in [1 .. n -> Data]
  PROVE  f \in Files /\ Len(f) = n
<1>1. n \in Nat
  BY BackupAssumption
<1> QED BY <1>1 DEF Files

LEMMA EmptyFile == <<>> \in Files /\ Len(<<>>) = 0
<1>1. <<>> \in [1 .. 0 -> Data] /\ 0 \in 0 .. MaxPages
  BY BackupAssumption
<1> QED BY <1>1, FileIntro

\* Writing pages p..q of the source over a file.
LEMMA OverwrittenFile ==
  ASSUME source \in Contents, NEW file \in Files,
         NEW p \in Nat, p >= 1, p - 1 <= Len(file), NEW q \in Nat, q <= Len(source)
  PROVE  /\ Overwritten(file, p, q) \in Files
         /\ Len(Overwritten(file, p, q)) = IF q > Len(file) THEN q ELSE Len(file)
         /\ \A i \in p .. q : Overwritten(file, p, q)[i] = source[i]
         /\ \A i \in 1 .. p - 1 : i <= Len(file) => Overwritten(file, p, q)[i] = file[i]
<1> DEFINE n == IF q > Len(file) THEN q ELSE Len(file)
<1>1. /\ file \in [1 .. Len(file) -> Data] /\ Len(file) \in 0 .. MaxPages
      /\ source \in [1 .. Len(source) -> Data] /\ Len(source) \in 1 .. MaxPages
  BY FileIsSeq, ContentIsSeq
<1>2. n \in 0 .. MaxPages
  BY <1>1, BackupAssumption
<1>3. Overwritten(file, p, q) \in [1 .. n -> Data]
  <2>1. ASSUME NEW i \in 1 .. n
        PROVE  (IF i \in p .. q THEN source[i] ELSE file[i]) \in Data
    <3>1. CASE i \in p .. q
      <4>1. i \in 1 .. Len(source)
        BY <3>1, <1>1, <1>2, BackupAssumption
      <4> QED BY <3>1, <4>1, <1>1
    <3>2. CASE i \notin p .. q
      <4>1. i \in 1 .. Len(file)
        BY <3>2, <1>1, <1>2, BackupAssumption
      <4> QED BY <3>2, <4>1, <1>1
    <3> QED BY <3>1, <3>2
  <2>2. Overwritten(file, p, q) =
          [i \in 1 .. n |-> IF i \in p .. q THEN source[i] ELSE file[i]]
    BY DEF Overwritten
  <2> HIDE DEF n
  <2> QED BY <2>1, <2>2
<1>4. \A i \in 1 .. n :
        Overwritten(file, p, q)[i] = IF i \in p .. q THEN source[i] ELSE file[i]
  BY DEF Overwritten
<1>5. Overwritten(file, p, q) \in Files /\ Len(Overwritten(file, p, q)) = n
  BY <1>2, <1>3, FileIntro
<1>6. /\ \A i \in p .. q : i \in 1 .. n
      /\ \A i \in 1 .. p - 1 : i <= Len(file) => i \in 1 .. n /\ i \notin p .. q
  BY <1>1, <1>2, BackupAssumption
<1> QED BY <1>4, <1>5, <1>6

\* A target that is cut to the size of the source and agrees with it is it.
LEMMA TruncatedFile ==
  ASSUME source \in Contents, NEW file,
         \A i \in 1 .. Len(source) : file[i] = source[i]
  PROVE  Truncated(file, Len(source)) = source
<1>1. source \in [1 .. Len(source) -> Data]
  BY ContentIsSeq, FileIsSeq
<1> QED BY <1>1 DEF Truncated

LEMMA UpdatedFile ==
  ASSUME NEW file \in Files, NEW s \in Contents, iNext \in Nat
  PROVE  /\ Updated(file, s) \in Files /\ Len(Updated(file, s)) = Len(file)
         /\ \A p \in 1 .. iNext - 1 :
              p <= Len(file) /\ p <= Len(s) => Updated(file, s)[p] = s[p]
<1>1. /\ file \in [1 .. Len(file) -> Data] /\ Len(file) \in 0 .. MaxPages
      /\ s \in [1 .. Len(s) -> Data] /\ Len(s) \in 1 .. MaxPages
  BY FileIsSeq, ContentIsSeq
<1>2. Updated(file, s) \in [1 .. Len(file) -> Data]
  <2>1. ASSUME NEW p \in 1 .. Len(file)
        PROVE  (IF p < iNext /\ p <= Len(s) THEN s[p] ELSE file[p]) \in Data
    <3>1. p <= Len(s) => p \in 1 .. Len(s)
      BY <1>1, BackupAssumption
    <3> QED BY <1>1, <3>1
  <2> QED BY <2>1 DEF Updated
<1>3. \A p \in 1 .. Len(file) :
        Updated(file, s)[p] = IF p < iNext /\ p <= Len(s) THEN s[p] ELSE file[p]
  BY DEF Updated
<1>4. \A p \in 1 .. iNext - 1 : p <= Len(file) => p \in 1 .. Len(file) /\ p < iNext
  BY <1>1, BackupAssumption
<1> QED BY <1>1, <1>2, <1>3, <1>4, FileIntro

-----------------------------------------------------------------------------
(* The copy loop.                                                          *)

\* A step copies from page Looked up to LastOfStep(Looked), which is no page
\* when PagesPerStep is 0.
LEMMA StepRange ==
  ASSUME IInv
  PROVE  /\ Looked \in 1 .. iNext /\ iNext \in Nat /\ iNext <= MaxPages
         /\ LastOfStep(Looked) \in Nat /\ LastOfStep(Looked) <= Len(source)
         /\ LastOfStep(Looked) < Len(source) => LastOfStep(Looked) >= Looked - 1
         /\ Len(source) \in 1 .. MaxPages
<1>1. iNext \in 1 .. MaxPages /\ Len(source) \in 1 .. MaxPages
  BY ContentIsSeq DEF IInv, TypeOK
<1>2. Looked \in 1 .. iNext
  BY <1>1, BackupAssumption DEF Looked
<1>3. Looked \in Nat /\ Looked >= 1 /\ Len(source) \in Nat
  BY <1>1, <1>2, BackupAssumption
<1> QED BY <1>1, <1>2, <1>3, BackupAssumption DEF LastOfStep

\* After a step has written over pages Looked..q, the target agrees with the
\* source up to page q and has those pages.
LEMMA CopiedUpTo ==
  ASSUME IInv, NEW q \in Nat, q <= Len(source), q >= Looked - 1
  PROVE  LET file == Overwritten(Working, Looked, q)
         IN  /\ file \in Files /\ q <= Len(file)
             /\ \A p \in 1 .. q : file[p] = source[p]
<1> DEFINE file == Overwritten(Working, Looked, q)
<1>1. Looked \in 1 .. iNext /\ iNext \in Nat /\ Looked \in Nat /\ Looked >= 1
  BY StepRange
<1>2. source \in Contents /\ Working \in Files
  BY DEF IInv, TypeOK, Working
<1>3. Len(Working) \in Nat /\ Len(source) \in Nat /\ Looked - 1 <= Len(Working)
  <2>1. Len(Working) \in Nat /\ Len(source) \in Nat
    BY <1>2, FileIsSeq, ContentIsSeq, BackupAssumption
  <2> QED BY <2>1, <1>1 DEF Working, IInv, Progress
<1>4. /\ file \in Files /\ Len(file) = IF q > Len(Working) THEN q ELSE Len(Working)
      /\ \A i \in Looked .. q : file[i] = source[i]
      /\ \A i \in 1 .. Looked - 1 : i <= Len(Working) => file[i] = Working[i]
  BY <1>1, <1>2, <1>3, OverwrittenFile
<1>5. ASSUME NEW p \in 1 .. q PROVE file[p] = source[p]
  <2>1. CASE p >= Looked
    BY <2>1, <1>1, <1>4
  <2>2. CASE p < Looked
    <3>1. bDestLocked /\ ~stale /\ Looked = iNext
      BY <2>2, <1>1 DEF Looked, IInv, Progress
    <3>2. Working = copy /\ p \in 1 .. iNext - 1 /\ iNext - 1 <= Len(copy)
      BY <2>2, <3>1, <1>1 DEF Working, IInv, Progress
    <3>3. p <= Len(Working) /\ p <= Len(source)
      BY <3>2, <1>1, <1>3
    <3>4. copy[p] = source[p]
      BY <3>1, <3>2, <3>3 DEF IInv, CopyInSync
    <3> QED BY <1>4, <2>2, <3>2, <3>3, <3>4, <1>1
  <2> QED BY <2>1, <2>2, <1>1
<1> QED BY <1>3, <1>4, <1>5

\* The step that answers SQLITE_DONE leaves the target equal to the source.
LEMMA DoneCopiesAll ==
  ASSUME IInv, StepDone
  PROVE  target' = source
<1>1. Len(source) \in 1 .. MaxPages /\ Looked \in 1 .. iNext /\ iNext \in Nat
  BY StepRange
<1>2. source \in Contents
  BY DEF IInv, TypeOK
<1>3. CASE Len(source) >= Looked - 1
  <2>1. \A p \in 1 .. Len(source) :
          Overwritten(Working, Looked, Len(source))[p] = source[p]
    BY <1>1, <1>3, CopiedUpTo, BackupAssumption
  <2> QED BY <1>2, <2>1, TruncatedFile DEF StepDone
<1>4. CASE Len(source) < Looked - 1
  <2>1. Looked \in Nat /\ Looked >= 1 /\ Working \in Files /\ Len(source) \in Nat
    BY <1>1, BackupAssumption DEF IInv, TypeOK, Working
  <2>2. bDestLocked /\ ~stale /\ Looked = iNext /\ Working = copy
    BY <1>1, <1>4, BackupAssumption DEF Looked, IInv, Progress, Working
  <2>3. Looked - 1 <= Len(Working) /\ Len(Working) \in Nat
    BY <2>2, FileIsSeq, BackupAssumption DEF IInv, Progress, TypeOK
  <2>4. \A i \in 1 .. Looked - 1 : i <= Len(Working) =>
          Overwritten(Working, Looked, Len(source))[i] = Working[i]
    <3>1. Len(source) <= Len(source)
      BY <2>1
    <3> QED BY <1>2, <2>1, <2>3, <3>1, OverwrittenFile
  <2>5. ASSUME NEW p \in 1 .. Len(source)
        PROVE  Overwritten(Working, Looked, Len(source))[p] = source[p]
    <3>1. p \in 1 .. Looked - 1 /\ p <= Len(Working)
      BY <2>3, <2>1, <1>1, <1>4, BackupAssumption
    <3>2. copy[p] = source[p]
      BY <2>2, <3>1, <1>1, BackupAssumption DEF IInv, CopyInSync
    <3>3. Overwritten(Working, Looked, Len(source))[p] = Working[p]
      BY <2>4, <3>1
    <3> QED BY <2>2, <3>2, <3>3
  <2> QED BY <1>2, <2>5, TruncatedFile DEF StepDone
<1> QED BY <1>1, <1>3, <1>4, BackupAssumption

-----------------------------------------------------------------------------
(* The invariant.                                                          *)

LEMMA InitInv == Init => IInv
<1> SUFFICES ASSUME Init PROVE IInv
  OBVIOUS
<1>1. TypeOK
  <2>1. 1 \in 1 .. MaxPages
    BY ContentIsSeq, BackupAssumption DEF Init
  <2>2. copy \in Files
    BY EmptyFile DEF Init
  <2>3. sourceHeld \in BOOLEAN /\ targetHeld \in BOOLEAN /\ stale \in BOOLEAN
        /\ bDestLocked \in BOOLEAN
    BY Zenon DEF Init
  <2> QED BY <2>1, <2>2, <2>3, BackupAssumption DEF Init, TypeOK, PCs, Codes
<1>2. Control /\ Progress /\ CopyInSync /\ BackupReported
  BY BackupAssumption DEF Init, Control, Progress, CopyInSync, BackupReported
<1> QED BY <1>1, <1>2 DEF IInv

Locks == /\ sourceHeld \in BOOLEAN /\ targetHeld \in BOOLEAN
         /\ stale \in BOOLEAN /\ bDestLocked \in BOOLEAN

\* Steps of other connections, and of the caller's own SQL, leave the call
\* where it is.
LEMMA Outside ==
  ASSUME IInv, Locks', UNCHANGED <<op, pc, target, stepRc, nTimeout, returned, outcome>>,
         source' \in Contents, ownTxn' \in {"none", "read", "write"},
         bDestLocked' = bDestLocked, copy' \in Files, Len(copy') = Len(copy),
         iNext' = iNext \/ iNext' = 1, CopyInSync'
  PROVE  IInv'
<1>1. TypeOK'
  <2>1. iNext' \in 1 .. MaxPages
    BY BackupAssumption DEF IInv, TypeOK
  <2> QED BY <2>1 DEF IInv, TypeOK, Locks
<1>2. Control' /\ BackupReported'
  BY DEF IInv, Control, BackupReported
<1>3. Progress'
  BY FileIsSeq, BackupAssumption DEF IInv, TypeOK, Progress
<1> QED BY <1>1, <1>2, <1>3 DEF IInv

LEMMA OtherConnections ==
  ASSUME IInv, HoldSource \/ ReleaseSource \/ HoldTarget \/ ReleaseTarget
  PROVE  IInv'
<1>1. Locks'
  BY Zenon DEF Locks, IInv, TypeOK, HoldSource, ReleaseSource, HoldTarget, ReleaseTarget, backupVars
<1>2. CopyInSync'
  BY DEF IInv, CopyInSync, HoldSource, ReleaseSource, HoldTarget, ReleaseTarget, backupVars
<1> QED
  BY <1>1, <1>2, Outside DEF IInv, TypeOK, HoldSource, ReleaseSource, HoldTarget,
     ReleaseTarget, backupVars

LEMMA OwnSql ==
  ASSUME IInv, (\E kind \in {"read", "write"} : OwnBegin(kind)) \/ OwnCommit \/ OwnEnd
  PROVE  IInv'
<1>1. CASE \E kind \in {"read", "write"} : OwnBegin(kind)
  <2>1. Locks' /\ bDestLocked' = bDestLocked
    BY <1>1 DEF Locks, IInv, TypeOK, OwnBegin
  <2>2. CopyInSync' /\ (iNext' = iNext \/ iNext' = 1)
    BY <1>1, BackupAssumption DEF IInv, TypeOK, CopyInSync, OwnBegin, Looked
  <2> QED BY <1>1, <2>1, <2>2, Outside DEF IInv, TypeOK, OwnBegin
<1>2. CASE OwnCommit
  <2>1. Locks' /\ bDestLocked' = bDestLocked
    BY <1>2, Zenon DEF Locks, IInv, TypeOK, OwnCommit
  <2>2. iNext \in Nat /\ copy \in Files /\ source' \in Contents
    BY <1>2, BackupAssumption DEF IInv, TypeOK, OwnCommit
  <2>3. copy' \in Files /\ Len(copy') = Len(copy)
    BY <1>2, <2>2, UpdatedFile DEF OwnCommit
  <2>4. CopyInSync'
    <3>1. CASE bDestLocked
      <4>1. \A p \in 1 .. iNext - 1 :
              p <= Len(copy) /\ p <= Len(source') => copy'[p] = source'[p]
        BY <1>2, <2>2, <3>1, UpdatedFile DEF OwnCommit
      <4>2. Len(copy) \in Nat /\ iNext - 1 <= Len(copy)
        BY <2>2, <3>1, FileIsSeq, BackupAssumption DEF IInv, Progress
      <4> QED BY <1>2, <2>2, <4>1, <4>2 DEF OwnCommit, CopyInSync
    <3>2. CASE ~bDestLocked
      BY <2>1, <3>2 DEF CopyInSync
    <3> QED BY <3>1, <3>2
  <2> QED BY <1>2, <2>1, <2>2, <2>3, <2>4, Outside DEF OwnCommit
<1>3. CASE OwnEnd
  <2>1. Locks'
    BY <1>3, Zenon DEF Locks, IInv, TypeOK, OwnEnd, backupVars
  <2>2. CopyInSync'
    BY <1>3 DEF IInv, CopyInSync, OwnEnd, backupVars
  <2> QED BY <1>3, <2>1, <2>2, Outside DEF IInv, TypeOK, OwnEnd, backupVars
<1> QED BY <1>1, <1>2, <1>3

\* Steps of the call that copy nothing.
LEMMA CallSteps ==
  ASSUME IInv, \/ OpenFails \/ InitFails \/ BackupInit \/ StepBusy \/ StepFails
               \/ CallbackReturns \/ Sleep
  PROVE  IInv'
<1>1. Locks'
  BY Zenon DEF Locks, IInv, TypeOK, OpenFails, InitFails, BackupInit, StepBusy, StepFails,
     CallbackReturns, Sleep, fileVars, backupVars
<1>2. Looked \in 1 .. MaxPages /\ 1 \in 1 .. MaxPages
  BY BackupAssumption DEF IInv, TypeOK, Looked
<1>3. TypeOK'
  BY <1>1, <1>2, BackupAssumption DEF IInv, TypeOK, Locks, Control, PCs, Codes, Fatal, OpenFails,
     InitFails, BackupInit, StepBusy, CountBusy, StepFails, CallbackReturns, Sleep, fileVars, backupVars
<1>4. Control'
  BY BackupAssumption DEF IInv, TypeOK, Control, Fatal, OpenFails, InitFails, BackupInit,
     StepBusy, CountBusy, StepFails, CallbackReturns, Sleep, fileVars, backupVars
<1>5. Progress' /\ CopyInSync'
  BY <1>2, BackupAssumption DEF IInv, TypeOK, Control, Progress, CopyInSync, Looked, OpenFails,
     InitFails, BackupInit, StepBusy, StepFails, CallbackReturns, Sleep, fileVars, backupVars
<1>6. BackupReported'
  BY DEF IInv, Control, BackupReported, OpenFails, InitFails, BackupInit,
     StepBusy, CountBusy, StepFails, CallbackReturns, Sleep, fileVars, backupVars
<1> QED BY <1>3, <1>4, <1>5, <1>6 DEF IInv

LEMMA CopySteps ==
  ASSUME IInv, StepCopies \/ StepDone
  PROVE  IInv'
<1>1. CASE StepCopies
  <2> DEFINE q == LastOfStep(Looked)
  <2>1. /\ q \in Nat /\ q < Len(source) /\ q >= Looked - 1
        /\ Len(source) \in 1 .. MaxPages /\ q + 1 \in 1 .. MaxPages
    BY <1>1, StepRange, BackupAssumption DEF StepCopies
  <2>2. /\ copy' \in Files /\ q <= Len(copy')
        /\ \A p \in 1 .. q : copy'[p] = source[p]
    BY <1>1, <2>1, CopiedUpTo DEF StepCopies
  <2>3. iNext' = q + 1
    BY <1>1 DEF StepCopies
  <2> HIDE DEF q
  <2>4. Locks'
    BY <1>1 DEF Locks, IInv, TypeOK, StepCopies, fileVars
  <2>5. TypeOK'
    BY <1>1, <2>1, <2>2, <2>3, <2>4 DEF IInv, TypeOK, Locks, PCs, Codes, StepCopies, fileVars
  <2>6. Control' /\ BackupReported'
    BY <1>1 DEF IInv, Control, BackupReported, CanCopy, StepCopies
  <2>7. Progress' /\ CopyInSync'
    BY <1>1, <2>1, <2>2, <2>3 DEF Progress, CopyInSync, StepCopies, fileVars
  <2> QED BY <2>5, <2>6, <2>7 DEF IInv
<1>2. CASE StepDone
  <2>1. target' = source /\ source \in Contents /\ Len(source) \in 1 .. MaxPages
    BY <1>2, DoneCopiesAll, ContentIsSeq DEF IInv, TypeOK
  <2>2. target' \in Files /\ 1 \in 1 .. MaxPages
    BY <2>1, ContentIsSeq, BackupAssumption
  <2>3. Locks'
    BY <1>2 DEF Locks, IInv, TypeOK, StepDone
  <2>4. TypeOK'
    BY <1>2, <2>2, <2>3, EmptyFile DEF IInv, TypeOK, Locks, PCs, Codes, StepDone
  <2>5. Control' /\ BackupReported' /\ Progress' /\ CopyInSync'
    BY <1>2 DEF IInv, Control, BackupReported, Progress, CopyInSync, CanCopy, StepDone
  <2> QED BY <2>4, <2>5 DEF IInv
<1> QED BY <1>1, <1>2

LEMMA FinishStep ==
  ASSUME IInv, Finish
  PROVE  IInv'
<1>1. Locks'
  BY DEF Locks, IInv, TypeOK, Finish, fileVars
<1>2. 1 \in 1 .. MaxPages /\ 0 \in 0 .. NTimeoutLimit + 1
  BY BackupAssumption DEF IInv, TypeOK
<1>3. returned' \in Codes \ {"DONE"}
  BY DEF IInv, TypeOK, Finish, PFileCode, TargetCode, SourceCode, Codes, Fatal
<1>4. TypeOK'
  BY <1>1, <1>2, <1>3, EmptyFile DEF IInv, TypeOK, Locks, PCs, Codes, Finish, fileVars
<1>5. Control' /\ Progress' /\ CopyInSync'
  BY DEF IInv, Control, Progress, CopyInSync, Finish
<1>6. BackupReported'
  BY DEF IInv, Control, BackupReported, Finish, PFileCode, TargetCode, SourceCode
<1> QED BY <1>4, <1>5, <1>6 DEF IInv

LEMMA NextInv == IInv /\ [Next]_vars => IInv'
<1>1. ASSUME IInv, Next PROVE IInv'
  BY <1>1, OtherConnections, OwnSql, CallSteps, CopySteps, FinishStep DEF Next, Loop
<1>2. ASSUME IInv, UNCHANGED vars PROVE IInv'
  BY <1>2 DEF IInv, TypeOK, Control, Progress, CopyInSync, BackupReported, vars, fileVars, backupVars
<1> QED BY <1>1, <1>2

\* The inductive invariant.
THEOREM Invariant == Spec => []IInv
BY InitInv, NextInv, PTL DEF Spec

-----------------------------------------------------------------------------
(* The theorems.                                                           *)

\* Every reachable state is well typed; in particular the busy answers never
\* exceed the limit by more than the one that ends the loop.
THEOREM TypeCorrect == Spec => []TypeOK
BY Invariant, PTL DEF IInv

\* The pages copied are those of the source, unless it changed unnoticed.
THEOREM CopyInSyncHolds == Spec => []CopyInSync
BY Invariant, PTL DEF IInv

\* backup returns SQLITE_OK exactly when the copy was completed.
THEOREM BackupReportedHolds == Spec => []BackupReported
BY Invariant, PTL DEF IInv

LEMMA StepIsAtomic ==
  ASSUME IInv, IInv', [Next]_vars
  PROVE  [CopiesAtomically!Next]_(CopiesAtomically!copyVars)
<1>1. CASE StepDone
  <2>1. outcome = "running" /\ outcome' = "copied" /\ target' = source /\ UNCHANGED source
    BY <1>1, DoneCopiesAll DEF IInv, Control, CanCopy, StepDone
  <2> QED BY <2>1 DEF CopiesAtomically!Next, CopiesAtomically!Copy
<1>2. CASE OpenFails \/ InitFails \/ BackupInit
  BY <1>2 DEF IInv, Control, OpenFails, InitFails, BackupInit, fileVars,
     CopiesAtomically!Next, CopiesAtomically!Call
<1>3. CASE Finish
  <2>1. outcome' = outcome \/ (outcome = "running" /\ outcome' = "failed")
    BY <1>3 DEF IInv, Control, Finish
  <2> QED BY <1>3, <2>1 DEF Finish, fileVars, CopiesAtomically!Next, CopiesAtomically!GiveUp,
     CopiesAtomically!copyVars
<1>4. CASE ReleaseSource \/ OwnCommit
  <2>1. source' \in Files
    BY ContentIsSeq DEF IInv, TypeOK
  <2> QED BY <1>4, <2>1 DEF ReleaseSource, OwnCommit, CopiesAtomically!Next,
     CopiesAtomically!Change
<1>5. CASE \/ HoldSource \/ HoldTarget \/ ReleaseTarget \/ OwnEnd \/ StepBusy \/ StepCopies
           \/ StepFails \/ CallbackReturns \/ Sleep \/ \E kind \in {"read", "write"} : OwnBegin(kind)
  BY <1>5 DEF HoldSource, HoldTarget, ReleaseTarget, OwnEnd, StepBusy, StepCopies, StepFails,
     CallbackReturns, Sleep, OwnBegin, fileVars, CopiesAtomically!copyVars
<1>6. CASE UNCHANGED vars
  BY <1>6 DEF vars, fileVars, CopiesAtomically!copyVars
<1> QED BY <1>1, <1>2, <1>3, <1>4, <1>5, <1>6 DEF Next, Loop

\* The target changes only in one step, to the whole of the source, for
\* every number of pages, step size, limit and interleaving.
THEOREM KeepsPromiseHolds == Spec => KeepsPromise
<1>1. Init => CopiesAtomically!Init
  BY ContentIsSeq DEF Init, CopiesAtomically!Init
<1> QED BY <1>1, StepIsAtomic, Invariant, PTL DEF Spec, KeepsPromise, CopiesAtomically!Spec

-----------------------------------------------------------------------------
(* A call comes back.                                                      *)

\* Induction on the natural numbers over the values of a function: the theorems of
\* the library take an operator.  To use it for temporal formulas a proof picks a
\* function that is 1 where the formula is true; Mentioned gives the provers
\* the term that shows there is one.
LEMMA Induction ==
  ASSUME NEW f, f[0] = 1, \A n \in Nat : f[n] = 1 => f[n + 1] = 1
  PROVE  \A n \in Nat : f[n] = 1
<1> DEFINE Bad == {n \in Nat : f[n] # 1}
           Less == OpToRel(<, Nat)
<1>1. SUFFICES ASSUME Bad # {} PROVE FALSE
  OBVIOUS
<1>2. PICK n \in Bad : \A m \in Bad : <<m, n>> \notin Less
  BY <1>1, NatLessThanWellFounded, WFMin, Zenon
<1>3. \A m, k \in Nat : m < k => <<m, k>> \in Less
  BY Zenon DEF OpToRel
<1> HIDE DEF Less
<1>4. n \in Nat /\ f[n] # 1
  OBVIOUS
<1>5. n # 0
  BY <1>4
<1>6. n - 1 \in Nat /\ n - 1 < n /\ (n - 1) + 1 = n
  BY <1>4, <1>5
<1>7. f[n - 1] = 1
  BY <1>2, <1>3, <1>4, <1>6
<1>8. f[(n - 1) + 1] = 1
  BY <1>6, <1>7
<1> QED BY <1>4, <1>6, <1>8

Mentioned(v) == TRUE

\* What a call has left to do while the source is left alone: pages, busy
\* answers it still puts up with, and the way through the loop.
Left ==
  CASE pc = "idle"   -> 0
    [] pc = "finish" -> 1
    [] pc = "callback" /\ stepRc = "DONE" -> 2
    [] OTHER -> 3 * ((NTimeoutLimit + 1 - nTimeout) + (MaxPages + 1 - Looked))
                + (IF pc = "step" THEN 3 ELSE 4)

Most == 3 * (NTimeoutLimit + 1 + MaxPages) + 4

AtMost(n) == pc # "idle" /\ Left <= n
Back == pc = "idle"

LEMMA LeftIsNatural == IInv => Left \in 0 .. Most /\ Looked \in 1 .. MaxPages
<1> SUFFICES ASSUME IInv PROVE Left \in 0 .. Most /\ Looked \in 1 .. MaxPages
  OBVIOUS
<1>1. /\ iNext \in 1 .. MaxPages /\ nTimeout \in 0 .. NTimeoutLimit + 1
      /\ NTimeoutLimit \in Nat /\ MaxPages \in Nat
  BY BackupAssumption DEF IInv, TypeOK
<1>2. Looked \in 1 .. MaxPages
  BY <1>1 DEF Looked
<1>3. Left \in {0, 1, 2, 3 * ((NTimeoutLimit + 1 - nTimeout) + (MaxPages + 1 - Looked)) + 3,
                3 * ((NTimeoutLimit + 1 - nTimeout) + (MaxPages + 1 - Looked)) + 4}
  BY DEF Left
<1> HIDE DEF Left
<1> QED BY <1>1, <1>2, <1>3 DEF Most

\* A turn of the loop leaves less to do.
LEMMA LoopAdvances ==
  ASSUME IInv, IInv', PagesPerStep # 0, Loop, pc # "idle"
  PROVE  Left' < Left
<1> (IInv => Left \in 0 .. Most /\ Looked \in 1 .. MaxPages)'
  BY LeftIsNatural, PTL
<1>0. /\ iNext \in 1 .. MaxPages /\ nTimeout \in 0 .. NTimeoutLimit + 1
      /\ NTimeoutLimit \in Nat /\ MaxPages \in Nat /\ PagesPerStep \in Int
      /\ Looked \in 1 .. MaxPages /\ Looked' \in 1 .. MaxPages
      /\ nTimeout' \in 0 .. NTimeoutLimit + 1
      /\ stale \in BOOLEAN /\ Left' \in Nat /\ Left \in Nat
  BY BackupAssumption, LeftIsNatural DEF IInv, TypeOK
<1>1. CASE StepBusy
  <2>1. /\ pc = "step" /\ nTimeout' = nTimeout + 1 /\ pc' \in {"finish", "sleep"}
        /\ Looked' = Looked
    <3>1. /\ pc = "step" /\ nTimeout' = nTimeout + 1 /\ pc' \in {"finish", "sleep"}
      BY <1>1 DEF StepBusy, CountBusy
    <3>2. (iNext' = iNext /\ stale' = stale) \/ (iNext' = Looked /\ stale' = FALSE)
      BY <1>1 DEF StepBusy
    <3> QED BY <3>1, <3>2 DEF Looked
  <2> QED BY <1>0, <2>1 DEF Left
<1>2. CASE StepCopies
  <2>1. /\ pc = "step" /\ pc' = "callback" /\ stepRc' = "OK" /\ nTimeout' = nTimeout
        /\ iNext' = LastOfStep(Looked) + 1 /\ stale' = FALSE /\ LastOfStep(Looked) < Len(source)
    BY <1>2 DEF StepCopies, CanCopy
  <2>2. LastOfStep(Looked) = Looked + PagesPerStep - 1 /\ PagesPerStep > 0
    <3>1. Len(source) \in Nat
      BY ContentIsSeq DEF IInv, TypeOK
    <3> QED BY <1>0, <2>1, <3>1 DEF LastOfStep
  <2>3. Looked' > Looked
    BY <1>0, <2>1, <2>2 DEF Looked
  <2>4. /\ Left = 3 * ((NTimeoutLimit + 1 - nTimeout) + (MaxPages + 1 - Looked)) + 3
        /\ Left' = 3 * ((NTimeoutLimit + 1 - nTimeout) + (MaxPages + 1 - Looked')) + 4
    BY <2>1 DEF Left
  <2>5. \A a, b, m, k \in Int : b > a => 3 * (k + (m + 1 - b)) + 4 < 3 * (k + (m + 1 - a)) + 3
    OBVIOUS
  <2>6. NTimeoutLimit + 1 - nTimeout \in Int /\ MaxPages \in Int /\ Looked \in Int /\ Looked' \in Int
    BY <1>0
  <2> QED BY <2>3, <2>4, <2>5, <2>6
<1>3. CASE StepDone
  BY <1>0, <1>3 DEF StepDone, CanCopy, Left
<1>4. CASE StepFails
  BY <1>0, <1>4 DEF StepFails, Left
<1>5. CASE CallbackReturns
  <2>1. Looked' = Looked
    BY <1>5 DEF CallbackReturns, backupVars, Looked
  <2>2. /\ pc = "callback" /\ nTimeout' = nTimeout /\ stepRc' = stepRc
        /\ pc' = IF stepRc = "DONE" THEN "finish" ELSE "step"
    BY <1>5 DEF CallbackReturns, backupVars
  <2>3. CASE stepRc = "DONE"
    BY <2>2, <2>3 DEF Left
  <2>4. CASE stepRc # "DONE"
    BY <1>0, <2>1, <2>2, <2>4, SMTT(30) DEF Left
  <2> QED BY <2>3, <2>4
<1>6. CASE Sleep
  <2>1. Looked' = Looked
    BY <1>6 DEF Sleep, backupVars, Looked
  <2> QED BY <1>0, <1>6, <2>1 DEF Sleep, Left, backupVars
<1>7. CASE Finish
  BY <1>0, <1>7 DEF Finish, Left
<1> QED BY <1>1, <1>2, <1>3, <1>4, <1>5, <1>6, <1>7 DEF Loop

\* Nothing else in the system gives the call more to do, but a change of the
\* source.
LEMMA NeverMore ==
  ASSUME IInv, IInv', PagesPerStep # 0, [Next]_vars, [source' = source]_vars, pc # "idle"
  PROVE  Left' <= Left
<1> (IInv => Left \in 0 .. Most /\ Looked \in 1 .. MaxPages)'
  BY LeftIsNatural, PTL
<1>0. /\ Left \in Int /\ Left' \in Int /\ Most \in Int
      /\ source' = source
  <2>1. source' = source
    BY DEF vars, fileVars
  <2> QED BY <2>1, LeftIsNatural, BackupAssumption DEF Most
<1>1. CASE Loop
  BY <1>0, <1>1, LoopAdvances
<1>2. CASE ~Loop
  <2>1. UNCHANGED <<pc, stepRc, nTimeout>> /\ Looked' = Looked
    <3>1. CASE UNCHANGED vars
      BY <3>1 DEF vars, backupVars, Looked
    <3>2. CASE HoldSource \/ HoldTarget \/ ReleaseTarget \/ OwnEnd \/ ReleaseSource \/ OwnCommit
      BY <1>0, <3>2 DEF HoldSource, HoldTarget, ReleaseTarget, OwnEnd, ReleaseSource, OwnCommit,
         backupVars, Looked
    <3>3. ASSUME NEW kind \in {"read", "write"}, OwnBegin(kind)
          PROVE  UNCHANGED <<pc, stepRc, nTimeout>> /\ Looked' = Looked
      <4>1. UNCHANGED <<pc, stepRc, nTimeout>>
        BY <3>3 DEF OwnBegin
      <4>2. (iNext' = Looked /\ stale' = FALSE) \/ UNCHANGED <<iNext, stale>>
        BY <3>3 DEF OwnBegin
      <4> QED BY <4>1, <4>2 DEF Looked
    <3>4. ~OpenFails /\ ~InitFails /\ ~BackupInit
      BY DEF OpenFails, InitFails, BackupInit
    <3> QED BY <1>2, <3>1, <3>2, <3>3, <3>4 DEF Next
  <2>2. Left' = Left
    BY <2>1 DEF Left
  <2> QED BY <1>0, <2>2
<1> QED BY <1>1, <1>2

\* The loop is never without a turn to take: each place in it has an action without
\* a further guard, and a step that cannot read the source answers SQLITE_BUSY.
\* A premise, since ENABLED is out of the prover's reach.
LoopGoesOn == pc # "idle" => ENABLED <<Loop>>_vars

LeavesSource == [][source' = source]_vars
EndsWithin(n) == [](LeavesSource /\ AtMost(n) => <>Back)

\* By induction on what is left to do: each turn of the loop is taken.
LEMMA EndsAfter ==
  ASSUME NEW n \in Nat, PagesPerStep # 0
  PROVE  FairSpec /\ []LoopGoesOn => (EndsWithin(n) => EndsWithin(n + 1))
<1>1. IInv /\ IInv' /\ AtMost(n + 1) /\ [Next]_vars /\ [source' = source]_vars
      => AtMost(n + 1)' \/ Back'
  <2> SUFFICES ASSUME IInv, IInv', AtMost(n + 1), [Next]_vars, [source' = source]_vars
               PROVE  AtMost(n + 1)' \/ Back'
    OBVIOUS
  <2> (IInv => Left \in 0 .. Most /\ Looked \in 1 .. MaxPages)'
    BY LeftIsNatural, PTL
  <2>1. Left' <= Left /\ Left <= n + 1 /\ Left \in Int /\ Left' \in Int
    BY NeverMore, LeftIsNatural, BackupAssumption DEF AtMost, Most
  <2> HIDE DEF Left
  <2> QED BY <2>1 DEF AtMost, Back
<1>2. IInv /\ IInv' /\ AtMost(n + 1) /\ <<Loop>>_vars => AtMost(n)' \/ Back'
  <2> SUFFICES ASSUME IInv, IInv', AtMost(n + 1), Loop PROVE AtMost(n)' \/ Back'
    OBVIOUS
  <2> (IInv => Left \in 0 .. Most /\ Looked \in 1 .. MaxPages)'
    BY LeftIsNatural, PTL
  <2>1. Left' < Left /\ Left <= n + 1 /\ Left \in Int /\ Left' \in Int
    BY LoopAdvances, LeftIsNatural, BackupAssumption DEF AtMost, Most
  <2> QED BY <2>1 DEF AtMost, Back
<1>3. LoopGoesOn /\ AtMost(n + 1) => ENABLED <<Loop>>_vars
  BY DEF LoopGoesOn, AtMost
<1> QED BY <1>1, <1>2, <1>3, Invariant, PTL DEF FairSpec, Spec, EndsWithin, LeavesSource

\* A call of backup or restore comes back once the source is left alone, for
\* files and steps of any size and any limit, except steps of no page: those
\* get SQLITE_OK and copy nothing, for ever.  (LoopGoesOn is about
\* ENABLED; the run checks CopyEnds itself, under the same fairness.)
THEOREM CopyEndsHolds ==
  PagesPerStep # 0 /\ FairSpec /\ []LoopGoesOn => CopyEnds
<1> SUFFICES ASSUME PagesPerStep # 0
             PROVE  FairSpec /\ []LoopGoesOn => CopyEnds
  OBVIOUS
<1>1. FairSpec /\ []LoopGoesOn => EndsWithin(0)
  <2>1. IInv /\ AtMost(0) => FALSE
    BY LeftIsNatural, BackupAssumption DEF AtMost, Left, IInv, TypeOK, Looked
  <2> QED BY <2>1, Invariant, PTL DEF FairSpec, EndsWithin
<1>2. FairSpec /\ []LoopGoesOn => \A n \in Nat : EndsWithin(n)
  <2> SUFFICES ASSUME FairSpec /\ []LoopGoesOn PROVE \A n \in Nat : EndsWithin(n)
    OBVIOUS
  <2>1. PICK f : \A n \in Nat : f[n] = 1 <=> EndsWithin(n)
    <3>1. Mentioned([n \in Nat |-> IF EndsWithin(n) THEN 1 ELSE 0])
      BY DEF Mentioned
    <3>2. \A g : Mentioned(g) => \E f : \A n \in Nat : f[n] = g[n]
      OBVIOUS
    <3> QED BY <3>1, <3>2
  <2>2. f[0] = 1
    BY <1>1, <2>1
  <2>3. \A n \in Nat : f[n] = 1 => f[n + 1] = 1
    BY EndsAfter, <2>1
  <2>4. \A n \in Nat : f[n] = 1
    BY <2>1, <2>2, <2>3, Induction
  <2> QED BY <2>1, <2>4
<1>3. Most \in Nat
  BY BackupAssumption DEF Most
<1>4. FairSpec /\ []LoopGoesOn => EndsWithin(Most)
  BY <1>2, <1>3
<1>5. IInv /\ ~Back => AtMost(Most)
  BY LeftIsNatural, <1>3 DEF AtMost, Back
<1>6. FairSpec /\ EndsWithin(Most) => (<>LeavesSource => (~Back ~> Back))
  BY <1>5, Invariant, PTL DEF FairSpec, EndsWithin, LeavesSource
<1>7. (~Back ~> Back) <=> (pc # "idle" ~> pc = "idle")
  <2>1. (~Back <=> pc # "idle") /\ (Back <=> pc = "idle")
    BY DEF Back
  <2> QED BY <2>1, PTL
<1> QED BY <1>4, <1>6, <1>7 DEF CopyEnds, LeavesSource
-----------------------------------------------------------------------------
(* Steps of no page.                                                       *)

AtTheStart == iNext = 1 /\ stepRc # "DONE" /\ outcome # "copied"

LEMMA ZeroStep ==
  ASSUME PagesPerStep = 0, IInv, AtTheStart, [Next]_vars
  PROVE  AtTheStart' /\ target' = target
<1>0. /\ Len(source) \in Nat \ {0} /\ iNext = 1 /\ Looked = 1
      /\ stepRc # "DONE" /\ outcome # "copied"
  <2>1. Len(source) \in 1 .. MaxPages
    BY ContentIsSeq DEF IInv, TypeOK
  <2> QED BY <2>1, BackupAssumption DEF AtTheStart, Looked
<1>1. LastOfStep(1) = 0
  BY <1>0 DEF LastOfStep
<1> USE DEF AtTheStart, fileVars, backupVars, vars
<1>2. CASE HoldSource \/ ReleaseSource \/ HoldTarget \/ ReleaseTarget
  BY <1>0, <1>2 DEF HoldSource, ReleaseSource, HoldTarget, ReleaseTarget
<1>3. CASE (\E kind \in {"read", "write"} : OwnBegin(kind)) \/ OwnCommit \/ OwnEnd
  BY <1>0, <1>3 DEF OwnBegin, OwnCommit, OwnEnd
<1>4. CASE OpenFails \/ InitFails \/ BackupInit
  BY <1>0, <1>4 DEF OpenFails, InitFails, BackupInit
<1>5. CASE StepBusy \/ StepFails
  BY <1>0, <1>5 DEF StepBusy, StepFails, Fatal
<1>6. CASE StepCopies
  BY <1>0, <1>1, <1>6 DEF StepCopies
<1>7. ~StepDone
  BY <1>0, <1>1 DEF StepDone
<1>8. CASE CallbackReturns \/ Sleep \/ Finish
  BY <1>0, <1>8 DEF CallbackReturns, Sleep, Finish
<1>9. CASE UNCHANGED vars
  BY <1>0, <1>9
<1> QED BY <1>2, <1>3, <1>4, <1>5, <1>6, <1>7, <1>8, <1>9 DEF Next, Loop

\* With steps of no page backup and restore never copy anything: no call ends
\* with a copy, and no step of any call writes to the target.  (sqlite3_backup_step
\* answers SQLITE_OK, so the loop goes on until it fails for another reason.)
THEOREM ZeroPagesCopyNothing ==
  PagesPerStep = 0 /\ Spec => [](outcome # "copied") /\ [][target' = target]_vars
<1> SUFFICES ASSUME PagesPerStep = 0
             PROVE  Spec => [](outcome # "copied") /\ [][target' = target]_vars
  OBVIOUS
<1>1. Init => AtTheStart
  BY DEF Init, AtTheStart
<1>2. IInv /\ AtTheStart /\ [Next]_vars => AtTheStart' /\ [target' = target]_vars
  BY ZeroStep
<1>3. AtTheStart => outcome # "copied"
  BY DEF AtTheStart
<1> QED BY <1>1, <1>2, <1>3, Invariant, PTL DEF Spec

-----------------------------------------------------------------------------
(* What is left of the documented return codes for restore, whose false      *)
(* success RestoreReported shows.                                            *)

\* An error code is never the answer to a copy that was completed.
NoFalseAlarm == pc = "idle" /\ returned # "OK" => outcome # "copied"

LEMMA AlarmStep == ASSUME IInv, NoFalseAlarm, [Next]_vars PROVE NoFalseAlarm'
<1>1. CASE Finish
  <2>1. outcome' = "copied" => stepRc = "DONE"
    BY <1>1 DEF Finish, IInv, Control
  <2>2. outcome' = "copied" => returned' = "OK"
    BY <1>1, <2>1 DEF Finish, PFileCode, TargetCode, SourceCode
  <2> QED BY <2>2 DEF NoFalseAlarm
<1>2. CASE OpenFails \/ InitFails \/ BackupInit \/ StepBusy \/ StepCopies \/ StepDone
           \/ StepFails \/ CallbackReturns \/ Sleep
  <2>1. pc' # "idle"
    BY <1>2 DEF OpenFails, InitFails, BackupInit, StepBusy, CountBusy, StepCopies, StepDone,
       StepFails, CallbackReturns, Sleep
  <2> QED BY <2>1 DEF NoFalseAlarm
<1>3. CASE \/ HoldSource \/ ReleaseSource \/ HoldTarget \/ ReleaseTarget
           \/ (\E kind \in {"read", "write"} : OwnBegin(kind)) \/ OwnCommit \/ OwnEnd
           \/ UNCHANGED vars
  <2>1. UNCHANGED <<pc, returned, outcome>>
    BY <1>3 DEF HoldSource, ReleaseSource, HoldTarget, ReleaseTarget, OwnBegin, OwnCommit,
       OwnEnd, vars
  <2> QED BY <2>1 DEF NoFalseAlarm
<1> QED BY <1>1, <1>2, <1>3 DEF Next, Loop

\* For backup and for restore: a caller that gets an error code may retry, the
\* target has not been replaced by this call.  Only a success of restore is not
\* to be believed.
THEOREM NoFalseAlarmHolds == Spec => []NoFalseAlarm
<1>1. Init => NoFalseAlarm
  BY DEF Init, NoFalseAlarm
<1> QED BY <1>1, AlarmStep, Invariant, PTL DEF Spec

=============================================================================
