----------------------------- MODULE OnlineBackup -----------------------------
(***************************************************************************)
(* "backup to" and "restore from": the native copy loop over               *)
(* sqlite3_backup_step, with the file locks of other connections, commits  *)
(* of other connections on the source (the copy starts again) and work the *)
(* progress observer does on the connection that is being backed up (the   *)
(* pages copied already are brought up to date).                           *)
(*                                                                         *)
(* A call holds the monitor of the DB object from start to end, so no      *)
(* other thread of the same connection appears here.  A file is a          *)
(* non-empty sequence of pages; a new target file is empty.                *)
(***************************************************************************)
EXTENDS Integers, Sequences

CONSTANTS
  Operations,    \* the calls the connection makes: "backup", "restore"
  Data,          \* contents of a page
  MaxPages,      \* bound on the size of a file
  PagesPerStep,  \* pages per step; negative: all at once
  NTimeoutLimit  \* SQLITE_BUSY answers the loop puts up with

ASSUME BackupAssumption ==
  /\ Operations \subseteq {"backup", "restore"}
  /\ MaxPages \in Nat
  /\ PagesPerStep \in Int
  /\ NTimeoutLimit \in Nat

Contents == UNION {[1 .. n -> Data] : n \in 1 .. MaxPages}
Files    == UNION {[1 .. n -> Data] : n \in 0 .. MaxPages}

VARIABLES
  op,          \* the call this connection makes
  pc,          \* where it stands in the call
  \* the two files
  source,      \* committed content of the file copied from
  target,      \* committed content of the file copied to
  sourceHeld,  \* another connection holds a lock that keeps readers out
  targetHeld,  \* another connection holds a lock on the target
  ownTxn,      \* transaction of the caller's own connection on its file
  \* sqlite3_backup
  stale,       \* the source changed since its pager last looked
  iNext,       \* next page to copy
  bDestLocked, \* the exclusive transaction on the target is open
  copy,        \* the target as that transaction sees it
  stepRc,      \* result of the last sqlite3_backup_step, of backup_init or open
  \* copyLoop and the caller
  nTimeout,    \* SQLITE_BUSY answers so far
  returned,    \* the code the native function returned
  outcome      \* history: what really became of the call

fileVars   == <<source, target, sourceHeld, targetHeld, ownTxn>>
backupVars == <<stale, iNext, bDestLocked, copy, stepRc>>
vars       == <<op, pc, fileVars, backupVars, nTimeout, returned, outcome>>

PCs   == {"idle", "step", "callback", "sleep", "finish"}
Fatal == {"IOERR", "ERROR"}
Codes == {"OK", "BUSY", "DONE", "CANTOPEN"} \cup Fatal

TypeOK ==
  /\ op \in Operations /\ pc \in PCs
  /\ source \in Contents /\ target \in Files
  /\ sourceHeld \in BOOLEAN /\ targetHeld \in BOOLEAN
  /\ ownTxn \in {"none", "read", "write"}
  /\ stale \in BOOLEAN /\ iNext \in 1 .. MaxPages /\ bDestLocked \in BOOLEAN
  /\ copy \in Files /\ stepRc \in Codes
  /\ nTimeout \in 0 .. NTimeoutLimit + 1
  /\ returned \in Codes \ {"DONE"}
  /\ outcome \in {"none", "running", "copied", "failed"}

Init ==
  /\ op \in Operations /\ pc = "idle"
  /\ source \in Contents /\ target \in Files
  /\ sourceHeld = FALSE /\ targetHeld = FALSE /\ ownTxn = "none"
  /\ stale = FALSE /\ iNext = 1 /\ bDestLocked = FALSE /\ copy = <<>>
  /\ stepRc = "OK" /\ nTimeout = 0 /\ returned = "OK" /\ outcome = "none"

-----------------------------------------------------------------------------
(* Other connections and processes.                                        *)

\* The caller's connection has the source file (backup) open.
OwnSource == op = "backup"

HoldSource ==
  /\ ~sourceHeld /\ ~(OwnSource /\ ownTxn = "write")
  /\ sourceHeld' = TRUE
  /\ UNCHANGED <<op, pc, source, target, targetHeld, ownTxn, backupVars,
                 nTimeout, returned, outcome>>

\* It commits, once no reader is left, or rolls back.
ReleaseSource ==
  /\ sourceHeld /\ sourceHeld' = FALSE
  /\ \/ /\ ~(OwnSource /\ ownTxn = "read")
        /\ source' \in Contents \ {source} /\ stale' = TRUE
     \/ UNCHANGED <<source, stale>>
  /\ UNCHANGED <<op, pc, target, targetHeld, ownTxn, iNext, bDestLocked, copy,
                 stepRc, nTimeout, returned, outcome>>

HoldTarget ==
  /\ ~targetHeld /\ ~bDestLocked /\ targetHeld' = TRUE
  /\ UNCHANGED <<op, pc, source, target, sourceHeld, ownTxn, backupVars,
                 nTimeout, returned, outcome>>

ReleaseTarget ==
  /\ targetHeld /\ targetHeld' = FALSE
  /\ UNCHANGED <<op, pc, source, target, sourceHeld, ownTxn, backupVars,
                 nTimeout, returned, outcome>>

-----------------------------------------------------------------------------
(* SQL on the caller's own connection: between calls, and in the progress  *)
(* observer of a backup.                                                   *)

OwnMayRun == pc = "idle" \/ (pc = "callback" /\ OwnSource)

\* MUTANT: the restart is missed.
LookedAway == iNext

\* A lock on the source makes its pager look: a changed file restarts the
\* copy (sqlite3BackupRestart).
Looked == IF stale THEN 1 ELSE iNext

OwnBegin(kind) ==
  /\ OwnMayRun /\ ownTxn = "none"
  /\ ownTxn' = kind
  /\ IF OwnSource
     THEN ~sourceHeld /\ iNext' = Looked /\ stale' = FALSE
     ELSE UNCHANGED <<iNext, stale>>
  /\ UNCHANGED <<op, pc, source, target, sourceHeld, targetHeld, bDestLocked,
                 copy, stepRc, nTimeout, returned, outcome>>

\* MUTANT: the callback is not registered.
UpdatedNever(file, s) == file

\* The pages already copied are copied again (sqlite3BackupUpdate).
Updated(file, s) ==
  [p \in 1 .. Len(file) |-> IF p < iNext /\ p <= Len(s) THEN s[p] ELSE file[p]]

OwnCommit ==
  /\ OwnMayRun /\ OwnSource /\ ownTxn = "write"
  /\ ownTxn' = "none"
  /\ source' \in Contents
  /\ copy' = IF bDestLocked THEN Updated(copy, source') ELSE copy
  /\ UNCHANGED <<op, pc, target, sourceHeld, targetHeld, stale, iNext,
                 bDestLocked, stepRc, nTimeout, returned, outcome>>

\* A reader ends, or a writer rolls back.
OwnEnd ==
  /\ OwnMayRun /\ ownTxn # "none" /\ ownTxn' = "none"
  /\ UNCHANGED <<op, pc, source, target, sourceHeld, targetHeld, backupVars,
                 nTimeout, returned, outcome>>

-----------------------------------------------------------------------------
(* The native call.                                                        *)

\* sqlite3_open_v2 on the other file fails.
OpenFails ==
  /\ pc = "idle"
  /\ pc' = "finish" /\ stepRc' = "CANTOPEN" /\ outcome' = "running"
  /\ UNCHANGED <<op, fileVars, stale, iNext, bDestLocked, copy, nTimeout, returned>>

\* sqlite3_backup_init gives no backup object for an unknown database name,
\* or for a restore into a database the connection has a transaction on; the
\* error is left in the handle of the target.
InitFails ==
  /\ pc = "idle"
  /\ pc' = "finish" /\ stepRc' = "ERROR" /\ outcome' = "running"
  /\ UNCHANGED <<op, fileVars, stale, iNext, bDestLocked, copy, nTimeout, returned>>

BackupInit ==
  /\ pc = "idle" /\ (OwnSource \/ ownTxn = "none")
  /\ pc' = "step" /\ outcome' = "running"
  /\ iNext' = 1 /\ stale' = FALSE /\ stepRc' = "OK" /\ nTimeout' = 0
  /\ UNCHANGED <<op, fileVars, bDestLocked, copy, returned>>

\* The source can be read: not while the connection itself writes to it, and
\* a new reader not while another connection commits.
SourceReadable ==
  IF OwnSource /\ ownTxn # "none" THEN ownTxn = "read" ELSE ~sourceHeld

\* MUTANT: the increment is lost.
CountBusyNever ==
  /\ nTimeout' = nTimeout
  /\ pc' = IF nTimeout >= NTimeoutLimit THEN "finish" ELSE "sleep"

\* SQLITE_BUSY; the loop counts it, over the whole copy.
CountBusy ==
  /\ nTimeout' = nTimeout + 1
  /\ pc' = IF nTimeout >= NTimeoutLimit THEN "finish" ELSE "sleep"

StepBusy ==
  /\ pc = "step"
  /\ \/ ~SourceReadable /\ UNCHANGED <<iNext, stale>>
     \/ /\ SourceReadable /\ ~bDestLocked /\ targetHeld
        /\ iNext' = Looked /\ stale' = FALSE
  /\ stepRc' = "BUSY" /\ CountBusy
  /\ UNCHANGED <<op, fileVars, bDestLocked, copy, returned, outcome>>

\* The last page of a step that starts at page p.
LastOfStep(p) ==
  IF PagesPerStep < 0 \/ p + PagesPerStep > Len(source)
  THEN Len(source) ELSE p + PagesPerStep - 1

\* The target after pages p..q of the source are written over it.
Overwritten(file, p, q) ==
  [i \in 1 .. (IF q > Len(file) THEN q ELSE Len(file)) |->
     IF i \in p .. q THEN source[i] ELSE file[i]]

Truncated(file, n) == [i \in 1 .. n |-> file[i]]

Working == IF bDestLocked THEN copy ELSE target

CanCopy == pc = "step" /\ SourceReadable /\ (bDestLocked \/ ~targetHeld)

\* SQLITE_OK: pages are left.
StepCopies ==
  /\ CanCopy /\ LastOfStep(Looked) < Len(source)
  /\ copy' = Overwritten(Working, Looked, LastOfStep(Looked))
  /\ iNext' = LastOfStep(Looked) + 1
  /\ stale' = FALSE /\ bDestLocked' = TRUE
  /\ stepRc' = "OK" /\ pc' = "callback"
  /\ UNCHANGED <<op, fileVars, nTimeout, returned, outcome>>

\* SQLITE_DONE: the target is cut to size and committed.
StepDone ==
  /\ CanCopy /\ LastOfStep(Looked) = Len(source)
  /\ target' = Truncated(Overwritten(Working, Looked, Len(source)), Len(source))
  /\ stale' = FALSE /\ bDestLocked' = FALSE /\ copy' = <<>> /\ iNext' = 1
  /\ stepRc' = "DONE" /\ pc' = "callback" /\ outcome' = "copied"
  /\ UNCHANGED <<op, source, sourceHeld, targetHeld, ownTxn, nTimeout, returned>>

\* Any other code ends the loop.
StepFails ==
  /\ pc = "step" /\ SourceReadable
  /\ stepRc' \in Fatal /\ pc' = "finish"
  /\ UNCHANGED <<op, fileVars, stale, iNext, bDestLocked, copy, nTimeout,
                 returned, outcome>>

\* The progress observer returns.
CallbackReturns ==
  /\ pc = "callback"
  /\ pc' = IF stepRc = "DONE" THEN "finish" ELSE "step"
  /\ UNCHANGED <<op, fileVars, backupVars, nTimeout, returned, outcome>>

Sleep ==
  /\ pc = "sleep" /\ pc' = "step"
  /\ UNCHANGED <<op, fileVars, backupVars, nTimeout, returned, outcome>>

TargetCode == IF stepRc = "DONE" THEN "OK" ELSE stepRc
SourceCode == "OK"

\* MUTANT: backup asks the handle of the source.
PFileCodeOfRestore ==
  IF stepRc = "CANTOPEN" THEN TargetCode ELSE SourceCode

\* sqlite3_backup_finish leaves its result in the handle of the target; both
\* functions return the error code of the handle they opened themselves,
\* which is the target of a backup and the source of a restore.
PFileCode ==
  IF stepRc = "CANTOPEN" \/ op = "backup" THEN TargetCode ELSE SourceCode

Finish ==
  /\ pc = "finish" /\ pc' = "idle"
  /\ returned' = PFileCode
  /\ outcome' = IF outcome = "copied" THEN "copied" ELSE "failed"
  /\ stale' = FALSE /\ iNext' = 1 /\ bDestLocked' = FALSE /\ copy' = <<>>
  /\ stepRc' = "OK" /\ nTimeout' = 0
  /\ UNCHANGED <<op, fileVars>>

Loop == StepBusy \/ StepCopies \/ StepDone \/ StepFails
        \/ CallbackReturns \/ Sleep \/ Finish

Next ==
  \/ HoldSource \/ ReleaseSource \/ HoldTarget \/ ReleaseTarget
  \/ (\E kind \in {"read", "write"} : OwnBegin(kind)) \/ OwnCommit \/ OwnEnd
  \/ OpenFails \/ InitFails \/ BackupInit
  \/ Loop

Spec == Init /\ [][Next]_vars

\* The native thread goes on, and the observer returns.
FairSpec == Spec /\ WF_vars(Loop)

-----------------------------------------------------------------------------
(* Properties.                                                             *)

\* The pages copied so far are those of the committed source, unless its
\* change has yet to be noticed, and then they will all be copied again.
CopyInSync ==
  bDestLocked /\ ~stale =>
    \A p \in 1 .. iNext - 1 : p <= Len(source) => copy[p] = source[p]

\* The target goes from one content to the whole of one committed content of
\* the source, or keeps what it had, whatever happened on the way.
CopiesAtomically == INSTANCE AtomicCopy
KeepsPromise == CopiesAtomically!Spec

\* "If the backup process is successfully completed, SQLITE_OK is returned.
\* Otherwise ... an SQLite error code is returned": for backup.
BackupReported ==
  op = "backup" /\ outcome \in {"copied", "failed"} /\ pc = "idle"
  => (returned = "OK" <=> outcome = "copied")

\* A call comes back, whatever locks others keep, once the source is left
\* alone: a writer that commits between any two steps makes the copy start
\* again for ever, and those restarts are not counted.
CopyEnds ==
  <>[][source' = source]_vars => (pc # "idle" ~> pc = "idle")

-----------------------------------------------------------------------------
(* What a comment says, and the code does not do.                          *)

\* The same sentence, for restore.
RestoreReported ==
  op = "restore" /\ pc = "idle" /\ returned = "OK" => outcome # "failed"

=============================================================================
