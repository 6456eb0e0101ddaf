----------------------------- MODULE LibraryLoader -----------------------------
(* Loading the native library: NativeDB.load() and SQLiteJDBCLoader, called   *)
(* by the threads of several virtual machines that share org.sqlite.tmpdir.   *)
(* A thread that extracts the library writes a file of its own (its name has  *)
(* a random part), known here by the thread, and a lock file beside it.       *)
(*                                                                            *)
(* isLoaded and loadSucceeded are plain static fields that load() reads and   *)
(* writes without a lock: a read may return the value of before any write of  *)
(* another thread.  A machine may exit, which runs the hook of deleteOnExit   *)
(* beside its threads, and may be killed at any step.  A thread calls load()  *)
(* once.                                                                      *)
EXTENDS FiniteSets

CONSTANTS
  Jvms,      \* virtual machines with the same temporary directory
  Threads,   \* threads that open a first connection, of all machines
  JvmOf,     \* the machine of a thread
  Mortal,    \* the machines that may end (a bound for TLC)
  NoThread   \* the monitor of SQLiteJDBCLoader is free

ASSUME LoaderAssumption ==
  JvmOf \in [Threads -> Jvms] /\ IsFiniteSet(Threads) /\ NoThread \notin Threads

VARIABLES
  lib, lck,        \* the libraries and the lock files in the directory
  onExit,          \* the files registered with deleteOnExit
  jvm,             \* a machine is running, exiting (its hooks run) or gone
  mon,             \* the holder of the monitor of SQLiteJDBCLoader
  extracted,       \* SQLiteJDBCLoader.extracted
  linked,          \* the libraries linked into the machine
  isLoaded, loadSucceeded,   \* the statics of NativeDB
  pc,              \* where a thread is in load()
  todo, doomed     \* cleanup(): paths listed and not tested yet; path to delete

fileVars == <<lib, lck, onExit>>
staticVars == <<isLoaded, loadSucceeded>>
cleanupVars == <<todo, doomed>>
loaderVars == <<mon, extracted, linked>>
vars == <<fileVars, jvm, loaderVars, staticVars, pc, cleanupVars>>

\* A library found on org.sqlite.lib.path or java.library.path.
Installed == NoThread

Extracting == {"create", "copy", "register", "registerFailed", "compare", "link"}
InMonitor == {"list", "cleanup", "fallback", "leave", "throw"} \cup Extracting
AtRest == {"idle", "true", "false", "threw"}
PCs == {"wait", "assign", "finally", "finallyThrow"} \cup InMonitor \cup AtRest

TypeOK ==
  /\ lib \subseteq Threads /\ lck \subseteq Threads /\ onExit \subseteq Threads
  /\ jvm \in [Jvms -> {"running", "exiting", "gone"}]
  /\ mon \in [Jvms -> Threads \cup {NoThread}]
  /\ extracted \in [Jvms -> BOOLEAN]
  /\ linked \in [Jvms -> SUBSET (Threads \cup {Installed})]
  /\ isLoaded \in [Jvms -> BOOLEAN] /\ loadSucceeded \in [Jvms -> BOOLEAN]
  /\ pc \in [Threads -> PCs]
  /\ todo \in [Threads -> SUBSET Threads] /\ doomed \in [Threads -> SUBSET Threads]

Init ==
  /\ lib = {} /\ lck = {} /\ onExit = {}
  /\ jvm = [j \in Jvms |-> "running"]
  /\ mon = [j \in Jvms |-> NoThread]
  /\ extracted = [j \in Jvms |-> FALSE]
  /\ linked = [j \in Jvms |-> {}]
  /\ isLoaded = [j \in Jvms |-> FALSE] /\ loadSucceeded = [j \in Jvms |-> FALSE]
  /\ pc = [t \in Threads |-> "idle"]
  /\ todo = [t \in Threads |-> {}] /\ doomed = [t \in Threads |-> {}]

Goto(t, place) == pc' = [pc EXCEPT ![t] = place]

\* A step of thread t at a place of load(), while its machine lives.
At(t, place) == pc[t] = place /\ jvm[JvmOf[t]] # "gone"

-----------------------------------------------------------------------------
(* NativeDB.load() before and after SQLiteJDBCLoader.initialize().         *)

LoadAgain(t) ==
  /\ At(t, "idle") /\ isLoaded[JvmOf[t]]
  /\ \E seen \in {FALSE, loadSucceeded[JvmOf[t]]} : Goto(t, IF seen THEN "true" ELSE "false")
  /\ UNCHANGED <<fileVars, jvm, loaderVars, staticVars, cleanupVars>>

\* Also when isLoaded is set already and the thread does not see it yet.
LoadFirst(t) ==
  /\ At(t, "idle")
  /\ Goto(t, "wait")
  /\ UNCHANGED <<fileVars, jvm, loaderVars, staticVars, cleanupVars>>

Assign(t) ==
  /\ At(t, "assign")
  /\ loadSucceeded' = [loadSucceeded EXCEPT ![JvmOf[t]] = TRUE]
  /\ Goto(t, "finally")
  /\ UNCHANGED <<fileVars, jvm, loaderVars, isLoaded, cleanupVars>>

\* MUTANT: a failure resets loadSucceeded.
FinallyResets(t) ==
  /\ At(t, "finally") \/ At(t, "finallyThrow")
  /\ isLoaded' = [isLoaded EXCEPT ![JvmOf[t]] = TRUE]
  /\ loadSucceeded' = [loadSucceeded EXCEPT ![JvmOf[t]] = @ /\ pc[t] = "finally"]
  /\ Goto(t, IF pc[t] = "finally" THEN "true" ELSE "threw")
  /\ UNCHANGED <<fileVars, jvm, loaderVars, cleanupVars>>

Finally(t) ==
  /\ At(t, "finally") \/ At(t, "finallyThrow")
  /\ isLoaded' = [isLoaded EXCEPT ![JvmOf[t]] = TRUE]
  /\ Goto(t, IF pc[t] = "finally" THEN "true" ELSE "threw")
  /\ UNCHANGED <<fileVars, jvm, loaderVars, loadSucceeded, cleanupVars>>

-----------------------------------------------------------------------------
(* SQLiteJDBCLoader.initialize(), a synchronized method, and cleanup().    *)

\* MUTANT: initialize() is not synchronized.
EnterUnsynchronized(t) ==
  /\ At(t, "wait")
  /\ mon' = [mon EXCEPT ![JvmOf[t]] = t]
  /\ Goto(t, IF extracted[JvmOf[t]] THEN "leave" ELSE "list")
  /\ UNCHANGED <<fileVars, jvm, extracted, linked, staticVars, cleanupVars>>

Enter(t) ==
  /\ At(t, "wait") /\ mon[JvmOf[t]] = NoThread
  /\ mon' = [mon EXCEPT ![JvmOf[t]] = t]
  /\ Goto(t, IF extracted[JvmOf[t]] THEN "leave" ELSE "list")
  /\ UNCHANGED <<fileVars, jvm, extracted, linked, staticVars, cleanupVars>>

\* MUTANT: an exception does not release the monitor (a lock without finally).
LeaveLocked(t) ==
  /\ At(t, "leave") \/ At(t, "throw")
  /\ mon' = [mon EXCEPT ![JvmOf[t]] = IF pc[t] = "leave" THEN NoThread ELSE @]
  /\ Goto(t, IF pc[t] = "leave" THEN "assign" ELSE "finallyThrow")
  /\ UNCHANGED <<fileVars, jvm, extracted, linked, staticVars, cleanupVars>>

Leave(t) ==
  /\ At(t, "leave") \/ At(t, "throw")
  /\ mon' = [mon EXCEPT ![JvmOf[t]] = NoThread]
  /\ Goto(t, IF pc[t] = "leave" THEN "assign" ELSE "finallyThrow")
  /\ UNCHANGED <<fileVars, jvm, extracted, linked, staticVars, cleanupVars>>

\* The directory may not be readable: cleanup() logs that and returns.  (A library
\* that appears during the listing has its lock file: listed or not, it stays.)
List(t) ==
  /\ At(t, "list")
  /\ \E listed \in {{}, lib} : todo' = [todo EXCEPT ![t] = listed]
  /\ Goto(t, "cleanup")
  /\ UNCHANGED <<fileVars, jvm, loaderVars, staticVars, doomed>>

TestLock(t) ==
  /\ At(t, "cleanup") /\ doomed[t] = {}
  /\ \E f \in todo[t] :
       /\ todo' = [todo EXCEPT ![t] = @ \ {f}]
       /\ doomed' = [doomed EXCEPT ![t] = {f} \ lck]
  /\ UNCHANGED <<fileVars, jvm, loaderVars, staticVars, pc>>

\* The deletion may fail, which is logged.
Delete(t) ==
  /\ At(t, "cleanup") /\ doomed[t] # {}
  /\ lib' \in {lib, lib \ doomed[t]}
  /\ doomed' = [doomed EXCEPT ![t] = {}]
  /\ UNCHANGED <<lck, onExit, jvm, loaderVars, staticVars, pc, todo>>

CleanupReturns(t) ==
  /\ At(t, "cleanup") /\ todo[t] = {} /\ doomed[t] = {}
  /\ Goto(t, "create")
  /\ UNCHANGED <<fileVars, jvm, loaderVars, staticVars, cleanupVars>>

-----------------------------------------------------------------------------
(* loadSQLiteNativeLibrary() and extractAndLoadLibraryFile().              *)

Links(t, library) ==
  /\ linked' = [linked EXCEPT ![JvmOf[t]] = @ \cup {library}]
  /\ extracted' = [extracted EXCEPT ![JvmOf[t]] = TRUE]
  /\ Goto(t, "leave")

\* org.sqlite.lib.path is tried before the extraction, the others after it.
LinkInstalled(t) ==
  /\ At(t, "create") \/ At(t, "fallback")
  /\ Links(t, Installed)
  /\ UNCHANGED <<fileVars, jvm, mon, staticVars, cleanupVars>>

\* The archive has no library for this system.
NoNativeLib(t) ==
  /\ At(t, "create")
  /\ Goto(t, "fallback")
  /\ UNCHANGED <<fileVars, jvm, loaderVars, staticVars, cleanupVars>>

NotFound(t) ==
  /\ At(t, "fallback")
  /\ Goto(t, "throw")
  /\ UNCHANGED <<fileVars, jvm, loaderVars, staticVars, cleanupVars>>

CreateLock(t) ==
  /\ At(t, "create")
  /\ \/ lck' = lck \cup {t} /\ Goto(t, "copy")
     \/ lck' = lck /\ Goto(t, "registerFailed")
  /\ UNCHANGED <<lib, onExit, jvm, loaderVars, staticVars, cleanupVars>>

\* MUTANT: the lock file goes away as soon as the library is copied.
CopyThenLock(t) ==
  /\ At(t, "copy")
  /\ lib' = lib \cup {t} /\ lck' = lck \ {t}
  /\ Goto(t, "register")
  /\ UNCHANGED <<onExit, jvm, loaderVars, staticVars, cleanupVars>>

\* A copy that fails leaves a part of the file, or none.
Copy(t) ==
  /\ At(t, "copy")
  /\ \/ lib' = lib \cup {t} /\ Goto(t, "register")
     \/ lib' \in {lib, lib \cup {t}} /\ Goto(t, "registerFailed")
  /\ UNCHANGED <<lck, onExit, jvm, loaderVars, staticVars, cleanupVars>>

\* The finally block.  Once the hooks run, deleteOnExit throws.  An IOException
\* goes on to the other paths; a resource that is gone is another exception.
Register(t) ==
  /\ At(t, "register") \/ At(t, "registerFailed")
  /\ IF jvm[JvmOf[t]] = "running"
     THEN onExit' = onExit \cup {t}
          /\ \/ pc[t] = "register" /\ Goto(t, "compare")
             \/ pc[t] = "registerFailed" /\ Goto(t, "fallback")
             \/ pc[t] = "registerFailed" /\ Goto(t, "throw")
     ELSE onExit' = onExit /\ Goto(t, "throw")
  /\ UNCHANGED <<lib, lck, jvm, loaderVars, staticVars, cleanupVars>>

\* A copy that differs is a FileException, which is no IOException and leaves
\* initialize(); a copy that cannot be read goes on to the other paths.
Compare(t) ==
  /\ At(t, "compare")
  /\ \/ t \in lib /\ Goto(t, "link")
     \/ t \in lib /\ Goto(t, "throw")
     \/ Goto(t, "fallback")
  /\ UNCHANGED <<fileVars, jvm, loaderVars, staticVars, cleanupVars>>

Link(t) ==
  /\ At(t, "link") /\ t \in lib
  /\ Links(t, t)
  /\ UNCHANGED <<fileVars, jvm, mon, staticVars, cleanupVars>>

LinkFails(t) ==
  /\ At(t, "link")
  /\ Goto(t, "fallback")
  /\ UNCHANGED <<fileVars, jvm, loaderVars, staticVars, cleanupVars>>

-----------------------------------------------------------------------------
(* The end of a machine.                                                   *)

Exit(j) ==
  /\ j \in Mortal /\ jvm[j] = "running"
  /\ jvm' = [jvm EXCEPT ![j] = "exiting"]
  /\ UNCHANGED <<fileVars, loaderVars, staticVars, pc, cleanupVars>>

\* The hook deletes in the reverse of the order of registration: the lock
\* file first, then the library (which a system may refuse, being in use).
DeleteOnExit(j) ==
  /\ jvm[j] = "exiting"
  /\ \E f \in onExit :
       /\ JvmOf[f] = j
       /\ \/ f \in lck /\ lck' = lck \ {f} /\ UNCHANGED <<lib, onExit>>
          \/ /\ f \notin lck
             /\ lib' \in {lib, lib \ {f}}
             /\ onExit' = onExit \ {f}
             /\ UNCHANGED lck
  /\ UNCHANGED <<jvm, loaderVars, staticVars, pc, cleanupVars>>

\* The machine has ended, or is killed: its memory is gone, the files stay.
Gone(j) ==
  LET Forget(state, value) == [t \in Threads |-> IF JvmOf[t] = j THEN value ELSE state[t]]
  IN
  /\ j \in Mortal /\ jvm[j] # "gone"
  /\ jvm' = [jvm EXCEPT ![j] = "gone"]
  /\ mon' = [mon EXCEPT ![j] = NoThread]
  /\ extracted' = [extracted EXCEPT ![j] = FALSE]
  /\ linked' = [linked EXCEPT ![j] = {}]
  /\ isLoaded' = [isLoaded EXCEPT ![j] = FALSE]
  /\ loadSucceeded' = [loadSucceeded EXCEPT ![j] = FALSE]
  /\ onExit' = {f \in onExit : JvmOf[f] # j}
  /\ pc' = Forget(pc, "idle")
  /\ todo' = Forget(todo, {}) /\ doomed' = Forget(doomed, {})
  /\ UNCHANGED <<lib, lck>>

-----------------------------------------------------------------------------
Step(t) ==
  \/ LoadAgain(t) \/ LoadFirst(t) \/ Enter(t) \/ List(t) \/ TestLock(t) \/ Delete(t)
  \/ CleanupReturns(t) \/ CreateLock(t) \/ Copy(t) \/ Register(t) \/ Compare(t)
  \/ Link(t) \/ LinkFails(t) \/ LinkInstalled(t) \/ NoNativeLib(t) \/ NotFound(t)
  \/ Leave(t) \/ Assign(t) \/ Finally(t)

End(j) == Exit(j) \/ DeleteOnExit(j) \/ Gone(j)

Next == (\E t \in Threads : Step(t)) \/ (\E j \in Jvms : End(j))

\* A thread that can take a step is scheduled at some time.
Scheduled(t) == WF_vars(Step(t))
Spec == Init /\ [][Next]_vars /\ \A t \in Threads : Scheduled(t)

-----------------------------------------------------------------------------
(* Properties.                                                             *)

\* The library a running machine has copied, or has linked, is not deleted by
\* the cleanup() of another machine, although its test for the lock file and
\* its deletion are two steps.
LibraryKept ==
  \A t \in Threads :
    /\ jvm[JvmOf[t]] = "running"
    /\ pc[t] \in {"compare", "link"} \/ t \in linked[JvmOf[t]]
    => t \in lib

\* Two copies of SQLite in one process break each other's file locks: however
\* many threads open a first connection, a machine links one library.
OneLibrary == \A j \in Jvms : \A m, n \in linked[j] : m = n

\* When no thread is inside load() the static of NativeDB says what happened:
\* loadSucceeded holds exactly in the machines that have linked the library,
\* also after some thread failed and another tried again.
Settled ==
  \A j \in Jvms :
    (\A t \in Threads : JvmOf[t] = j => pc[t] \in AtRest)
    => loadSucceeded[j] = (linked[j] # {})

\* A thread inside load() waits for nothing but the monitor of SQLiteJDBCLoader.
MayStep(t) ==
  /\ pc[t] \notin AtRest /\ jvm[JvmOf[t]] # "gone"
  /\ pc[t] = "wait" => mon[JvmOf[t]] = NoThread

Proceeds(t) == ENABLED <<Step(t)>>_vars

SomeoneMayStep ==
  \A t \in Threads :
    pc[t] \notin AtRest => \E u \in Threads : JvmOf[u] = JvmOf[t] /\ MayStep(u)

\* A thread inside load() may go on or waits for one of its machine that may, and
\* who may go on finds a step to take: whatever failed before, whatever other
\* machines did to the directory, and also when hooks run already.
NoDeadlock ==
  /\ SomeoneMayStep
  /\ \A t \in Threads : MayStep(t) => Proceeds(t)

\* Every call of load() returns or throws, unless the machine ends first (and
\* the thread is "idle" for good).
EveryLoadReturns == \A t \in Threads : pc[t] = "wait" ~> pc[t] \in AtRest

=============================================================================
