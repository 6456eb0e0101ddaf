-------------------------- MODULE LibraryLoaderProofs --------------------------
(* Proofs about LibraryLoader, for any machines and threads.                  *)
EXTENDS LibraryLoader, FiniteSetTheorems, TLAPS

\* The monitor of SQLiteJDBCLoader is held by the one thread inside it.
Monitor == \A t \in Threads : pc[t] \in InMonitor => mon[JvmOf[t]] = t

\* While a machine runs, every path of a library of its threads that is in the
\* directory, or that some cleanup() has listed, has its lock file, so that no
\* cleanup() is about to delete it.
Locked ==
  \A f \in Threads :
    jvm[JvmOf[f]] = "running" =>
      /\ pc[f] \in {"copy", "register", "compare", "link"} => f \in lck
      /\ f \in lib => f \in lck
      /\ \A t \in Threads : (f \in todo[t] => f \in lck) /\ f \notin doomed[t]

\* The library is in the directory from the copy on, for good.
Copied ==
  \A t \in Threads :
    /\ jvm[JvmOf[t]] = "running"
    /\ pc[t] \in {"register", "compare", "link"} \/ t \in linked[JvmOf[t]]
    => t \in lib

\* "extracted" says whether a library is linked; none is looked for after that.
Once ==
  /\ \A j \in Jvms : extracted[j] = (linked[j] # {})
  /\ \A t \in Threads :
       pc[t] \in {"list", "cleanup", "fallback", "throw"} \cup Extracting
       => ~extracted[JvmOf[t]]

\* A thread that has linked the library, or found it linked, is on its way to
\* loadSucceeded = TRUE.
OnTheWay ==
  /\ \A j \in Jvms : extracted[j] =>
       loadSucceeded[j] \/ \E t \in Threads : JvmOf[t] = j /\ pc[t] \in {"leave", "assign"}
  /\ \A j \in Jvms : loadSucceeded[j] => extracted[j]
  /\ \A t \in Threads : pc[t] \in {"leave", "assign", "finally"} => extracted[JvmOf[t]]

IInv == TypeOK /\ Monitor /\ Locked /\ Copied /\ Once /\ OnTheWay /\ OneLibrary

LEMMA Initially == ASSUME LoaderAssumption, Init PROVE IInv
  BY DEF LoaderAssumption, Init, IInv, TypeOK, Monitor, Locked, Copied, Once, OnTheWay,
         OneLibrary, PCs, InMonitor, Extracting, AtRest

-----------------------------------------------------------------------------
(* Steps of a thread.                                                       *)

\* The steps that only go to another place of load().
Moves(t) ==
  \/ LoadAgain(t) \/ LoadFirst(t) \/ CleanupReturns(t)
  \/ Compare(t) \/ LinkFails(t) \/ NoNativeLib(t) \/ NotFound(t)

LEMMA TypesKept ==
  ASSUME LoaderAssumption, IInv, NEW t \in Threads, Step(t) PROVE TypeOK'
<1> USE DEF LoaderAssumption, IInv, TypeOK, PCs, AtRest, Installed,
         Goto, At, InMonitor, Extracting, fileVars, loaderVars, staticVars, cleanupVars
<1>1. CASE Moves(t)
  BY <1>1 DEF Moves, LoadAgain, LoadFirst, CleanupReturns,
         Compare, LinkFails, NoNativeLib, NotFound
<1>2. CASE Enter(t)
  BY <1>2 DEF Enter
<1>3. CASE List(t)
  BY <1>3 DEF List
<1>4. CASE TestLock(t)
  BY <1>4 DEF TestLock
<1>5. CASE Delete(t)
  BY <1>5 DEF Delete
<1>6. CASE CreateLock(t)
  BY <1>6 DEF CreateLock
<1>7. CASE Copy(t)
  BY <1>7 DEF Copy
<1>8. CASE Register(t)
  BY <1>8 DEF Register
<1>9. CASE Link(t)
  BY <1>9 DEF Link, Links
<1>10. CASE LinkInstalled(t)
  BY <1>10 DEF LinkInstalled, Links
<1>11. CASE Leave(t)
  BY <1>11 DEF Leave
<1>12. CASE Assign(t)
  BY <1>12 DEF Assign
<1>13. CASE Finally(t)
  BY <1>13 DEF Finally
<1> QED BY <1>1, <1>2, <1>3, <1>4, <1>5, <1>6, <1>7, <1>8, <1>9, <1>10, <1>11, <1>12, <1>13 DEF Step, Moves

LEMMA MonitorKept ==
  ASSUME LoaderAssumption, IInv, NEW t \in Threads, Step(t) PROVE Monitor'
<1> USE DEF LoaderAssumption, IInv, TypeOK, Monitor,
         Goto, At, InMonitor, Extracting, fileVars, loaderVars, staticVars, cleanupVars
<1>1. CASE Moves(t)
  BY <1>1 DEF Moves, LoadAgain, LoadFirst, CleanupReturns,
         Compare, LinkFails, NoNativeLib, NotFound
<1>2. CASE Enter(t)
  BY <1>2 DEF Enter
<1>3. CASE List(t)
  BY <1>3 DEF List
<1>4. CASE TestLock(t)
  BY <1>4 DEF TestLock
<1>5. CASE Delete(t)
  BY <1>5 DEF Delete
<1>6. CASE CreateLock(t)
  BY <1>6 DEF CreateLock
<1>7. CASE Copy(t)
  BY <1>7 DEF Copy
<1>8. CASE Register(t)
  BY <1>8 DEF Register
<1>9. CASE Link(t)
  BY <1>9 DEF Link, Links
<1>10. CASE LinkInstalled(t)
  BY <1>10 DEF LinkInstalled, Links
<1>11. CASE Leave(t)
  BY <1>11 DEF Leave
<1>12. CASE Assign(t)
  BY <1>12 DEF Assign
<1>13. CASE Finally(t)
  BY <1>13 DEF Finally
<1> QED BY <1>1, <1>2, <1>3, <1>4, <1>5, <1>6, <1>7, <1>8, <1>9, <1>10, <1>11, <1>12, <1>13 DEF Step, Moves

LEMMA LockedKept ==
  ASSUME LoaderAssumption, IInv, NEW t \in Threads, Step(t) PROVE Locked'
<1> USE DEF LoaderAssumption, IInv, TypeOK, Locked,
         Goto, At, InMonitor, Extracting, fileVars, loaderVars, staticVars, cleanupVars
<1>1. CASE Moves(t)
  BY <1>1 DEF Moves, LoadAgain, LoadFirst, CleanupReturns,
         Compare, LinkFails, NoNativeLib, NotFound
<1>2. CASE Enter(t)
  BY <1>2 DEF Enter
<1>3. CASE List(t)
  BY <1>3 DEF List
<1>4. CASE TestLock(t)
  BY <1>4 DEF TestLock
<1>5. CASE Delete(t)
  BY <1>5 DEF Delete
<1>6. CASE CreateLock(t)
  BY <1>6 DEF CreateLock
<1>7. CASE Copy(t)
  BY <1>7 DEF Copy
<1>8. CASE Register(t)
  BY <1>8 DEF Register
<1>9. CASE Link(t)
  BY <1>9 DEF Link, Links
<1>10. CASE LinkInstalled(t)
  BY <1>10 DEF LinkInstalled, Links
<1>11. CASE Leave(t)
  BY <1>11 DEF Leave
<1>12. CASE Assign(t)
  BY <1>12 DEF Assign
<1>13. CASE Finally(t)
  BY <1>13 DEF Finally
<1> QED BY <1>1, <1>2, <1>3, <1>4, <1>5, <1>6, <1>7, <1>8, <1>9, <1>10, <1>11, <1>12, <1>13 DEF Step, Moves

LEMMA CopiedKept ==
  ASSUME LoaderAssumption, IInv, NEW t \in Threads, Step(t) PROVE Copied'
<1> USE DEF LoaderAssumption, IInv, TypeOK, Locked, Copied, Once, Installed,
         Goto, At, InMonitor, Extracting, fileVars, loaderVars, staticVars, cleanupVars
<1>1. CASE Moves(t)
  BY <1>1 DEF Moves, LoadAgain, LoadFirst, CleanupReturns,
         Compare, LinkFails, NoNativeLib, NotFound
<1>2. CASE Enter(t)
  BY <1>2 DEF Enter
<1>3. CASE List(t)
  BY <1>3 DEF List
<1>4. CASE TestLock(t)
  BY <1>4 DEF TestLock
<1>5. CASE Delete(t)
  BY <1>5 DEF Delete
<1>6. CASE CreateLock(t)
  BY <1>6 DEF CreateLock
<1>7. CASE Copy(t)
  BY <1>7 DEF Copy
<1>8. CASE Register(t)
  BY <1>8 DEF Register
<1>9. CASE Link(t)
  BY <1>9 DEF Link, Links
<1>10. CASE LinkInstalled(t)
  BY <1>10 DEF LinkInstalled, Links
<1>11. CASE Leave(t)
  BY <1>11 DEF Leave
<1>12. CASE Assign(t)
  BY <1>12 DEF Assign
<1>13. CASE Finally(t)
  BY <1>13 DEF Finally
<1> QED BY <1>1, <1>2, <1>3, <1>4, <1>5, <1>6, <1>7, <1>8, <1>9, <1>10, <1>11, <1>12, <1>13 DEF Step, Moves

LEMMA OnceKept ==
  ASSUME LoaderAssumption, IInv, NEW t \in Threads, Step(t) PROVE Once'
<1> USE DEF LoaderAssumption, IInv, TypeOK, Monitor, Once,
         Goto, At, InMonitor, Extracting, fileVars, loaderVars, staticVars, cleanupVars
<1>1. CASE Moves(t)
  BY <1>1 DEF Moves, LoadAgain, LoadFirst, CleanupReturns,
         Compare, LinkFails, NoNativeLib, NotFound
<1>2. CASE Enter(t)
  BY <1>2 DEF Enter
<1>3. CASE List(t)
  BY <1>3 DEF List
<1>4. CASE TestLock(t)
  BY <1>4 DEF TestLock
<1>5. CASE Delete(t)
  BY <1>5 DEF Delete
<1>6. CASE CreateLock(t)
  BY <1>6 DEF CreateLock
<1>7. CASE Copy(t)
  BY <1>7 DEF Copy
<1>8. CASE Register(t)
  BY <1>8 DEF Register
<1>9. CASE Link(t)
  <2>1. \A j \in Jvms : j # JvmOf[t] => extracted'[j] = extracted[j] /\ linked'[j] = linked[j]
    BY <1>9 DEF Link, Links
  <2>2. JvmOf[t] \in Jvms /\ extracted'[JvmOf[t]] = TRUE /\ t \in linked'[JvmOf[t]]
    BY <1>9 DEF Link, Links
  <2>3. \A j \in Jvms : extracted'[j] = (linked'[j] # {})
    <3>1. TAKE j \in Jvms
    <3>2. CASE j = JvmOf[t]
      <4>1. linked'[j] # {} /\ extracted'[j] = TRUE
        BY <2>2, <3>2
      <4> QED BY <4>1
    <3>3. CASE j # JvmOf[t]
      BY <2>1, <3>3 DEF Once
    <3> QED BY <3>2, <3>3
  <2>4. \A u \in Threads : pc'[u] = (IF u = t THEN "leave" ELSE pc[u])
    BY <1>9 DEF Link, Links
  <2>5. \A u \in Threads : u # t /\ pc[u] \in InMonitor => JvmOf[u] # JvmOf[t]
    BY <1>9 DEF Link, Monitor
  <2>6. ASSUME NEW u \in Threads,
               pc'[u] \in {"list", "cleanup", "fallback", "throw"} \cup Extracting
        PROVE  ~extracted'[JvmOf[u]]
    <3>1. u # t /\ pc[u] = pc'[u]
      BY <2>4, <2>6
    <3>2. JvmOf[u] # JvmOf[t] /\ ~extracted[JvmOf[u]]
      BY <2>5, <2>6, <3>1
    <3>3. JvmOf[u] \in Jvms
      OBVIOUS
    <3> QED BY <2>1, <3>2, <3>3
  <2> QED BY <2>3, <2>6 DEF Once
<1>10. CASE LinkInstalled(t)
  BY <1>10 DEF LinkInstalled, Links
<1>11. CASE Leave(t)
  BY <1>11 DEF Leave
<1>12. CASE Assign(t)
  BY <1>12 DEF Assign
<1>13. CASE Finally(t)
  BY <1>13 DEF Finally
<1> QED BY <1>1, <1>2, <1>3, <1>4, <1>5, <1>6, <1>7, <1>8, <1>9, <1>10, <1>11, <1>12, <1>13 DEF Step, Moves

LEMMA OnTheWayKept ==
  ASSUME LoaderAssumption, IInv, NEW t \in Threads, Step(t) PROVE OnTheWay'
<1> USE DEF LoaderAssumption, IInv, TypeOK, Monitor, Once, OnTheWay,
         Goto, At, InMonitor, Extracting, fileVars, loaderVars, staticVars, cleanupVars
<1>1. CASE Moves(t)
  BY <1>1 DEF Moves, LoadAgain, LoadFirst, CleanupReturns,
         Compare, LinkFails, NoNativeLib, NotFound
<1>2. CASE Enter(t)
  BY <1>2 DEF Enter
<1>3. CASE List(t)
  BY <1>3 DEF List
<1>4. CASE TestLock(t)
  BY <1>4 DEF TestLock
<1>5. CASE Delete(t)
  BY <1>5 DEF Delete
<1>6. CASE CreateLock(t)
  BY <1>6 DEF CreateLock
<1>7. CASE Copy(t)
  BY <1>7 DEF Copy
<1>8. CASE Register(t)
  BY <1>8 DEF Register
<1>9. CASE Link(t)
  BY <1>9 DEF Link, Links
<1>10. CASE LinkInstalled(t)
  BY <1>10 DEF LinkInstalled, Links
<1>11. CASE Leave(t)
  BY <1>11 DEF Leave
<1>12. CASE Assign(t)
  BY <1>12 DEF Assign
<1>13. CASE Finally(t)
  BY <1>13 DEF Finally
<1> QED BY <1>1, <1>2, <1>3, <1>4, <1>5, <1>6, <1>7, <1>8, <1>9, <1>10, <1>11, <1>12, <1>13 DEF Step, Moves

LEMMA OneLibraryKept ==
  ASSUME LoaderAssumption, IInv, NEW t \in Threads, Step(t) PROVE OneLibrary'
<1> USE DEF LoaderAssumption, IInv, TypeOK, Once, OneLibrary,
         Goto, At, InMonitor, Extracting, fileVars, loaderVars, staticVars, cleanupVars
<1>1. CASE Moves(t)
  BY <1>1 DEF Moves, LoadAgain, LoadFirst, CleanupReturns,
         Compare, LinkFails, NoNativeLib, NotFound
<1>2. CASE Enter(t)
  BY <1>2 DEF Enter
<1>3. CASE List(t)
  BY <1>3 DEF List
<1>4. CASE TestLock(t)
  BY <1>4 DEF TestLock
<1>5. CASE Delete(t)
  BY <1>5 DEF Delete
<1>6. CASE CreateLock(t)
  BY <1>6 DEF CreateLock
<1>7. CASE Copy(t)
  BY <1>7 DEF Copy
<1>8. CASE Register(t)
  BY <1>8 DEF Register
<1>9. CASE Link(t)
  BY <1>9 DEF Link, Links
<1>10. CASE LinkInstalled(t)
  BY <1>10 DEF LinkInstalled, Links
<1>11. CASE Leave(t)
  BY <1>11 DEF Leave
<1>12. CASE Assign(t)
  BY <1>12 DEF Assign
<1>13. CASE Finally(t)
  BY <1>13 DEF Finally
<1> QED BY <1>1, <1>2, <1>3, <1>4, <1>5, <1>6, <1>7, <1>8, <1>9, <1>10, <1>11, <1>12, <1>13 DEF Step, Moves

-----------------------------------------------------------------------------
(* The end of a machine.                                                    *)

LEMMA EndKeeps == ASSUME LoaderAssumption, IInv, NEW j \in Jvms, End(j) PROVE IInv'
<1> USE DEF LoaderAssumption, IInv, TypeOK, fileVars, loaderVars, staticVars, cleanupVars
<1>1. CASE Exit(j)
  <2>1. TypeOK'  BY <1>1 DEF Exit, PCs, AtRest
  <2>2. Monitor'  BY <1>1 DEF Exit, Monitor, InMonitor, Extracting
  <2>3. Locked'  BY <1>1 DEF Exit, Locked
  <2>4. Copied'  BY <1>1 DEF Exit, Copied, Locked
  <2>5. Once'  BY <1>1 DEF Exit, Once, Extracting
  <2>6. OnTheWay'  BY <1>1 DEF Exit, OnTheWay
  <2>7. OneLibrary'  BY <1>1 DEF Exit, OneLibrary
  <2> QED BY <2>1, <2>2, <2>3, <2>4, <2>5, <2>6, <2>7
<1>2. CASE DeleteOnExit(j)
  <2>1. TypeOK'  BY <1>2 DEF DeleteOnExit, PCs, AtRest
  <2>2. Monitor'  BY <1>2 DEF DeleteOnExit, Monitor, InMonitor, Extracting
  <2>3. Locked'  BY <1>2 DEF DeleteOnExit, Locked
  <2>4. Copied'  BY <1>2 DEF DeleteOnExit, Copied, Locked
  <2>5. Once'  BY <1>2 DEF DeleteOnExit, Once, Extracting
  <2>6. OnTheWay'  BY <1>2 DEF DeleteOnExit, OnTheWay
  <2>7. OneLibrary'  BY <1>2 DEF DeleteOnExit, OneLibrary
  <2> QED BY <2>1, <2>2, <2>3, <2>4, <2>5, <2>6, <2>7
<1>3. CASE Gone(j)
  <2>1. TypeOK'  BY <1>3 DEF Gone, PCs, AtRest
  <2>2. Monitor'  BY <1>3 DEF Gone, Monitor, InMonitor, Extracting
  <2>3. Locked'  BY <1>3 DEF Gone, Locked
  <2>4. Copied'  BY <1>3 DEF Gone, Copied, Locked
  <2>5. Once'  BY <1>3 DEF Gone, Once, Extracting
  <2>6. OnTheWay'  BY <1>3 DEF Gone, OnTheWay
  <2>7. OneLibrary'  BY <1>3 DEF Gone, OneLibrary
  <2> QED BY <2>1, <2>2, <2>3, <2>4, <2>5, <2>6, <2>7
<1> QED BY <1>1, <1>2, <1>3 DEF End

-----------------------------------------------------------------------------
(* The theorems.                                                            *)

LEMMA Inductive == ASSUME LoaderAssumption, IInv, [Next]_vars PROVE IInv'
<1>1. CASE \E t \in Threads : Step(t)
  BY <1>1, TypesKept, MonitorKept, LockedKept, CopiedKept, OnceKept, OnTheWayKept,
     OneLibraryKept DEF IInv
<1>2. CASE \E j \in Jvms : End(j)
  BY <1>2, EndKeeps
<1>3. CASE UNCHANGED vars
  BY <1>3 DEF vars, fileVars, loaderVars, staticVars, cleanupVars, IInv, TypeOK, Monitor,
     Locked, Copied, Once, OnTheWay, OneLibrary
<1> QED BY <1>1, <1>2, <1>3 DEF Next

LEMMA Invariance == ASSUME LoaderAssumption PROVE Spec => []IInv
<1>1. Init => IInv
  BY Initially
<1>2. IInv /\ [Next]_vars => IInv'
  BY Inductive
<1> QED BY <1>1, <1>2, PTL DEF Spec

\* Every reachable state is well typed (the calls of load(), the monitor and the
\* files of SQLiteJDBCLoader).
THEOREM TypeCorrect == Spec => []TypeOK
<1>1. IInv => TypeOK
  BY DEF IInv
<1> QED BY <1>1, Invariance, LoaderAssumption, PTL

\* No cleanup() deletes the library that another running machine has copied or
\* linked, for any number of machines and threads.
THEOREM LibraryKeptHolds == Spec => []LibraryKept
<1>1. IInv => LibraryKept
  BY DEF IInv, Copied, LibraryKept
<1> QED BY <1>1, Invariance, LoaderAssumption, PTL

\* A machine links the library once, however many threads race in load().
THEOREM OneLibraryHolds == Spec => []OneLibrary
<1>1. IInv => OneLibrary
  BY DEF IInv
<1> QED BY <1>1, Invariance, LoaderAssumption, PTL

\* When no thread is inside load(), loadSucceeded says whether a library is linked.
THEOREM SettledHolds == Spec => []Settled
<1>1. ASSUME IInv PROVE Settled
  <2>1. SUFFICES ASSUME NEW j \in Jvms,
                        \A t \in Threads : JvmOf[t] = j => pc[t] \in AtRest
                 PROVE  loadSucceeded[j] = (linked[j] # {})
    BY DEF Settled
  <2>2. extracted[j] = (linked[j] # {})
    BY <1>1 DEF IInv, Once
  <2>3. extracted[j] => loadSucceeded[j]
    BY <1>1, <2>1 DEF IInv, OnTheWay, AtRest
  <2>4. loadSucceeded[j] => extracted[j]
    BY <1>1 DEF IInv, OnTheWay
  <2> QED BY <1>1, <2>2, <2>3, <2>4 DEF IInv, TypeOK
<1> QED BY <1>1, Invariance, LoaderAssumption, PTL

-----------------------------------------------------------------------------
(* Every load returns.                                                      *)

\* Induction on the natural numbers over the values of a function: the theorems of
\* the library take an operator.  To use it for temporal formulas a proof picks a
\* function that is 1 where the formula is true; Mentioned gives the provers
\* the term that shows there is one.
LEMMA Induction ==
  ASSUME NEW f, f[0] = 1, \A n \in Nat : f[n] = 1 => f[n + 1] = 1
  PROVE  \A n \in Nat : f[n] = 1
<1> DEFINE Bad == {n \in Nat : f[n] # 1}
           Less == OpToRel(<, Nat)
<1>1. SUFFICES ASSUME Bad # {} PROVE FALSE
  OBVIOUS
<1>2. PICK n \in Bad : \A m \in Bad : <<m, n>> \notin Less
  BY <1>1, NatLessThanWellFounded, WFMin, Zenon
<1>3. \A m, k \in Nat : m < k => <<m, k>> \in Less
  BY Zenon DEF OpToRel
<1> HIDE DEF Less
<1>4. n \in Nat /\ f[n] # 1
  OBVIOUS
<1>5. n # 0
  BY <1>4
<1>6. n - 1 \in Nat /\ n - 1 < n /\ (n - 1) + 1 = n
  BY <1>4, <1>5
<1>7. f[n - 1] = 1
  BY <1>2, <1>3, <1>4, <1>6
<1>8. f[(n - 1) + 1] = 1
  BY <1>6, <1>7
<1> QED BY <1>4, <1>6, <1>8

Mentioned(v) == TRUE

\* The thread that holds the monitor of a machine is inside, and of that machine.
Held ==
  \A j \in Jvms : mon[j] # NoThread => JvmOf[mon[j]] = j /\ pc[mon[j]] \in InMonitor

\* A machine that is gone has no thread in a call.
Dead == \A t \in Threads : jvm[JvmOf[t]] = "gone" => pc[t] = "idle"

\* A path is tested once, and then deleted or kept.
Apart ==
  \A t \in Threads : doomed[t] \cap todo[t] = {} /\ (pc[t] # "cleanup" => doomed[t] = {})

LInv == IInv /\ Held /\ Dead /\ Apart

\* How far a place is from the end of the call.
Stage(place) ==
  CASE place = "idle" -> 13 [] place = "wait" -> 12 [] place = "list" -> 11
    [] place = "cleanup" -> 10 [] place = "create" -> 9 [] place = "copy" -> 8
    [] place \in {"register", "registerFailed"} -> 7
    [] place = "compare" -> 6 [] place = "link" -> 5 [] place = "fallback" -> 4
    [] place \in {"leave", "throw"} -> 3 [] place = "assign" -> 2
    [] place \in {"finally", "finallyThrow"} -> 1 [] OTHER -> 0

\* What a thread has left to do: stages of the call, and in cleanup() the paths
\* to test and to delete.
Chores == ({"stage"} \X (1 .. 13)) \cup ({"test", "delete"} \X Threads)
ToList(t) == pc[t] \in {"idle", "wait", "list"}
Stages(t) == {"stage"} \X (1 .. Stage(pc[t]))
Paths(t) ==
  IF ToList(t) THEN {"test", "delete"} \X Threads
  ELSE IF pc[t] = "cleanup"
  THEN ({"test"} \X todo[t]) \cup ({"delete"} \X (todo[t] \cup doomed[t]))
  ELSE {}
Due(t) == IF jvm[JvmOf[t]] = "gone" THEN {} ELSE Stages(t) \cup Paths(t)

Work == {tc \in Threads \X Chores : tc[2] \in Due(tc[1])}

AtMost(n) == Cardinality(Work) <= n

\* A step of another place is nearer to the end, and finds no new path.
LEMMA StepAdvances ==
  ASSUME LoaderAssumption, LInv, NEW t \in Threads, Step(t)
  PROVE  \/ Stage(pc'[t]) < Stage(pc[t]) /\ Paths(t)' \subseteq Paths(t)
         \/ pc' = pc /\ Paths(t)' \subseteq Paths(t) /\ Paths(t)' # Paths(t)
<1> USE DEF LoaderAssumption, LInv, IInv, TypeOK, PCs, AtRest, Installed,
         Goto, At, InMonitor, Extracting, fileVars, loaderVars, staticVars, cleanupVars
<1>1. CASE LoadAgain(t) \/ LoadFirst(t)
  BY <1>1 DEF LoadAgain, LoadFirst, Stage, Paths, ToList
<1>2. CASE Enter(t)
  BY <1>2 DEF Enter, Stage, Paths, ToList
<1>3. CASE List(t)
  <2>1. pc[t] = "list" /\ pc'[t] = "cleanup" /\ todo'[t] \subseteq Threads /\ doomed'[t] \subseteq Threads
    BY <1>3 DEF List
  <2> QED BY <2>1 DEF Stage, Paths, ToList
<1>4. CASE TestLock(t)
  <2>1. PICK f \in todo[t] : /\ todo'[t] = todo[t] \ {f} /\ doomed'[t] = {f} \ lck
    BY <1>4 DEF TestLock
  <2>2. pc' = pc /\ pc[t] = "cleanup" /\ doomed[t] = {}
    BY <1>4 DEF TestLock
  <2>3. Paths(t) = ({"test"} \X todo[t]) \cup ({"delete"} \X todo[t])
    BY <2>2 DEF Paths, ToList
  <2>4. Paths(t)' = ({"test"} \X todo'[t]) \cup ({"delete"} \X (todo'[t] \cup doomed'[t]))
    BY <2>2 DEF Paths, ToList
  <2>5. Paths(t)' \subseteq Paths(t)
    BY <2>1, <2>3, <2>4
  <2>6. <<"test", f>> \in Paths(t) /\ <<"test", f>> \notin Paths(t)'
    BY <2>1, <2>3, <2>4
  <2> QED BY <2>2, <2>5, <2>6
<1>5. CASE Delete(t)
  <2>1. /\ pc' = pc /\ pc[t] = "cleanup" /\ doomed[t] # {}
        /\ todo' = todo /\ doomed'[t] = {}
    BY <1>5 DEF Delete
  <2>2. Paths(t) = ({"test"} \X todo[t]) \cup ({"delete"} \X (todo[t] \cup doomed[t]))
    BY <2>1 DEF Paths, ToList
  <2>3. Paths(t)' = ({"test"} \X todo[t]) \cup ({"delete"} \X todo[t])
    BY <2>1 DEF Paths, ToList
  <2>4. PICK f \in doomed[t] : f \notin todo[t]
    BY <2>1 DEF Apart
  <2>5. <<"delete", f>> \in Paths(t) /\ <<"delete", f>> \notin Paths(t)'
    BY <2>2, <2>3, <2>4
  <2> QED BY <2>1, <2>2, <2>3, <2>5
<1>6. CASE CleanupReturns(t)
  BY <1>6 DEF CleanupReturns, Stage, Paths, ToList
<1>7. CASE Register(t)
  BY <1>7 DEF Register, Stage, Paths, ToList
<1>8. CASE Compare(t) \/ LinkFails(t) \/ NoNativeLib(t) \/ NotFound(t)
  BY <1>8 DEF Compare, LinkFails, NoNativeLib, NotFound, Stage, Paths, ToList
<1>9. CASE CreateLock(t) \/ Copy(t)
  BY <1>9 DEF CreateLock, Copy, Stage, Paths, ToList
<1>10. CASE Link(t) \/ LinkInstalled(t)
  BY <1>10 DEF Link, LinkInstalled, Links, Stage, Paths, ToList
<1>11. CASE Leave(t) \/ Assign(t) \/ Finally(t)
  BY <1>11 DEF Leave, Assign, Finally, Stage, Paths, ToList
<1> QED BY <1>1, <1>2, <1>3, <1>4, <1>5, <1>6, <1>7, <1>8, <1>9, <1>10, <1>11 DEF Step

LEMMA StepsAlone ==
  ASSUME NEW t \in Threads, Step(t), LInv
  PROVE  /\ jvm' = jvm /\ jvm[JvmOf[t]] # "gone"
         /\ \A u \in Threads \ {t} : pc'[u] = pc[u] /\ todo'[u] = todo[u] /\ doomed'[u] = doomed[u]
<1> USE DEF LInv, IInv, TypeOK, Goto, At, fileVars, loaderVars, staticVars, cleanupVars
<1>1. CASE LoadAgain(t) \/ LoadFirst(t) \/ Enter(t) \/ List(t) \/ TestLock(t) \/ Delete(t)
  BY <1>1 DEF LoadAgain, LoadFirst, Enter, List, TestLock, Delete
<1>2. CASE CleanupReturns(t) \/ Register(t) \/ Compare(t) \/ LinkFails(t) \/ NoNativeLib(t) \/ NotFound(t)
  BY <1>2 DEF CleanupReturns, Register, Compare, LinkFails, NoNativeLib, NotFound
<1>3. CASE CreateLock(t) \/ Copy(t) \/ Link(t) \/ LinkInstalled(t) \/ Leave(t) \/ Assign(t) \/ Finally(t)
  BY <1>3 DEF CreateLock, Copy, Link, LinkInstalled, Links, Leave, Assign, Finally
<1> QED BY <1>1, <1>2, <1>3 DEF Step

\* The invariant that the progress of a call rests on.
LEMMA LInductive ==
  ASSUME LoaderAssumption, LInv, IInv', [Next]_vars PROVE LInv'
<1>1. ASSUME NEW t \in Threads, Step(t) PROVE Held' /\ Dead' /\ Apart'
  <2> USE DEF LoaderAssumption, LInv, IInv, TypeOK, PCs, AtRest, Goto, At, InMonitor, Extracting,
           fileVars, loaderVars, staticVars, cleanupVars
  <2>1. Dead'
    BY <1>1, StepsAlone DEF Dead
  <2>2. Apart'
    <3>1. doomed'[t] \cap todo'[t] = {} /\ (pc'[t] # "cleanup" => doomed'[t] = {})
      <4>1. CASE LoadAgain(t) \/ LoadFirst(t) \/ Enter(t) \/ CleanupReturns(t) \/ Register(t)
                 \/ Compare(t) \/ LinkFails(t) \/ NoNativeLib(t) \/ NotFound(t)
        BY <4>1 DEF Apart, LoadAgain, LoadFirst, Enter, CleanupReturns, Register, Compare,
           LinkFails, NoNativeLib, NotFound
      <4>2. CASE CreateLock(t) \/ Copy(t) \/ Link(t) \/ LinkInstalled(t) \/ Leave(t) \/ Assign(t) \/ Finally(t)
        BY <4>2 DEF Apart, CreateLock, Copy, Link, LinkInstalled, Links, Leave, Assign, Finally
      <4>3. CASE TestLock(t) \/ Delete(t)
        BY <4>3 DEF Apart, TestLock, Delete
      <4>4. CASE List(t)
        BY <4>4 DEF Apart, List
      <4> QED BY <1>1, <4>1, <4>2, <4>3, <4>4 DEF Step
    <3>2. \A u \in Threads \ {t} : pc'[u] = pc[u] /\ todo'[u] = todo[u] /\ doomed'[u] = doomed[u]
      BY <1>1, StepsAlone
    <3> QED BY <3>1, <3>2 DEF Apart
  <2>3. Held'
    <3>1. CASE Moves(t)
      BY <3>1 DEF Monitor, Held, Moves, LoadAgain, LoadFirst, CleanupReturns, Compare, LinkFails, NoNativeLib, NotFound
    <3>2. CASE Enter(t) \/ List(t) \/ TestLock(t) \/ Delete(t)
      BY <3>2 DEF Monitor, Held, Enter, List, TestLock, Delete
    <3>3. CASE CreateLock(t) \/ Copy(t) \/ Register(t)
      BY <3>3 DEF Monitor, Held, CreateLock, Copy, Register
    <3>4. CASE Link(t) \/ LinkInstalled(t) \/ Leave(t) \/ Assign(t) \/ Finally(t)
      BY <3>4 DEF Monitor, Held, Link, LinkInstalled, Links, Leave, Assign, Finally
    <3> QED BY <1>1, <3>1, <3>2, <3>3, <3>4 DEF Step, Moves
  <2> QED BY <2>1, <2>2, <2>3
<1>2. ASSUME NEW j \in Jvms, End(j) PROVE Held' /\ Dead' /\ Apart'
  <2> USE DEF LoaderAssumption, LInv, IInv, TypeOK, Held, Dead, Apart, 
           fileVars, loaderVars, staticVars, cleanupVars
  <2>1. CASE Exit(j) \/ DeleteOnExit(j)
    BY <2>1 DEF Exit, DeleteOnExit
  <2>2. CASE Gone(j)
    BY <2>2 DEF Gone, InMonitor, Extracting
  <2> QED BY <1>2, <2>1, <2>2 DEF End
<1>3. ASSUME UNCHANGED vars PROVE Held' /\ Dead' /\ Apart'
  BY <1>3 DEF vars, fileVars, loaderVars, staticVars, cleanupVars, LInv, Held, Dead, Apart
<1> QED BY <1>1, <1>2, <1>3 DEF Next, LInv

LEMMA LInvariance == ASSUME LoaderAssumption PROVE Spec => []LInv
<1>1. Init => Held /\ Dead /\ Apart
  BY DEF LoaderAssumption, Init, Held, Dead, Apart
<1>2. Init => LInv
  BY <1>1, Initially DEF LInv
<1> QED BY <1>2, LInductive, Invariance, PTL DEF Spec

-----------------------------------------------------------------------------

\* A step does a chore of its thread and leaves those of the others.
LEMMA StepDoes ==
  ASSUME LoaderAssumption, LInv, NEW t \in Threads, Step(t)
  PROVE  /\ Due(t)' \subseteq Due(t) /\ Due(t)' # Due(t)
         /\ \A u \in Threads \ {t} : Due(u)' = Due(u)
<1>1. Due(t) = Stages(t) \cup Paths(t) /\ Due(t)' = Stages(t)' \cup Paths(t)'
  BY StepsAlone DEF Due
<1>2. \A u \in Threads \ {t} : Due(u)' = Due(u)
  BY StepsAlone, ZenonT(30) DEF Due, Stages, Paths, ToList
<1>3. Paths(t) \cap ({"stage"} \X (1 .. 13)) = {} /\ Paths(t)' \subseteq Paths(t)
  BY StepAdvances DEF Paths
<1>4. \A place : Stage(place) \in 0 .. 13
  BY DEF Stage
<1>5. CASE Stage(pc'[t]) < Stage(pc[t])
  <2>1. Stages(t)' \subseteq Stages(t)
    BY <1>4, <1>5 DEF Stages
  <2>2. <<"stage", Stage(pc[t])>> \in Stages(t) /\ <<"stage", Stage(pc[t])>> \notin Stages(t)'
    BY <1>4, <1>5 DEF Stages
  <2>3. <<"stage", Stage(pc[t])>> \notin Paths(t)'
    BY <1>3, <1>4, <1>5
  <2> QED BY <1>1, <1>2, <1>3, <2>1, <2>2, <2>3
<1>6. CASE pc' = pc /\ Paths(t)' # Paths(t)
  <2>1. Stages(t)' = Stages(t) /\ Stages(t) \subseteq {"stage"} \X (1 .. 13)
    BY <1>4, <1>6 DEF Stages
  <2> QED BY <1>1, <1>2, <1>3, <1>6, <2>1
<1> QED BY <1>5, <1>6, StepAdvances

LEMMA AllIsFinite ==
  ASSUME LoaderAssumption PROVE  IsFiniteSet(Threads \X Chores)
<1>1. IsFiniteSet(Threads) /\ IsFiniteSet(1 .. 13)
  <2>1. IsFiniteSet(1 .. 13)
    <3>1. \A a, b \in Int : IsFiniteSet(a .. b)
      BY FS_Interval
    <3>2. 1 \in Int /\ 13 \in Int
      OBVIOUS
    <3> QED BY <3>1, <3>2, Zenon
  <2> QED BY <2>1 DEF LoaderAssumption
<1>2. IsFiniteSet({"stage"}) /\ IsFiniteSet({"test", "delete"})
  <2>1. \A x : IsFiniteSet({x})
    BY FS_Singleton
  <2>2. IsFiniteSet({"test"} \cup {"delete"})
    BY <2>1, FS_Union
  <2>3. {"test", "delete"} = {"test"} \cup {"delete"}
    OBVIOUS
  <2> QED BY <2>1, <2>2, <2>3
<1>3. IsFiniteSet(Chores)
  BY <1>1, <1>2, FS_Product, FS_Union DEF Chores
<1> QED BY <1>1, <1>3, FS_Product

\* Most there can ever be to do.
Most == Cardinality(Threads \X Chores)

LEMMA WorkIsFinite ==
  ASSUME LoaderAssumption
  PROVE  IsFiniteSet(Work) /\ Cardinality(Work) \in Nat /\ Most \in Nat /\ AtMost(Most)
<1>1. IsFiniteSet(Threads \X Chores)
  BY AllIsFinite
<1>2. Work \subseteq Threads \X Chores
  BY DEF Work
<1>3. IsFiniteSet(Work) /\ Cardinality(Work) <= Most
  BY <1>1, <1>2, FS_Subset DEF Most
<1> QED BY <1>1, <1>3, FS_CardinalityType DEF Most, AtMost

LEMMA WorkShrinks ==
  ASSUME LoaderAssumption, LInv, LInv', NEW t \in Threads, Step(t)
  PROVE  Cardinality(Work') < Cardinality(Work) /\ Cardinality(Work') \in Nat
<1>1. \A u \in Threads : Due(u) \subseteq Chores
  <2>1. \A place : Stage(place) \in 0 .. 13
    BY DEF Stage
  <2>2. \A u \in Threads : Stages(u) \subseteq {"stage"} \X (1 .. 13)
    BY <2>1 DEF Stages
  <2>3. ASSUME NEW u \in Threads PROVE Paths(u) \subseteq {"test", "delete"} \X Threads
    <3>1. todo[u] \subseteq Threads /\ doomed[u] \subseteq Threads
      BY DEF LInv, IInv, TypeOK
    <3> QED BY <3>1 DEF Paths
  <2> QED BY <2>2, <2>3 DEF Due, Chores
<1>2. Work' \subseteq Work
  BY StepDoes DEF Work
<1>3. PICK c \in Due(t) : c \notin Due(t)'
  BY StepDoes
<1>4. <<t, c>> \in Work /\ <<t, c>> \notin Work'
  BY <1>1, <1>3 DEF Work
<1>5. IsFiniteSet(Work) /\ IsFiniteSet(Work') /\ Cardinality(Work) \in Nat
  BY WorkIsFinite, <1>2, FS_Subset
<1>6. Cardinality(Work') <= Cardinality(Work) /\ Cardinality(Work') # Cardinality(Work)
      /\ Cardinality(Work') \in Nat
  BY <1>2, <1>4, <1>5, FS_Subset, FS_CardinalityType
<1> QED BY <1>5, <1>6

-----------------------------------------------------------------------------

Inside(t) == pc[t] \notin AtRest

\* A thread that may take a step that the call of t waits for.
Helps(u, t) ==
  Inside(t) /\ MayStep(u) /\ JvmOf[u] = JvmOf[t] /\ (u = t \/ mon[JvmOf[t]] = u)

\* The thread itself, or the holder of the monitor it waits for.
LEMMA SomeoneHelps ==
  ASSUME LoaderAssumption, LInv, NEW t \in Threads, Inside(t)
  PROVE  \E u \in Threads : Helps(u, t)
<1>1. jvm[JvmOf[t]] # "gone"
  BY DEF LInv, Dead, Inside, AtRest
<1>2. CASE pc[t] = "wait" => mon[JvmOf[t]] = NoThread
  BY <1>1, <1>2 DEF Helps, MayStep, Inside
<1>3. CASE pc[t] = "wait" /\ mon[JvmOf[t]] # NoThread
  <2>1. mon[JvmOf[t]] \in Threads /\ JvmOf[t] \in Jvms
    BY <1>3 DEF LInv, IInv, TypeOK, LoaderAssumption
  <2>2. JvmOf[mon[JvmOf[t]]] = JvmOf[t] /\ pc[mon[JvmOf[t]]] \in InMonitor
    BY <1>3, <2>1 DEF LInv, Held
  <2>3. pc[mon[JvmOf[t]]] \notin AtRest /\ pc[mon[JvmOf[t]]] # "wait"
    BY <2>2 DEF InMonitor, Extracting, AtRest
  <2> QED BY <1>1, <2>1, <2>2, <2>3 DEF Helps, MayStep
<1> QED BY <1>2, <1>3

\* The threads of a machine never all wait for its monitor, nor for a thread that is
\* gone, for any number of machines and threads.
THEOREM SomeoneMayStepHolds == Spec => []SomeoneMayStep
<1>1. ASSUME LInv PROVE SomeoneMayStep
  <2> SUFFICES ASSUME NEW t \in Threads, pc[t] \notin AtRest
               PROVE  \E u \in Threads : JvmOf[u] = JvmOf[t] /\ MayStep(u)
    BY DEF SomeoneMayStep
  <2>1. PICK u \in Threads : Helps(u, t)
    BY <1>1, SomeoneHelps, LoaderAssumption DEF Inside
  <2> QED BY <2>1 DEF Helps
<1> QED BY <1>1, LInvariance, LoaderAssumption, PTL

\* The end of a machine leaves no work to others.
LEMMA EndsHelp ==
  ASSUME LoaderAssumption, LInv, NEW j \in Jvms, End(j), NEW t \in Threads, NEW u \in Threads,
         Helps(u, t)
  PROVE  /\ Work' \subseteq Work
         /\ Helps(u, t)' \/ ~Inside(t)'
<1>1. CASE Exit(j) \/ DeleteOnExit(j)
  <2>1. /\ UNCHANGED <<pc, todo, doomed, mon>>
        /\ \A i \in Jvms : jvm'[i] = "gone" <=> jvm[i] = "gone"
    BY <1>1 DEF Exit, DeleteOnExit, loaderVars, staticVars, cleanupVars, LInv, IInv, TypeOK
  <2>2. \A v \in Threads : JvmOf[v] \in Jvms
    BY DEF LoaderAssumption
  <2>3. \A v \in Threads : Due(v)' = Due(v)
    BY <2>1, <2>2 DEF Due, Stages, Paths, ToList
  <2>4. Helps(u, t)'
    BY <2>1, <2>2 DEF Helps, Inside, MayStep
  <2> QED BY <2>3, <2>4 DEF Work
<1>2. CASE Gone(j)
  <2>1. /\ jvm' = [jvm EXCEPT ![j] = "gone"] /\ mon' = [mon EXCEPT ![j] = NoThread]
        /\ \A v \in Threads :
             IF JvmOf[v] = j THEN pc'[v] = "idle"
             ELSE pc'[v] = pc[v] /\ todo'[v] = todo[v] /\ doomed'[v] = doomed[v]
    BY <1>2 DEF Gone, LInv, IInv, TypeOK
  <2>2. \A v \in Threads : JvmOf[v] \in Jvms
    BY DEF LoaderAssumption
  <2>3. jvm \in [Jvms -> {"running", "exiting", "gone"}] /\ mon \in [Jvms -> Threads \cup {NoThread}]
    BY DEF LInv, IInv, TypeOK
  <2>4. ASSUME NEW v \in Threads PROVE Due(v)' \subseteq Due(v)
    <3>1. CASE JvmOf[v] = j
      BY <2>1, <2>2, <2>3, <3>1 DEF Due
    <3>2. CASE JvmOf[v] # j
      BY <2>1, <2>2, <2>3, <3>2 DEF Due, Stages, Paths, ToList
    <3> QED BY <3>1, <3>2
  <2>5. CASE JvmOf[t] = j
    BY <2>1, <2>4, <2>5 DEF Work, Inside, AtRest
  <2>6. CASE JvmOf[t] # j
    <3>1. Helps(u, t)'
      BY <2>1, <2>2, <2>3, <2>6 DEF Helps, Inside, MayStep
    <3> QED BY <2>4, <3>1 DEF Work
  <2> QED BY <2>5, <2>6
<1> QED BY <1>1, <1>2 DEF End

LEMMA HelperStays ==
  ASSUME LoaderAssumption, LInv, LInv', [Next]_vars, NEW t \in Threads, NEW u \in Threads,
         NEW n \in Nat, Helps(u, t), AtMost(n + 1)
  PROVE  AtMost(n)' \/ ~Inside(t)' \/ (Helps(u, t)' /\ AtMost(n + 1)')
<1>0. Cardinality(Work) \in Nat /\ IsFiniteSet(Work)
  BY WorkIsFinite
<1>1. ASSUME NEW v \in Threads, Step(v) PROVE AtMost(n)'
  <2>1. Cardinality(Work') < Cardinality(Work) /\ Cardinality(Work') \in Nat
    BY <1>1, WorkShrinks
  <2> QED BY <1>0, <2>1 DEF AtMost
<1>2. ASSUME NEW j \in Jvms, End(j) PROVE ~Inside(t)' \/ (Helps(u, t)' /\ AtMost(n + 1)')
  <2>1. Work' \subseteq Work /\ (Helps(u, t)' \/ ~Inside(t)')
    BY <1>2, EndsHelp
  <2>2. Cardinality(Work') <= Cardinality(Work) /\ Cardinality(Work') \in Nat
    BY <1>0, <2>1, FS_Subset, FS_CardinalityType
  <2>3. Cardinality(Work') <= n + 1
    BY <1>0, <2>2 DEF AtMost
  <2> QED BY <2>1, <2>3 DEF AtMost
<1>3. ASSUME UNCHANGED vars PROVE Helps(u, t)' /\ AtMost(n + 1)'
  BY <1>3 DEF vars, fileVars, loaderVars, staticVars, cleanupVars, Helps, Inside, MayStep,
     AtMost, Work, Due, Stages, Paths, ToList
<1> QED BY <1>1, <1>2, <1>3 DEF Next

EndsWithin(n, t) == [](AtMost(n) /\ Inside(t) => <>~Inside(t))

EndsIfHelped(u, n, t) == [](Helps(u, t) /\ AtMost(n + 1) => <>~Inside(t))

\* While one thread helps, somebody does a chore.
LEMMA HelpedEnds ==
  ASSUME LoaderAssumption, NEW n \in Nat, NEW t \in Threads, NEW u \in Threads
  PROVE  Spec /\ []NoDeadlock /\ EndsWithin(n, t)
         => EndsIfHelped(u, n, t)
<1>1. LInv /\ LInv' /\ Helps(u, t) /\ AtMost(n + 1) /\ [Next]_vars
      => AtMost(n)' \/ ~Inside(t)' \/ (Helps(u, t)' /\ AtMost(n + 1)')
  BY HelperStays
<1>2. LInv /\ LInv' /\ AtMost(n + 1) /\ <<Step(u)>>_vars => AtMost(n)'
  <2>1. ASSUME LInv, LInv', AtMost(n + 1), Step(u) PROVE AtMost(n)'
    <3>1. Cardinality(Work') < Cardinality(Work) /\ Cardinality(Work') \in Nat
          /\ Cardinality(Work) \in Nat
      BY <2>1, WorkShrinks, WorkIsFinite
    <3> QED BY <2>1, <3>1 DEF AtMost
  <2> QED BY <2>1
<1>3. NoDeadlock /\ Helps(u, t) => Proceeds(u)
  BY DEF NoDeadlock, Helps
<1>4. Spec => Scheduled(u)
  BY DEF Spec
<1> QED BY <1>1, <1>2, <1>3, <1>4, LInvariance, PTL DEF Spec, Scheduled, Proceeds, EndsWithin, EndsIfHelped

\* The threads in some order: who helps is one of the first k, for some k.
OneOf(e, k, t) == \E i \in DOMAIN e : i <= k /\ Helps(e[i], t)
EndsIfOneOf(e, k, n, t) == [](OneOf(e, k, t) /\ AtMost(n + 1) => <>~Inside(t))

LEMMA WhoeverHelps ==
  ASSUME LoaderAssumption, NEW n \in Nat, NEW t \in Threads, NEW N \in Nat, NEW e \in [1 .. N -> Threads],
         NEW k \in Nat
  PROVE  Spec /\ []NoDeadlock /\ EndsWithin(n, t) =>
           (EndsIfOneOf(e, k, n, t) => EndsIfOneOf(e, k + 1, n, t))
<1>1. CASE k + 1 \in 1 .. N
  <2>1. OneOf(e, k + 1, t) => OneOf(e, k, t) \/ Helps(e[k + 1], t)
    BY <1>1 DEF OneOf
  <2>2. e[k + 1] \in Threads
    BY <1>1
  <2>3. Spec /\ []NoDeadlock /\ EndsWithin(n, t)
        => EndsIfHelped(e[k + 1], n, t)
    BY <2>2, HelpedEnds
  <2> QED BY <2>1, <2>3, PTL DEF EndsIfOneOf, EndsIfHelped
<1>2. CASE k + 1 \notin 1 .. N
  <2>1. OneOf(e, k + 1, t) => OneOf(e, k, t)
    BY <1>2 DEF OneOf
  <2> QED BY <2>1, PTL DEF EndsIfOneOf
<1> QED BY <1>1, <1>2

LEMMA EndsAfter ==
  ASSUME LoaderAssumption, NEW n \in Nat, NEW t \in Threads
  PROVE  Spec /\ []NoDeadlock => (EndsWithin(n, t) => EndsWithin(n + 1, t))
<1>1. PICK N \in Nat : ExistsBijection(1 .. N, Threads)
  BY FS_NatBijection DEF LoaderAssumption
<1>2. PICK e \in [1 .. N -> Threads] : \A u \in Threads : \E i \in 1 .. N : e[i] = u
  BY <1>1 DEF ExistsBijection, Bijection, Injection, Surjection
<1>3. LInv /\ Inside(t) => OneOf(e, N, t)
  <2> SUFFICES ASSUME LInv, Inside(t) PROVE OneOf(e, N, t)
    OBVIOUS
  <2>1. PICK u \in Threads : Helps(u, t)
    BY SomeoneHelps
  <2>2. PICK i \in 1 .. N : e[i] = u
    BY <1>2
  <2> QED BY <2>1, <2>2 DEF OneOf
<1>4. EndsIfOneOf(e, 0, n, t)
  <2>1. ~OneOf(e, 0, t)
    BY DEF OneOf
  <2> QED BY <2>1, PTL DEF EndsIfOneOf
<1>5. Spec /\ []NoDeadlock /\ EndsWithin(n, t) => \A k \in Nat : EndsIfOneOf(e, k, n, t)
  <2> SUFFICES ASSUME Spec /\ []NoDeadlock /\ EndsWithin(n, t)
               PROVE  \A k \in Nat : EndsIfOneOf(e, k, n, t)
    OBVIOUS
  <2>1. PICK f : \A k \in Nat : f[k] = 1 <=> EndsIfOneOf(e, k, n, t)
    <3>1. Mentioned([k \in Nat |-> IF EndsIfOneOf(e, k, n, t) THEN 1 ELSE 0])
      BY DEF Mentioned
    <3>2. \A g : Mentioned(g) => \E f : \A k \in Nat : f[k] = g[k]
      OBVIOUS
    <3> QED BY <3>1, <3>2
  <2>2. f[0] = 1
    BY <1>4, <2>1
  <2>3. \A k \in Nat : f[k] = 1 => f[k + 1] = 1
    BY <2>1, WhoeverHelps
  <2> QED BY <2>1, <2>2, <2>3, Induction
<1>6. Spec /\ []NoDeadlock /\ EndsWithin(n, t) => EndsIfOneOf(e, N, n, t)
  BY <1>5
<1> QED BY <1>3, <1>6, LInvariance, PTL DEF EndsWithin, EndsIfOneOf

\* Every call of load() comes back, for any number of machines and threads: each
\* step anywhere does one of finitely many chores, and until then the thread, or
\* the holder of the monitor it waits for, may go on.  (The runs check that who may go on
\* finds a step to take, for that is about ENABLED.)
THEOREM EveryLoadReturnsHolds == Spec /\ []NoDeadlock => EveryLoadReturns
<1>1. ASSUME NEW t \in Threads PROVE Spec /\ []NoDeadlock => EndsWithin(0, t)
  <2>1. LInv /\ Inside(t) => ~AtMost(0)
    <3> SUFFICES ASSUME LInv, Inside(t), AtMost(0) PROVE FALSE
      OBVIOUS
    <3>1. Cardinality(Work) \in Nat /\ IsFiniteSet(Work)
      BY WorkIsFinite, LoaderAssumption
    <3>2. Work = {}
      BY <3>1, FS_EmptySet DEF AtMost
    <3>3. Stage(pc[t]) \in 1 .. 13
      BY DEF Stage, Inside, AtRest, LInv, IInv, TypeOK, PCs, InMonitor, Extracting
    <3>4. jvm[JvmOf[t]] # "gone"
      BY DEF LInv, Dead, Inside, AtRest
    <3>5. <<"stage", 1>> \in Due(t) /\ <<"stage", 1>> \in Chores
      BY <3>3, <3>4 DEF Due, Stages, Chores
    <3>6. <<t, <<"stage", 1>>>> \in Work
      BY <3>5 DEF Work
    <3> QED BY <3>2, <3>6
  <2> QED BY <2>1, LInvariance, LoaderAssumption, PTL DEF EndsWithin
<1>2. ASSUME NEW t \in Threads PROVE Spec /\ []NoDeadlock => \A n \in Nat : EndsWithin(n, t)
  <2> SUFFICES ASSUME Spec /\ []NoDeadlock PROVE \A n \in Nat : EndsWithin(n, t)
    OBVIOUS
  <2>1. PICK f : \A n \in Nat : f[n] = 1 <=> EndsWithin(n, t)
    <3>1. Mentioned([n \in Nat |-> IF EndsWithin(n, t) THEN 1 ELSE 0])
      BY DEF Mentioned
    <3>2. \A g : Mentioned(g) => \E f : \A n \in Nat : f[n] = g[n]
      OBVIOUS
    <3> QED BY <3>1, <3>2
  <2>2. f[0] = 1
    BY <1>1, <2>1
  <2>3. \A n \in Nat : f[n] = 1 => f[n + 1] = 1
    BY <2>1, EndsAfter, LoaderAssumption
  <2> QED BY <2>1, <2>2, <2>3, Induction
<1>3. Most \in Nat /\ AtMost(Most)
  BY WorkIsFinite, LoaderAssumption
<1>4. ASSUME NEW t \in Threads
      PROVE  Spec /\ []NoDeadlock => (pc[t] = "wait" ~> pc[t] \in AtRest)
  <2>1. Spec /\ []NoDeadlock => EndsWithin(Most, t)
    BY <1>2, <1>3
  <2>2. pc[t] = "wait" => Inside(t)
    BY DEF Inside, AtRest
  <2>3. ~Inside(t) <=> pc[t] \in AtRest
    BY DEF Inside
  <2> QED BY <1>3, <2>1, <2>2, <2>3, PTL DEF EndsWithin
<1> QED BY <1>4 DEF EveryLoadReturns
=============================================================================
