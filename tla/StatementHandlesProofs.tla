------------------------ MODULE StatementHandlesProofs ------------------------
(***************************************************************************)
(* Theorems about StatementHandles, for any number of threads, statements  *)
(* and pointers.  The inductive invariant says that a SafeStmtPtr is open  *)
(* exactly while the statement at its address is its own (Handles), and    *)
(* which fields a thread may rely on where (Control).                      *)
(***************************************************************************)
EXTENDS StatementHandles, TLAPS

-----------------------------------------------------------------------------
(* The inductive invariant.                                                *)

Handles ==
  /\ \A p \in Ptrs : Usable(p) => owner[addr[p]] = p
  /\ \A a \in Addrs : owner[a] # NoPtr =>
       /\ Usable(owner[a]) /\ addr[owner[a]] = a
       /\ owner[a] \in stmts \cup {begin}
  /\ \A p \in stmts : ~closed[p]
  /\ begin # NoPtr => begin \notin stmts /\ addr[begin] # NoAddr
  /\ ~dbOpen => \A a \in Addrs : owner[a] = NoPtr

OnStatement ==
  {"rsClose", "readClose", "close", "step", "stepClose", "ensure", "ensureRun", "read", "use"}
Constructing == {"prepare", "compile", "read", "use"}
Off == {"idle", "dbEnter", "dbClose", "interrupt"}

Control(t) ==
  /\ pc[t] \in OnStatement => pointer[st[t]] # NoPtr
  /\ pc[t] \in {"close", "use"} => held[t] # NoPtr
  /\ pc[t] = "ensureRun" => begin # NoPtr
  /\ pc[t] \in {"prepare", "compile"} => goal[t] \in {"execute", "construct"}
  /\ goal[t] = "execute" => st[t] \notin Prepared
  /\ goal[t] = "construct" => st[t] \in Prepared /\ pc[t] \in Constructing

Exclusive ==
  \A t, u \in Threads :
    t # u /\ goal[t] = "construct" /\ pc[u] \notin Off => st[u] # st[t]

IInv == TypeOK /\ Handles /\ (\A t \in Threads : Control(t)) /\ Exclusive

-----------------------------------------------------------------------------
(* The operations on native statements, as steps of the contract.          *)

LEMMA UseStep ==
  ASSUME TypeOK, Handles, NEW p \in Ptrs, NativeCall(p)
  PROVE  /\ called' \in Ptrs \cup {NoPtr} /\ UNCHANGED <<owner, dbOpen>>
         /\ Contract!Next \/ UNCHANGED nativeVars
<1>1. CASE Usable(p)
  <2>1. addr[p] \in Addrs /\ owner[addr[p]] = p
    BY <1>1 DEF Usable, Handles, TypeOK
  <2>2. dbOpen
    BY <2>1, HandleAssumption DEF Handles
  <2>3. Contract!Use(p, addr[p])
    BY <1>1, <2>1, <2>2 DEF NativeCall, Contract!Use
  <2> QED BY <1>1, <2>1, <2>3 DEF NativeCall, Contract!Next
<1>2. CASE ~Usable(p)
  BY <1>2 DEF NativeCall, nativeVars, TypeOK
<1> QED BY <1>1, <1>2

LEMMA CloseStep ==
  ASSUME TypeOK, Handles, NEW p \in Ptrs, ClosePtr(p), UNCHANGED <<begin, addr>>
  PROVE  /\ closed' \in [Ptrs -> BOOLEAN] /\ closeException' \in [Ptrs -> BOOLEAN]
         /\ stmts' \in SUBSET Ptrs /\ owner' \in [Addrs -> Ptrs \cup {NoPtr}]
         /\ called' \in Ptrs \cup {NoPtr} /\ UNCHANGED dbOpen
         /\ Handles'
         /\ Contract!Next \/ UNCHANGED nativeVars
<1>1. CASE closed[p]
  BY <1>1 DEF ClosePtr, Handles, Usable, TypeOK, nativeVars
<1>2. CASE ~closed[p] /\ addr[p] = NoAddr
  <2>1. /\ owner' = owner /\ called' = called /\ dbOpen' = dbOpen
        /\ closed' = [closed EXCEPT ![p] = TRUE]
        /\ closeException' = [closeException EXCEPT ![p] = addr[p] = NoAddr]
        /\ stmts' = {q \in stmts : addr[q] # addr[p]}
    BY <1>2, HandleAssumption DEF ClosePtr, TypeOK
  <2>2. \A q \in Ptrs : Usable(q)' <=> Usable(q)
    BY <1>2, <2>1 DEF Usable, TypeOK
  <2>3. Handles'
    BY <1>2, <2>1, <2>2 DEF Handles, TypeOK, Usable
  <2> QED BY <2>1, <2>3 DEF TypeOK, nativeVars
<1>3. CASE ~closed[p] /\ addr[p] # NoAddr
  <2>1. addr[p] \in Addrs /\ owner[addr[p]] = p /\ dbOpen
    BY <1>3, HandleAssumption DEF Usable, Handles, TypeOK
  <2>2. /\ owner' = [owner EXCEPT ![addr[p]] = NoPtr]
        /\ called' = NoPtr /\ dbOpen' = dbOpen
        /\ closed' = [closed EXCEPT ![p] = TRUE]
        /\ closeException' = [closeException EXCEPT ![p] = addr[p] = NoAddr]
        /\ stmts' = {q \in stmts : addr[q] # addr[p]}
    BY <1>3, <2>1 DEF ClosePtr, TypeOK
  <2>3. Contract!Finalize(p, addr[p])
    BY <2>1, <2>2 DEF Contract!Finalize
  <2>4. \A q \in Ptrs \ {p} : Usable(q) => addr[q] # addr[p]
    BY <2>1 DEF Handles
  <2>5. \A q \in Ptrs : Usable(q)' <=> Usable(q) /\ q # p
    BY <2>2 DEF Usable, TypeOK
  <2>6. Handles'
    <3>1. \A q \in Ptrs : Usable(q)' => owner'[addr'[q]] = q
      BY <2>1, <2>2, <2>4, <2>5 DEF Handles, TypeOK, Usable
    <3>2. \A a \in Addrs : owner'[a] # NoPtr =>
             /\ Usable(owner[a])' /\ addr'[owner'[a]] = a
             /\ owner'[a] \in stmts' \cup {begin'}
      BY <2>1, <2>2, <2>5 DEF Handles, TypeOK, Usable
    <3>3. \A q \in stmts' : ~closed'[q]
      BY <2>2 DEF Handles, TypeOK
    <3> QED BY <2>1, <2>2, <3>1, <3>2, <3>3 DEF Handles, TypeOK, Usable
  <2> QED BY <2>1, <2>2, <2>3, <2>6 DEF TypeOK, Contract!Next
<1> QED BY <1>1, <1>2, <1>3

\* A new pointer belongs to DB.stmts or is DB.begin.
LEMMA AllocateStep ==
  ASSUME TypeOK, Handles, NEW p \in Ptrs, NEW a \in Addrs \cup {NoAddr}, Allocate(p, a),
         \/ stmts' = stmts \cup (IF Added(a) THEN {p} ELSE {}) /\ UNCHANGED begin
         \/ a \in Addrs /\ begin = NoPtr /\ begin' = p /\ UNCHANGED stmts
  PROVE  /\ addr' \in [Ptrs -> Addrs \cup {NoAddr}]
         /\ closed' \in [Ptrs -> BOOLEAN] /\ closeException' \in [Ptrs -> BOOLEAN]
         /\ stmts' \in SUBSET Ptrs /\ owner' \in [Addrs -> Ptrs \cup {NoPtr}]
         /\ called' \in Ptrs \cup {NoPtr} /\ UNCHANGED dbOpen
         /\ Handles'
         /\ Contract!Next \/ UNCHANGED nativeVars
<1>1. /\ addr' = [addr EXCEPT ![p] = a] /\ closed' = [closed EXCEPT ![p] = FALSE]
      /\ closeException' = [closeException EXCEPT ![p] = FALSE]
      /\ p \notin stmts /\ p # begin /\ dbOpen /\ dbOpen' = dbOpen
      /\ a # NoAddr => a \in Addrs /\ owner[a] = NoPtr
  BY HandleAssumption DEF Allocate, NewPtr, Referenced
<1>2. \A b \in Addrs : owner[b] # p
  BY <1>1, HandleAssumption DEF Handles, TypeOK
<1>3. \A q \in Ptrs \ {p} : Usable(q)' <=> Usable(q)
  BY <1>1 DEF Usable, TypeOK
<1>4. CASE a = NoAddr
  <2>1. owner' = owner /\ called' = called
    BY <1>4, HandleAssumption DEF Allocate, TypeOK
  <2>2. ~Usable(p)' /\ ~closed'[p]
    BY <1>1, <1>4 DEF Usable, TypeOK
  <2>3. Handles'
    <3>0. begin' = begin /\ stmts \subseteq stmts' /\ stmts' \subseteq stmts \cup {p}
      BY <1>4, HandleAssumption
    <3>1. \A q \in Ptrs : Usable(q)' => owner'[addr'[q]] = q
      BY <1>1, <1>3, <2>1, <2>2 DEF Handles, TypeOK
    <3>2. \A b \in Addrs : owner'[b] # NoPtr =>
             /\ Usable(owner[b])' /\ addr'[owner'[b]] = b
             /\ owner'[b] \in stmts' \cup {begin'}
      BY <1>1, <1>2, <1>3, <2>1, <3>0 DEF Handles, TypeOK
    <3>3. \A q \in stmts' : ~closed'[q]
      BY <1>1, <3>0 DEF Handles, TypeOK
    <3> QED BY <1>1, <2>1, <3>0, <3>1, <3>2, <3>3 DEF Handles, TypeOK
  <2> QED BY <1>1, <2>1, <2>3 DEF TypeOK, nativeVars
<1>5. CASE a # NoAddr
  <2>1. /\ a \in Addrs /\ owner[a] = NoPtr
        /\ owner' = [owner EXCEPT ![a] = p] /\ called' = NoPtr
    BY <1>1, <1>5 DEF Allocate, TypeOK
  <2>2. Contract!Prepare(p, a)
    BY <1>1, <1>2, <2>1 DEF Contract!Prepare
  <2>3. Added(a)
    <3>1. \A q \in stmts : addr[q] = a => owner[a] = q
      BY <1>5 DEF Handles, Usable, TypeOK
    <3> QED BY <2>1, <3>1, HandleAssumption DEF Added, TypeOK
  <2>4. Usable(p)' /\ addr'[p] = a
    BY <1>1, <1>5 DEF Usable, TypeOK
  <2>5. \A q \in Ptrs \ {p} : Usable(q) => addr[q] # a
    BY <2>1, HandleAssumption DEF Handles
  <2>6. Handles'
    <3>0. p \in stmts' \cup {begin'} /\ stmts \cup {begin} \subseteq stmts' \cup {begin', NoPtr}
          /\ stmts' \subseteq stmts \cup {p} /\ begin' \in {begin, p}
          /\ (begin' = p => p \notin stmts')
      BY <1>1, <2>3
    <3>1. \A q \in Ptrs : Usable(q)' => owner'[addr'[q]] = q
      BY <1>1, <1>3, <2>1, <2>4, <2>5 DEF Handles, TypeOK, Usable
    <3>2. \A b \in Addrs : owner'[b] # NoPtr =>
             /\ Usable(owner[b])' /\ addr'[owner'[b]] = b
             /\ owner'[b] \in stmts' \cup {begin'}
      BY <1>1, <1>2, <1>3, <2>1, <2>4, <3>0 DEF Handles, TypeOK
    <3>3. \A q \in stmts' : ~closed'[q]
      BY <1>1, <3>0 DEF Handles, TypeOK
    <3>4. begin' # NoPtr => begin' \notin stmts' /\ addr'[begin'] # NoAddr
      BY <1>1, <1>5, <2>4, <3>0, HandleAssumption DEF Handles, TypeOK
    <3> QED BY <1>1, <2>1, <3>1, <3>2, <3>3, <3>4 DEF Handles
  <2> QED BY <1>1, <2>1, <2>2, <2>6, <2>3 DEF TypeOK, Contract!Next
<1> QED BY <1>4, <1>5

-----------------------------------------------------------------------------
(* Control: a step of one thread does not disturb the others.              *)

Mine(t) ==
  \A u \in Threads \ {t} :
    pc'[u] = pc[u] /\ st'[u] = st[u] /\ goal'[u] = goal[u] /\ held'[u] = held[u]

PointerStep(t) ==
  \/ pointer' = pointer
  \/ \E p \in Ptrs : pointer' = [pointer EXCEPT ![st[t]] = p]
  \/ goal[t] = "construct" /\ pointer' = [pointer EXCEPT ![st[t]] = NoPtr]

BeginStep == begin' = begin \/ begin' \in Ptrs

Continues(t) ==
  /\ pc'[t] \notin Off => pc[t] \notin Off /\ st'[t] = st[t]
  /\ goal'[t] = "construct" => goal[t] = "construct" /\ st'[t] = st[t]

ThreadTypes ==
  /\ pc' \in [Threads -> PCs] /\ st' \in [Threads -> Statements]
  /\ goal' \in [Threads -> Goals] /\ held' \in [Threads -> Ptrs \cup {NoPtr}]

LEMMA Frame ==
  ASSUME IInv, NEW t \in Threads, Mine(t), PointerStep(t), BeginStep, Control(t)', Continues(t)
  PROVE  (\A u \in Threads : Control(u)') /\ Exclusive'
<1>1. ASSUME NEW u \in Threads, u # t PROVE Control(u)'
  <2>1. pc'[u] = pc[u] /\ st'[u] = st[u] /\ goal'[u] = goal[u] /\ held'[u] = held[u]
    BY <1>1 DEF Mine
  <2>2. Control(u)
    BY DEF IInv
  <2>3. ASSUME pc[u] \in OnStatement PROVE pointer'[st[u]] # NoPtr
    <3>1. pointer[st[u]] # NoPtr /\ pc[u] \notin Off
      BY <2>2, <2>3 DEF Control, OnStatement, Off
    <3>2. goal[t] = "construct" => st[u] # st[t]
      BY <1>1, <3>1 DEF IInv, Exclusive
    <3> QED BY <3>1, <3>2, HandleAssumption DEF PointerStep, IInv, TypeOK
  <2>4. begin # NoPtr => begin' # NoPtr
    BY HandleAssumption DEF BeginStep
  <2> QED BY <2>1, <2>2, <2>3, <2>4 DEF Control
<1>2. Exclusive'
  <2>1. SUFFICES ASSUME NEW u \in Threads, NEW v \in Threads, u # v,
                        goal'[u] = "construct", pc'[v] \notin Off
                 PROVE  st'[v] # st'[u]
    BY DEF Exclusive, Off
  <2>2. goal[u] = "construct" /\ st'[u] = st[u]
    BY <2>1 DEF Mine, Continues
  <2>3. pc[v] \notin Off /\ st'[v] = st[v]
    BY <2>1 DEF Mine, Continues
  <2> QED BY <2>1, <2>2, <2>3 DEF IInv, Exclusive
<1> QED BY <1>1, <1>2

\* The ways a step ends.
LEMMA ReturnControl ==
  ASSUME IInv, NEW t \in Threads, Return(t)
  PROVE  ThreadTypes /\ Mine(t) /\ Control(t)' /\ Continues(t)
<1>1. (CHOOSE s \in Statements : TRUE) \in Statements
  BY HandleAssumption
<1>2. /\ pc' = [pc EXCEPT ![t] = "idle"] /\ goal' = [goal EXCEPT ![t] = "close"]
      /\ st' = [st EXCEPT ![t] = CHOOSE s \in Statements : TRUE]
      /\ held' = [held EXCEPT ![t] = NoPtr]
  BY DEF Return, Goto
<1> DEFINE s0 == CHOOSE s \in Statements : TRUE
<1> HIDE DEF s0
<1>3. s0 \in Statements /\ st' = [st EXCEPT ![t] = s0]
  BY <1>1, <1>2 DEF s0
<1>4. pc'[t] = "idle" /\ goal'[t] = "close"
  BY <1>2 DEF IInv, TypeOK
<1>5. ThreadTypes
  BY <1>2, <1>3 DEF IInv, TypeOK, ThreadTypes, PCs, Goals
<1>6. Mine(t)
  BY <1>2, <1>3 DEF IInv, TypeOK, Mine
<1> QED BY <1>4, <1>5, <1>6 DEF Control, OnStatement, Continues, Off

LEMMA ThrowControl ==
  ASSUME IInv, NEW t \in Threads, Throw(t)
  PROVE  /\ ThreadTypes /\ Mine(t) /\ Control(t)' /\ Continues(t) /\ PointerStep(t)
         /\ pointer' \in [Statements -> Ptrs \cup {NoPtr}]
<1>1. Return(t)
  BY DEF Throw
<1>2. CASE goal[t] = "construct"
  <2>1. pointer' = [pointer EXCEPT ![st[t]] = NoPtr]
    BY <1>2 DEF Throw
  <2> QED BY <1>1, <1>2, <2>1, ReturnControl DEF PointerStep, IInv, TypeOK
<1>3. CASE goal[t] # "construct"
  <2>1. pointer' = pointer
    BY <1>3 DEF Throw
  <2> QED BY <1>1, <2>1, ReturnControl DEF PointerStep, IInv, TypeOK
<1> QED BY <1>2, <1>3

\* A step to another place of the same call.
LEMMA StayControl ==
  ASSUME IInv, NEW t \in Threads, NEW at \in PCs \ {"close", "use"}, Stay(t, at),
         pc[t] \notin Off \/ at \in Off,
         at \in OnStatement => pointer'[st[t]] # NoPtr,
         at = "ensureRun" => begin' # NoPtr,
         at \in {"prepare", "compile"} => goal[t] \in {"execute", "construct"},
         goal[t] = "construct" => at \in Constructing
  PROVE  ThreadTypes /\ Mine(t) /\ Control(t)' /\ Continues(t)
<1>1. /\ pc' = [pc EXCEPT ![t] = at] /\ UNCHANGED <<st, goal, held>>
  BY DEF Stay, Goto
<1>2. Control(t) /\ pc'[t] = at
  BY <1>1 DEF IInv, TypeOK
<1> QED BY <1>1, <1>2 DEF IInv, TypeOK, ThreadTypes, Mine, Control, Continues

LEMMA FailedControl ==
  ASSUME IInv, NEW t \in Threads, StepFailed(t), pointer' = pointer,
         pc[t] \in {"step", "stepClose", "ensure", "ensureRun"}
  PROVE  ThreadTypes /\ Mine(t) /\ Control(t)' /\ Continues(t)
<1>1. /\ pc' = [pc EXCEPT ![t] = IF goal[t] = "execute" THEN "readClose" ELSE "read"]
      /\ goal' = [goal EXCEPT ![t] = "close"] /\ UNCHANGED <<st, held>>
  BY DEF StepFailed, Goto
<1>2. pc'[t] \in {"readClose", "read"} /\ goal'[t] = "close" /\ Control(t)
  BY <1>1 DEF IInv, TypeOK
<1>3. ThreadTypes /\ Mine(t)
  BY <1>1 DEF IInv, TypeOK, ThreadTypes, Mine, PCs, Goals
<1>4. pointer'[st'[t]] # NoPtr
  BY <1>1, <1>2 DEF Control, OnStatement
<1> QED BY <1>1, <1>2, <1>3, <1>4 DEF Control, Continues, Off, OnStatement

LEMMA SucceededControl ==
  ASSUME IInv, NEW t \in Threads, StepSucceeded(t), pointer' = pointer,
         pc[t] \in {"step", "ensureRun"}
  PROVE  ThreadTypes /\ Mine(t) /\ Control(t)' /\ Continues(t)
<1>1. CASE goal[t] = "execute"
  <2>1. Stay(t, "read")
    BY <1>1 DEF StepSucceeded
  <2>2. pointer'[st[t]] # NoPtr
    BY DEF IInv, Control, OnStatement
  <2> QED BY <1>1, <2>1, <2>2, StayControl DEF PCs, OnStatement, Off
<1>2. CASE goal[t] # "execute"
  BY <1>2, ReturnControl DEF StepSucceeded
<1> QED BY <1>1, <1>2
DataTypes ==
  /\ lock' \in Threads \cup {NoThread} /\ dbClosed' \in BOOLEAN /\ dbOpen' \in BOOLEAN
  /\ addr' \in [Ptrs -> Addrs \cup {NoAddr}]
  /\ closed' \in [Ptrs -> BOOLEAN] /\ closeException' \in [Ptrs -> BOOLEAN]
  /\ stmts' \in SUBSET Ptrs /\ owner' \in [Addrs -> Ptrs \cup {NoPtr}]
  /\ called' \in Ptrs \cup {NoPtr}

Good == IInv' /\ (Contract!Next \/ UNCHANGED nativeVars)

LEMMA Assemble ==
  ASSUME IInv, NEW t \in Threads, ThreadTypes, Mine(t), Control(t)', Continues(t),
         PointerStep(t), BeginStep, DataTypes, Handles',
         Contract!Next \/ UNCHANGED nativeVars
  PROVE  Good
<1>1. pointer' \in [Statements -> Ptrs \cup {NoPtr}] /\ begin' \in Ptrs \cup {NoPtr}
  BY DEF PointerStep, BeginStep, IInv, TypeOK
<1>2. TypeOK'
  BY <1>1 DEF ThreadTypes, DataTypes, TypeOK
<1> QED BY <1>2, Frame DEF IInv, Good

\* Steps that leave the Java objects and SQLite alone.
LEMMA ControlOnly ==
  ASSUME IInv, NEW t \in Threads, ThreadTypes, Mine(t), Control(t)', Continues(t),
         UNCHANGED <<javaVars, nativeVars>>, lock' \in {lock, t, NoThread}
  PROVE  Good
<1>1. DataTypes /\ PointerStep(t) /\ BeginStep
  BY DEF IInv, TypeOK, DataTypes, PointerStep, BeginStep, javaVars, nativeVars
<1>2. Handles'
  BY DEF IInv, Handles, Usable, javaVars, nativeVars
<1> QED BY <1>1, <1>2, Assemble

-----------------------------------------------------------------------------
(* Every action preserves the invariant and keeps the contract.            *)

LEMMA StartStep ==
  ASSUME IInv, NEW t \in Threads, NEW s \in Statements, NEW g \in Goals, NEW at \in PCs,
         Start(t, s, g, at), UNCHANGED <<lock, javaVars, nativeVars>>,
         at \notin {"close", "use", "ensureRun"},
         g = "construct" => s \in Prepared /\ at \in Constructing /\ pointer[s] = NoPtr,
         \/ at \in Off /\ g = "close"
         \/ /\ at \in OnStatement => pointer[s] # NoPtr
            /\ at \in {"prepare", "compile"} => g \in {"execute", "construct"}
            /\ g = "execute" => s \notin Prepared
            /\ \A u \in Threads : goal[u] = "construct" => st[u] # s
  PROVE  Good
<1>1. /\ pc' = [pc EXCEPT ![t] = at] /\ st' = [st EXCEPT ![t] = s]
      /\ goal' = [goal EXCEPT ![t] = g] /\ held' = held /\ pc[t] = "idle"
  BY DEF Start, Goto
<1>2. pc'[t] = at /\ st'[t] = s /\ goal'[t] = g
  BY <1>1 DEF IInv, TypeOK
<1>3. TypeOK'
  BY <1>1 DEF IInv, TypeOK, javaVars, nativeVars
<1>4. Handles'
  BY DEF IInv, Handles, Usable, javaVars, nativeVars
<1>5. ASSUME NEW u \in Threads PROVE Control(u)'
  <2>1. CASE u = t
    BY <1>2, <2>1 DEF Control, OnStatement, Off, javaVars
  <2>2. CASE u # t
    <3>1. pc'[u] = pc[u] /\ st'[u] = st[u] /\ goal'[u] = goal[u] /\ held'[u] = held[u]
      BY <1>1, <2>2 DEF IInv, TypeOK
    <3> QED BY <3>1 DEF IInv, Control, javaVars
  <2> QED BY <2>1, <2>2
<1>6. Exclusive'
  <2>1. SUFFICES ASSUME NEW u \in Threads, NEW v \in Threads, u # v,
                        goal'[u] = "construct", pc'[v] \notin Off
                 PROVE  st'[v] # st'[u]
    BY DEF Exclusive, Off
  <2>2. \A w \in Threads \ {t} : pc'[w] = pc[w] /\ st'[w] = st[w] /\ goal'[w] = goal[w]
    BY <1>1 DEF IInv, TypeOK
  <2>3. CASE u = t
    <3>1. pc[v] \notin Off /\ st'[v] = st[v] /\ g = "construct" /\ st'[u] = s
      BY <1>2, <2>1, <2>2, <2>3
    <3>2. ASSUME st[v] = s PROVE FALSE
      <4>1. pc[v] \in {"prepare", "compile"}
        BY <3>1, <3>2 DEF IInv, TypeOK, Control, OnStatement, Off, PCs
      <4>2. goal[v] = "construct"
        BY <3>1, <3>2, <4>1 DEF IInv, Control
      <4> QED BY <3>1, <3>2, <4>2 DEF Off, Constructing
    <3> QED BY <3>1, <3>2
  <2>4. CASE v = t
    <3>1. goal[u] = "construct" /\ st'[u] = st[u] /\ st'[v] = s /\ at \notin Off
      BY <1>2, <2>1, <2>2, <2>4
    <3> QED BY <3>1
  <2>5. CASE u # t /\ v # t
    BY <2>1, <2>2, <2>5 DEF IInv, Exclusive
  <2> QED BY <2>3, <2>4, <2>5
<1> QED BY <1>3, <1>4, <1>5, <1>6 DEF Good, IInv, nativeVars

LEMMA StartActions ==
  ASSUME IInv, NEW t \in Threads,
         \/ \E s \in Statements :
              \/ Execute(t, s) \/ CloseStatement(t, s) \/ PrepareStatement(t, s)
              \/ ExecutePrepared(t, s) \/ Call(t, s)
         \/ CloseConnection(t) \/ Cancel(t)
  PROVE  Good
<1>1. ASSUME NEW s \in Statements, Execute(t, s) PROVE Good
  <2>1. \A u \in Threads : goal[u] = "construct" => st[u] # s
    BY <1>1 DEF Execute, IInv, Control
  <2>2. PICK at \in {"rsClose", "prepare"} :
          Start(t, s, "execute", at) /\ (at = "rsClose" => pointer[s] # NoPtr)
    BY <1>1 DEF Execute, MustClose
  <2> QED BY <1>1, <2>1, <2>2, StartStep DEF Execute, Goals, PCs, OnStatement
<1>2. ASSUME NEW s \in Statements, CloseStatement(t, s) PROVE Good
  BY <1>2, StartStep DEF CloseStatement, Published, Goals, PCs, OnStatement
<1>3. ASSUME NEW s \in Statements, PrepareStatement(t, s) PROVE Good
  BY <1>3, StartStep DEF PrepareStatement, Goals, PCs, OnStatement, Constructing
<1>4. ASSUME NEW s \in Statements, ExecutePrepared(t, s) PROVE Good
  BY <1>4, StartStep DEF ExecutePrepared, Published, Goals, PCs, OnStatement
<1>5. ASSUME NEW s \in Statements, Call(t, s) PROVE Good
  BY <1>5, StartStep DEF Call, Published, Goals, PCs, OnStatement
<1>6. ASSUME CloseConnection(t) PROVE Good
  <2>1. st[t] \in Statements
    BY DEF IInv, TypeOK
  <2> QED BY <1>6, <2>1, StartStep DEF CloseConnection, Goals, PCs, Off
<1>7. ASSUME Cancel(t) PROVE Good
  <2>1. st[t] \in Statements
    BY DEF IInv, TypeOK
  <2> QED BY <1>7, <2>1, StartStep DEF Cancel, Goals, PCs, Off
<1> QED BY <1>1, <1>2, <1>3, <1>4, <1>5, <1>6, <1>7

\* Steps that make one call through safeRun and change no Java object but a
\* half-made PreparedStatement.
LEMMA CallGood ==
  ASSUME IInv, NEW t \in Threads, NEW p \in Ptrs, NativeCall(p),
         ThreadTypes, Mine(t), Control(t)', Continues(t), PointerStep(t),
         UNCHANGED <<begin, addr, closed, closeException, stmts, dbClosed>>,
         lock' \in {lock, t, NoThread}
  PROVE  Good
<1>1. /\ called' \in Ptrs \cup {NoPtr} /\ UNCHANGED <<owner, dbOpen>>
      /\ Contract!Next \/ UNCHANGED nativeVars
  BY UseStep DEF IInv
<1>2. DataTypes /\ BeginStep
  BY <1>1 DEF IInv, TypeOK, DataTypes, BeginStep
<1>3. Handles'
  BY <1>1 DEF IInv, Handles, Usable
<1> QED BY <1>1, <1>2, <1>3, Assemble

\* Steps that close a pointer.
LEMMA CloseGood ==
  ASSUME IInv, NEW t \in Threads, NEW p \in Ptrs, ClosePtr(p),
         ThreadTypes, Mine(t), Control(t)', Continues(t),
         UNCHANGED <<pointer, begin, addr, dbClosed>>,
         lock' \in {lock, t, NoThread}
  PROVE  Good
<1>1. /\ closed' \in [Ptrs -> BOOLEAN] /\ closeException' \in [Ptrs -> BOOLEAN]
      /\ stmts' \in SUBSET Ptrs /\ owner' \in [Addrs -> Ptrs \cup {NoPtr}]
      /\ called' \in Ptrs \cup {NoPtr} /\ UNCHANGED dbOpen
      /\ Handles'
      /\ Contract!Next \/ UNCHANGED nativeVars
  BY CloseStep DEF IInv
<1>2. DataTypes /\ BeginStep /\ PointerStep(t)
  BY <1>1 DEF IInv, TypeOK, DataTypes, BeginStep, PointerStep
<1> QED BY <1>1, <1>2, Assemble

\* Steps that make one.
LEMMA AllocateGood ==
  ASSUME IInv, NEW t \in Threads, NEW p \in Ptrs, NEW a \in Addrs \cup {NoAddr}, Allocate(p, a),
         \/ stmts' = stmts \cup (IF Added(a) THEN {p} ELSE {}) /\ UNCHANGED begin
         \/ a \in Addrs /\ begin = NoPtr /\ begin' = p /\ UNCHANGED stmts,
         ThreadTypes, Mine(t), Control(t)', Continues(t), PointerStep(t),
         UNCHANGED dbClosed, lock' \in {lock, t, NoThread}
  PROVE  Good
<1>1. /\ addr' \in [Ptrs -> Addrs \cup {NoAddr}]
      /\ closed' \in [Ptrs -> BOOLEAN] /\ closeException' \in [Ptrs -> BOOLEAN]
      /\ stmts' \in SUBSET Ptrs /\ owner' \in [Addrs -> Ptrs \cup {NoPtr}]
      /\ called' \in Ptrs \cup {NoPtr} /\ UNCHANGED dbOpen
      /\ Handles'
      /\ Contract!Next \/ UNCHANGED nativeVars
  BY AllocateStep DEF IInv
<1>2. DataTypes /\ BeginStep
  BY <1>1 DEF IInv, TypeOK, DataTypes, BeginStep
<1> QED BY <1>1, <1>2, Assemble

LEMMA HereAndThere ==
  ASSUME IInv, NEW t \in Threads
  PROVE  /\ pc[t] \in OnStatement => pointer[st[t]] \in Ptrs
         /\ pc[t] \in {"close", "use"} => held[t] \in Ptrs
         /\ begin # NoPtr => begin \in Ptrs
BY DEF IInv, TypeOK, Control

LEMMA CloseActions ==
  ASSUME IInv, NEW t \in Threads,
         RsClose(t) \/ ReadForClose(t) \/ Close(t) \/ Prepare(t) \/ CompileFails(t)
  PROVE  Good
<1>0. Control(t) /\ pc[t] \in PCs
  BY DEF IInv, TypeOK
<1>1. CASE RsClose(t)
  <2>1. pc[t] = "rsClose" /\ pointer[st[t]] \in Ptrs /\ UNCHANGED <<lock, javaVars>>
    BY <1>1, HereAndThere DEF RsClose, OnStatement
  <2>2. ASSUME Stay(t, "readClose")
        PROVE  ThreadTypes /\ Mine(t) /\ Control(t)' /\ Continues(t)
    BY <1>0, <2>1, <2>2, StayControl, HandleAssumption
       DEF PCs, Off, OnStatement, Control, Constructing, javaVars
  <2>3. CASE UNCHANGED nativeVars /\ Stay(t, "readClose")
    BY <2>1, <2>2, <2>3, ControlOnly
  <2>4. CASE NativeCall(pointer[st[t]]) /\ (Return(t) \/ Stay(t, "readClose"))
    BY <2>1, <2>2, <2>4, ReturnControl, CallGood DEF PointerStep, javaVars
  <2> QED BY <1>1, <2>3, <2>4 DEF RsClose
<1>2. CASE ReadForClose(t)
  <2>1. /\ pc[t] = "readClose" /\ pc' = [pc EXCEPT ![t] = "close"]
        /\ held' = [held EXCEPT ![t] = pointer[st[t]]]
        /\ UNCHANGED <<st, goal, lock, javaVars, nativeVars>>
    BY <1>2 DEF ReadForClose, ReadPtr, Goto
  <2>2. pointer[st[t]] \in Ptrs /\ pc'[t] = "close" /\ held'[t] = pointer[st[t]]
    BY <2>1, HereAndThere DEF OnStatement, IInv, TypeOK
  <2>3. ThreadTypes /\ Mine(t)
    BY <2>1, <2>2 DEF IInv, TypeOK, ThreadTypes, Mine, PCs
  <2>4. Control(t)' /\ Continues(t)
    BY <1>0, <2>1, <2>2, HandleAssumption DEF Control, Continues, Off, OnStatement, Constructing, javaVars
  <2> QED BY <2>1, <2>3, <2>4, ControlOnly
<1>3. CASE Close(t)
  <2>1. /\ pc[t] = "close" /\ held[t] \in Ptrs /\ ClosePtr(held[t])
        /\ UNCHANGED <<lock, pointer, begin, addr, dbClosed>>
    BY <1>3, HereAndThere DEF Close
  <2>2. CASE Return(t)
    BY <2>1, <2>2, ReturnControl, CloseGood
  <2>3. CASE goal[t] = "execute" /\ Goto(t, "prepare") /\ held' = [held EXCEPT ![t] = NoPtr] /\ UNCHANGED <<st, goal>>
    <3>1. pc' = [pc EXCEPT ![t] = "prepare"] /\ pc'[t] = "prepare"
      BY <2>3 DEF Goto, IInv, TypeOK
    <3>2. ThreadTypes /\ Mine(t)
      BY <2>3, <3>1 DEF IInv, TypeOK, ThreadTypes, Mine, PCs
    <3>3. Control(t)' /\ Continues(t)
      BY <1>0, <2>1, <2>3, <3>1 DEF Control, Continues, Off, OnStatement, Constructing
    <3> QED BY <2>1, <3>2, <3>3, CloseGood
  <2> QED BY <1>3, <2>2, <2>3 DEF Close
<1>4. CASE Prepare(t)
  <2>1. /\ pc[t] = "prepare" /\ UNCHANGED <<pointer, begin, addr, dbClosed>>
        /\ lock' \in {lock, t} /\ (Return(t) \/ Stay(t, "compile"))
    BY <1>4 DEF Prepare
  <2>2. ThreadTypes /\ Mine(t) /\ Control(t)' /\ Continues(t)
    BY <1>0, <2>1, ReturnControl, StayControl DEF PCs, Off, OnStatement, Control, Constructing
  <2>3. CASE pointer[st[t]] = NoPtr
    <3>1. UNCHANGED <<javaVars, nativeVars>>
      BY <1>4, <2>1, <2>3 DEF Prepare, javaVars
    <3> QED BY <2>1, <2>2, <3>1, ControlOnly
  <2>4. CASE pointer[st[t]] # NoPtr
    <3>1. pointer[st[t]] \in Ptrs /\ ClosePtr(pointer[st[t]])
      BY <1>4, <2>4 DEF Prepare, IInv, TypeOK
    <3> QED BY <2>1, <2>2, <3>1, CloseGood
  <2> QED BY <2>3, <2>4
<1>5. CASE CompileFails(t)
  <2>1. /\ Throw(t) /\ lock' = NoThread
        /\ UNCHANGED <<begin, addr, closed, closeException, stmts, dbClosed, nativeVars>>
    BY <1>5 DEF CompileFails
  <2>2. DataTypes /\ BeginStep /\ Handles'
    BY <2>1 DEF IInv, TypeOK, DataTypes, BeginStep, Handles, Usable, nativeVars
  <2> QED BY <2>1, <2>2, ThrowControl, Assemble
<1> QED BY <1>1, <1>2, <1>3, <1>4, <1>5

LEMMA CompileAction ==
  ASSUME IInv, NEW t \in Threads, NEW p \in Ptrs, NEW a \in Addrs \cup {NoAddr}, Compile(t, p, a)
  PROVE  Good
<1>0. Control(t) /\ st[t] \in Statements /\ p # NoPtr
  BY HandleAssumption DEF IInv, TypeOK
<1>1. /\ pc[t] = "compile" /\ lock' = NoThread /\ Allocate(p, a)
      /\ stmts' = stmts \cup (IF Added(a) THEN {p} ELSE {})
      /\ UNCHANGED <<begin, dbClosed>>
  BY DEF Compile
<1>2. CASE Added(a)
  <2>1. pointer' = [pointer EXCEPT ![st[t]] = p]
    BY <1>2 DEF Compile
  <2>2. PICK at \in {"read", "step"} : Stay(t, at) /\ (goal[t] = "construct" => at = "read")
    BY <1>2 DEF Compile
  <2>3. pointer'[st[t]] # NoPtr /\ PointerStep(t)
    BY <1>0, <2>1 DEF IInv, TypeOK, PointerStep
  <2>4. at \in PCs \ {"close", "use"} /\ at \notin {"ensureRun", "prepare", "compile"}
        /\ (goal[t] = "construct" => at \in Constructing) /\ pc[t] \notin Off
    BY <1>1, <2>2 DEF PCs, Constructing, Off
  <2>5. ThreadTypes /\ Mine(t) /\ Control(t)' /\ Continues(t)
    BY <2>2, <2>3, <2>4, StayControl
  <2> QED BY <1>1, <2>3, <2>5, AllocateGood
<1>3. CASE ~Added(a)
  <2>1. Return(t) /\ pointer' = [pointer EXCEPT ![st[t]] = IF goal[t] = "construct" THEN NoPtr ELSE p]
    BY <1>3 DEF Compile
  <2>2. PointerStep(t)
    BY <2>1 DEF PointerStep
  <2> QED BY <1>1, <2>1, <2>2, ReturnControl, AllocateGood
<1> QED BY <1>2, <1>3

LEMMA StepActions ==
  ASSUME IInv, NEW t \in Threads,
         Step(t) \/ StepClose(t) \/ EnsureBegin(t) \/ EnsureRun(t)
  PROVE  Good
<1>0. Control(t) /\ pc[t] \in PCs
  BY DEF IInv, TypeOK
<1>1. CASE Step(t)
  <2>1. /\ pc[t] = "step" /\ pointer[st[t]] \in Ptrs /\ NativeCall(pointer[st[t]])
        /\ UNCHANGED javaVars /\ lock' \in {lock, t}
    BY <1>1, HereAndThere DEF Step, OnStatement
  <2>2. PointerStep(t) /\ UNCHANGED <<pointer, begin, addr, closed, closeException, stmts, dbClosed>>
    BY <2>1 DEF PointerStep, javaVars
  <2>3. ASSUME NEW at \in {"stepClose", "ensure"}, Stay(t, at)
        PROVE  ThreadTypes /\ Mine(t) /\ Control(t)' /\ Continues(t)
    <3>1. pointer'[st[t]] # NoPtr /\ goal[t] # "construct"
      BY <1>0, <2>1, <2>2 DEF Control, OnStatement, Constructing
    <3> QED BY <2>1, <2>3, <3>1, StayControl DEF PCs, Off
  <2>4. ThreadTypes /\ Mine(t) /\ Control(t)' /\ Continues(t)
    BY <1>1, <2>1, <2>2, <2>3, FailedControl, SucceededControl DEF Step
  <2> QED BY <2>1, <2>2, <2>4, CallGood
<1>2. CASE StepClose(t)
  <2>1. /\ pc[t] = "stepClose" /\ pointer[st[t]] \in Ptrs /\ ClosePtr(pointer[st[t]])
        /\ lock' = NoThread /\ StepFailed(t) /\ UNCHANGED <<pointer, begin, addr, dbClosed>>
    BY <1>2, HereAndThere DEF StepClose, OnStatement
  <2> QED BY <2>1, FailedControl, CloseGood
<1>3. CASE EnsureBegin(t)
  <2>1. pc[t] = "ensure" /\ UNCHANGED pointer /\ pointer[st[t]] # NoPtr /\ goal[t] # "construct"
    BY <1>0, <1>3 DEF EnsureBegin, javaVars, Control, OnStatement, Constructing
  <2>2. ASSUME begin' # NoPtr, Stay(t, "ensureRun")
        PROVE  ThreadTypes /\ Mine(t) /\ Control(t)' /\ Continues(t)
    BY <2>1, <2>2, StayControl DEF PCs, Off
  <2>3. CASE begin # NoPtr /\ Stay(t, "ensureRun") /\ UNCHANGED <<lock, javaVars, nativeVars>>
    BY <2>1, <2>2, <2>3, ControlOnly DEF javaVars
  <2>4. CASE /\ begin = NoPtr
             /\ \E p \in Ptrs, a \in Addrs : Allocate(p, a) /\ begin' = p
             /\ Stay(t, "ensureRun")
             /\ UNCHANGED <<lock, pointer, stmts, dbClosed>>
    <3>1. PICK p \in Ptrs, a \in Addrs : Allocate(p, a) /\ begin' = p
      BY <2>4
    <3>2. PointerStep(t) /\ begin' # NoPtr
      BY <2>1, <3>1, HandleAssumption DEF PointerStep
    <3> QED BY <2>1, <2>2, <2>4, <3>1, <3>2, AllocateGood
  <2>5. CASE begin = NoPtr /\ StepFailed(t) /\ lock' = NoThread /\ UNCHANGED <<javaVars, nativeVars>>
    BY <2>1, <2>5, FailedControl, ControlOnly DEF javaVars
  <2> QED BY <1>3, <2>3, <2>4, <2>5 DEF EnsureBegin
<1>4. CASE EnsureRun(t)
  <2>1. /\ pc[t] = "ensureRun" /\ begin \in Ptrs /\ NativeCall(begin) /\ lock' = NoThread
        /\ StepFailed(t) \/ StepSucceeded(t)
        /\ UNCHANGED <<pointer, begin, addr, closed, closeException, stmts, dbClosed>>
    BY <1>0, <1>4, HereAndThere DEF EnsureRun, Control, javaVars
  <2> QED BY <2>1, FailedControl, SucceededControl, CallGood DEF PointerStep
<1> QED BY <1>1, <1>2, <1>3, <1>4

LEMMA UseActions ==
  ASSUME IInv, NEW t \in Threads, Read(t) \/ Use(t) \/ Interrupt(t) \/ DbEnter(t)
  PROVE  Good
<1>0. Control(t)
  BY DEF IInv
<1>1. CASE Read(t)
  <2>1. /\ pc[t] = "read" /\ pc' = [pc EXCEPT ![t] = "use"]
        /\ held' = [held EXCEPT ![t] = pointer[st[t]]]
        /\ UNCHANGED <<st, goal, lock, javaVars, nativeVars>>
    BY <1>1 DEF Read, ReadPtr, Goto
  <2>2. pointer[st[t]] \in Ptrs /\ pc'[t] = "use" /\ held'[t] = pointer[st[t]]
    BY <2>1, HereAndThere DEF OnStatement, IInv, TypeOK
  <2>3. ThreadTypes /\ Mine(t)
    BY <2>1, <2>2 DEF IInv, TypeOK, ThreadTypes, Mine, PCs
  <2>4. Control(t)' /\ Continues(t)
    BY <1>0, <2>1, <2>2, HandleAssumption DEF Control, Continues, Off, OnStatement, Constructing, javaVars
  <2> QED BY <2>1, <2>3, <2>4, ControlOnly
<1>2. CASE Use(t)
  <2>1. /\ held[t] \in Ptrs /\ NativeCall(held[t])
        /\ UNCHANGED <<lock, begin, addr, closed, closeException, stmts, dbClosed>>
    BY <1>2, HereAndThere DEF Use
  <2>2. CASE Return(t) /\ UNCHANGED pointer
    BY <2>1, <2>2, ReturnControl, CallGood DEF PointerStep
  <2>3. CASE Throw(t)
    BY <2>1, <2>3, ThrowControl, CallGood
  <2> QED BY <1>2, <2>2, <2>3 DEF Use
<1>3. CASE Interrupt(t)
  BY <1>3, ReturnControl, ControlOnly DEF Interrupt
<1>4. CASE DbEnter(t)
  <2>1. pc[t] = "dbEnter" /\ Stay(t, "dbClose") /\ lock' = t /\ UNCHANGED <<javaVars, nativeVars>>
    BY <1>4 DEF DbEnter
  <2>2. goal[t] # "construct"
    BY <1>0, <2>1 DEF Control, Constructing
  <2> QED BY <2>1, <2>2, StayControl, ControlOnly DEF PCs, Off, OnStatement
<1> QED BY <1>1, <1>2, <1>3, <1>4

LEMMA DbCloseActions ==
  ASSUME IInv, NEW t \in Threads,
         (\E p \in stmts : DbCloseStatement(t, p)) \/ DbCloseBegin(t) \/ DbClosed(t)
  PROVE  Good
<1>0. pc[t] = "dbClose" /\ Control(t)
  BY DEF DbCloseStatement, DbCloseBegin, DbClosed, IInv
<1>1. ASSUME Stay(t, "dbClose") PROVE ThreadTypes /\ Mine(t) /\ Control(t)' /\ Continues(t)
  BY <1>0, <1>1, StayControl DEF PCs, Off, OnStatement, Control, Constructing
<1>2. ASSUME NEW p \in stmts, DbCloseStatement(t, p) PROVE Good
  <2>1. /\ p \in Ptrs /\ ClosePtr(p) /\ UNCHANGED <<pointer, begin, addr, dbClosed>>
        /\ lock' \in {lock, NoThread} /\ (Return(t) \/ Stay(t, "dbClose"))
    BY <1>2 DEF DbCloseStatement, IInv, TypeOK
  <2> QED BY <1>1, <2>1, ReturnControl, CloseGood
<1>3. ASSUME DbCloseBegin(t) PROVE Good
  <2>1. /\ begin \in Ptrs /\ ClosePtr(begin) /\ UNCHANGED <<pointer, begin, addr, dbClosed, lock>>
        /\ Stay(t, "dbClose")
    BY <1>3, HereAndThere DEF DbCloseBegin
  <2> QED BY <1>1, <2>1, CloseGood
<1>4. ASSUME DbClosed(t) PROVE Good
  <2>1. \A a \in Addrs : owner[a] = NoPtr
    BY <1>4 DEF DbClosed, IInv, Handles, Usable
  <2>2. /\ dbOpen' = FALSE /\ dbClosed' = TRUE /\ called' \in {called, NoPtr} /\ lock' = NoThread
        /\ Return(t) /\ UNCHANGED <<pointer, begin, addr, closed, closeException, stmts, owner>>
    BY <1>4 DEF DbClosed
  <2>3. Contract!Next \/ UNCHANGED nativeVars
    <3>1. CASE dbOpen
      <4>1. Contract!CloseDatabase
        BY <1>4, <2>1, <3>1 DEF DbClosed, Contract!CloseDatabase
      <4> QED BY <4>1 DEF Contract!Next
    <3>2. CASE ~dbOpen
      <4>1. dbOpen' = dbOpen
        BY <2>2, <3>2 DEF IInv, TypeOK
      <4> QED BY <1>4, <3>2, <4>1 DEF DbClosed, nativeVars
    <3> QED BY <3>1, <3>2
  <2>4. DataTypes /\ BeginStep /\ PointerStep(t)
    BY <2>2 DEF IInv, TypeOK, DataTypes, BeginStep, PointerStep
  <2>5. Handles'
    BY <2>1, <2>2 DEF IInv, Handles, Usable
  <2> QED BY <2>2, <2>3, <2>4, <2>5, ReturnControl, Assemble
<1> QED BY <1>2, <1>3, <1>4

LEMMA InitGood == Init => IInv /\ Contract!Init
<1>1. SUFFICES ASSUME Init PROVE IInv /\ Contract!Init
  OBVIOUS
<1>2. TypeOK
  <2>1. (CHOOSE s \in Statements : TRUE) \in Statements
    BY HandleAssumption
  <2>2. st \in [Threads -> Statements]
    BY <1>1, <2>1 DEF Init
  <2> QED BY <1>1, <2>2 DEF Init, TypeOK, PCs, Goals
<1>3. Handles
  BY <1>1 DEF Init, Handles, Usable
<1>4. \A t \in Threads : pc[t] = "idle" /\ goal[t] = "close"
  BY <1>1 DEF Init
<1>5. (\A t \in Threads : Control(t)) /\ Exclusive
  BY <1>4 DEF Control, Exclusive, OnStatement
<1> QED BY <1>1, <1>2, <1>3, <1>5 DEF IInv, Init, Contract!Init

LEMMA NextGood == IInv /\ [Next]_vars => Good
<1>1. ASSUME IInv, Next PROVE Good
  <2>1. PICK t \in Threads :
          \/ \/ \E s \in Statements :
                  \/ Execute(t, s) \/ CloseStatement(t, s) \/ PrepareStatement(t, s)
                  \/ ExecutePrepared(t, s) \/ Call(t, s)
             \/ CloseConnection(t) \/ Cancel(t)
          \/ RsClose(t) \/ ReadForClose(t) \/ Close(t) \/ Prepare(t) \/ CompileFails(t)
          \/ \E p \in Ptrs, a \in Addrs \cup {NoAddr} : Compile(t, p, a)
          \/ Step(t) \/ StepClose(t) \/ EnsureBegin(t) \/ EnsureRun(t)
          \/ Read(t) \/ Use(t) \/ Interrupt(t) \/ DbEnter(t)
          \/ (\E p \in stmts : DbCloseStatement(t, p)) \/ DbCloseBegin(t) \/ DbClosed(t)
    BY <1>1 DEF Next
  <2> QED BY <1>1, <2>1, StartActions, CloseActions, CompileAction, StepActions, UseActions,
             DbCloseActions
<1>2. ASSUME IInv, UNCHANGED vars PROVE Good
  BY <1>2 DEF vars, threadVars, javaVars, nativeVars, Good, IInv, TypeOK, Handles, Usable,
     Control, Exclusive, OnStatement
<1> QED BY <1>1, <1>2

-----------------------------------------------------------------------------
(* Theorems.                                                               *)

\* The invariant holds in every reachable state, for any numbers of threads,
\* statements, pointers and addresses.
THEOREM Invariant == Spec => []IInv
<1>1. IInv /\ [Next]_vars => IInv'
  BY NextGood DEF Good
<1> QED BY <1>1, InitGood, PTL DEF Spec

\* Every field keeps its type: in particular no statement ever holds a raw
\* address in place of a SafeStmtPtr.
THEOREM TypeCorrect == Spec => []TypeOK
BY Invariant, PTL DEF IInv

\* DB.stmts with DB.begin is exactly what SQLite has not finalized yet,
\* whatever the threads do with SafeStmtPtr.close, DB.prepare and DB.close.
THEOREM RegistryExactHolds == Spec => []RegistryExact
<1>1. IInv => RegistryExact
  <2>1. SUFFICES ASSUME IInv PROVE RegistryExact
    OBVIOUS
  <2>2. ASSUME NEW a \in Addrs, owner[a] # NoPtr
        PROVE  owner[a] \in {p \in stmts : addr[p] # NoAddr} \cup {p \in {begin} \ {NoPtr} : ~closed[p]}
    BY <2>1, <2>2 DEF IInv, Handles, Usable
  <2>3. ASSUME NEW p, p \in {q \in stmts : addr[q] # NoAddr} \cup {q \in {begin} \ {NoPtr} : ~closed[q]}
        PROVE  p # NoPtr /\ \E a \in Addrs : owner[a] = p
    <3>1. p \in Ptrs /\ Usable(p)
      BY <2>1, <2>3 DEF IInv, Handles, TypeOK, Usable
    <3>2. addr[p] \in Addrs /\ owner[addr[p]] = p
      BY <2>1, <3>1 DEF IInv, Handles, TypeOK, Usable
    <3> QED BY <3>1, <3>2, HandleAssumption
  <2> QED BY <2>2, <2>3 DEF RegistryExact
<1> QED BY <1>1, Invariant, PTL

\* The driver implements the contract of the sqlite3 C interface: what the
\* SafeStmtPtr objects, the monitor of DB and DB.stmts let through is a
\* legal sequence of prepare, use, finalize and close.
THEOREM KeepsContractHolds == Spec => KeepsContract
<1>1. IInv /\ [Next]_vars => [Contract!Next]_(Contract!nativeVars)
  BY NextGood DEF Good, nativeVars, Contract!nativeVars
<1> QED BY <1>1, InitGood, Invariant, PTL DEF Spec, KeepsContract, Contract!Spec

-----------------------------------------------------------------------------
(* The monitor of DB.                                                        *)

\* Where a thread is in a critical section of more than one step.
Inside == {"compile", "stepClose", "ensure", "ensureRun", "dbClose"}

MonitorHeld == \A t \in Threads : pc[t] \in Inside <=> lock = t

\* A step moves one thread; it enters when nobody is inside, and leaves the
\* monitor free.
LockMove(t, at) ==
  /\ pc' = [pc EXCEPT ![t] = at]
  /\ pc[t] \notin Inside /\ at \in Inside => lock \in {NoThread, t}
  /\ lock' = IF at \in Inside THEN t ELSE IF pc[t] \in Inside THEN NoThread ELSE lock

Moves(t) == \E at \in PCs : LockMove(t, at)

LEMMA OutsideMoves ==
  ASSUME IInv, MonitorHeld, NEW t \in Threads,
         \/ \E s \in Statements : Execute(t, s) \/ CloseStatement(t, s) \/ PrepareStatement(t, s)
                                  \/ ExecutePrepared(t, s) \/ Call(t, s)
         \/ CloseConnection(t) \/ Cancel(t) \/ Interrupt(t)
         \/ RsClose(t) \/ ReadForClose(t) \/ Close(t) \/ Read(t) \/ Use(t)
  PROVE  Moves(t) /\ pc[t] \notin Inside
<1>1. \E at \in PCs \ Inside : pc' = [pc EXCEPT ![t] = at]
  BY DEF Execute, CloseStatement, PrepareStatement, ExecutePrepared, Call, CloseConnection,
     Cancel, Interrupt, RsClose, ReadForClose, Close, Read, Use, Start, Stay, Goto, Return,
     Throw, PCs, Inside
<1>2. pc[t] \notin Inside /\ lock' = lock
  BY DEF Execute, CloseStatement, PrepareStatement, ExecutePrepared, Call, CloseConnection,
     Cancel, Interrupt, RsClose, ReadForClose, Close, Read, Use, Start, Inside
<1> QED BY <1>1, <1>2 DEF Moves, LockMove

LEMMA InsideMoves ==
  ASSUME IInv, MonitorHeld, NEW t \in Threads,
         \/ Prepare(t) \/ CompileFails(t)
         \/ \E p \in Ptrs, a \in Addrs \cup {NoAddr} : Compile(t, p, a)
         \/ Step(t) \/ StepClose(t) \/ EnsureBegin(t) \/ EnsureRun(t) \/ DbEnter(t)
         \/ (\E p \in stmts : DbCloseStatement(t, p)) \/ DbCloseBegin(t) \/ DbClosed(t)
  PROVE  Moves(t)
<1>0. pc[t] \in PCs /\ (pc[t] \in Inside <=> lock = t)
  BY DEF IInv, TypeOK, MonitorHeld
<1>1. CASE Prepare(t) \/ DbEnter(t)
  <2>1. pc[t] \in {"prepare", "dbEnter"} /\ lock \in {NoThread, t}
    BY <1>1 DEF Prepare, DbEnter, Monitor
  <2>2. \/ pc' = [pc EXCEPT ![t] = "idle"] /\ lock' = lock
        \/ pc' = [pc EXCEPT ![t] = "compile"] /\ lock' = t
        \/ pc' = [pc EXCEPT ![t] = "dbClose"] /\ lock' = t
    BY <1>1 DEF Prepare, DbEnter, Return, Stay, Goto
  <2> QED BY <2>1, <2>2 DEF Moves, LockMove, Inside, PCs
<1>2. CASE CompileFails(t) \/ \E p \in Ptrs, a \in Addrs \cup {NoAddr} : Compile(t, p, a)
  <2>1. pc[t] = "compile" /\ lock' = NoThread
    BY <1>2 DEF CompileFails, Compile
  <2>2. \E at \in {"idle", "read", "step"} : pc' = [pc EXCEPT ![t] = at]
    BY <1>2 DEF CompileFails, Compile, Throw, Return, Stay, Goto
  <2> QED BY <2>1, <2>2 DEF Moves, LockMove, Inside, PCs
<1>3. CASE Step(t)
  <2>1. pc[t] = "step" /\ lock \in {NoThread, t}
    BY <1>3 DEF Step, Monitor
  <2>2. \/ lock' = lock /\ \E at \in {"readClose", "read", "idle"} : pc' = [pc EXCEPT ![t] = at]
        \/ lock' = t /\ \E at \in {"stepClose", "ensure"} : pc' = [pc EXCEPT ![t] = at]
    BY <1>3 DEF Step, StepFailed, StepSucceeded, Return, Stay, Goto
  <2> QED BY <2>1, <2>2 DEF Moves, LockMove, Inside, PCs
<1>4. CASE StepClose(t) \/ EnsureRun(t)
  <2>1. pc[t] \in {"stepClose", "ensureRun"} /\ lock' = NoThread
    BY <1>4 DEF StepClose, EnsureRun
  <2>2. \E at \in {"readClose", "read", "idle"} : pc' = [pc EXCEPT ![t] = at]
    BY <1>4 DEF StepClose, EnsureRun, StepFailed, StepSucceeded, Return, Stay, Goto
  <2> QED BY <2>1, <2>2 DEF Moves, LockMove, Inside, PCs
<1>5. CASE EnsureBegin(t)
  <2>1. pc[t] = "ensure" /\ lock = t
    BY <1>0, <1>5 DEF EnsureBegin, Inside
  <2>2. \/ lock' = lock /\ pc' = [pc EXCEPT ![t] = "ensureRun"]
        \/ lock' = NoThread /\ \E at \in {"readClose", "read"} : pc' = [pc EXCEPT ![t] = at]
    BY <1>5 DEF EnsureBegin, StepFailed, Stay, Goto
  <2> QED BY <2>1, <2>2 DEF Moves, LockMove, Inside, PCs
<1>6. CASE (\E p \in stmts : DbCloseStatement(t, p)) \/ DbCloseBegin(t) \/ DbClosed(t)
  <2>1. pc[t] = "dbClose" /\ lock = t
    BY <1>0, <1>6 DEF DbCloseStatement, DbCloseBegin, DbClosed, Inside
  <2>2. \/ lock' = lock /\ pc' = [pc EXCEPT ![t] = "dbClose"]
        \/ lock' = NoThread /\ pc' = [pc EXCEPT ![t] = "idle"]
    BY <1>6 DEF DbCloseStatement, DbCloseBegin, DbClosed, Return, Stay, Goto
  <2> QED BY <2>1, <2>2 DEF Moves, LockMove, Inside, PCs
<1> QED BY <1>1, <1>2, <1>3, <1>4, <1>5, <1>6

LEMMA SomeoneMoves == ASSUME IInv, MonitorHeld, Next PROVE \E t \in Threads : Moves(t)
BY OutsideMoves, InsideMoves DEF Next

\* At most one thread is in a critical section of DB.prepare, DB.execute or
\* DB.close, and it is the one the monitor belongs to.
THEOREM MonitorHeldHolds == Spec => []MonitorHeld
<1>1. Init => MonitorHeld
  BY HandleAssumption DEF Init, MonitorHeld, Inside
<1>2. ASSUME IInv, MonitorHeld, [Next]_vars PROVE MonitorHeld'
  <2>1. CASE UNCHANGED vars
    BY <1>2, <2>1 DEF vars, threadVars, MonitorHeld
  <2>2. CASE Next
    <3>1. PICK t \in Threads, at \in PCs : LockMove(t, at)
      BY <1>2, <2>2, SomeoneMoves DEF Moves
    <3>2. pc' = [pc EXCEPT ![t] = at] /\ pc \in [Threads -> PCs]
      BY <1>2, <3>1 DEF LockMove, IInv, TypeOK
    <3>3. \A u \in Threads : pc[u] \in Inside <=> lock = u
      BY <1>2 DEF MonitorHeld
    <3>4. ASSUME NEW u \in Threads PROVE pc'[u] \in Inside <=> lock' = u
      <4>1. CASE u = t
        BY <3>1, <3>2, <3>3, <4>1, HandleAssumption DEF LockMove
      <4>2. CASE u # t
        <5>1. pc'[u] = pc[u]
          BY <3>2, <4>2
        <5> QED BY <3>1, <3>3, <4>2, <5>1, HandleAssumption DEF LockMove
      <4> QED BY <4>1, <4>2
    <3> QED BY <3>4 DEF MonitorHeld
  <2> QED BY <1>2, <2>1, <2>2
<1> QED BY <1>1, <1>2, Invariant, PTL DEF Spec

-----------------------------------------------------------------------------
(* DB.close.                                                                 *)

\* While a thread is in DB.close no statement is compiled or registered, so
\* the loop over DB.stmts has fewer to close at every turn.
CloseUndisturbed ==
  (\E t \in Threads : pc[t] = "dbClose") =>
    /\ stmts' \subseteq stmts
    /\ \A a \in Addrs : owner'[a] \in {owner[a], NoPtr}

\* Why DB.close returns with the connection still open.
ClosedOrEmpty ==
  \A t \in Threads :
    pc[t] = "dbClose" /\ pc'[t] = "idle" => dbClosed' \/ \E p \in stmts : addr[p] = NoAddr

LEMMA ClosePtrShrinks ==
  ASSUME TypeOK, NEW p, ClosePtr(p)
  PROVE  stmts' \subseteq stmts /\ \A a \in Addrs : owner'[a] \in {owner[a], NoPtr}
<1>1. CASE closed[p]
  BY <1>1 DEF ClosePtr, nativeVars
<1>2. CASE ~closed[p]
  BY <1>2 DEF ClosePtr
<1> QED BY <1>1, <1>2

\* Other threads meet no registration in progress.
THEOREM CloseUndisturbedHolds == Spec => [][CloseUndisturbed]_vars
<1>1. ASSUME IInv, MonitorHeld, Next PROVE CloseUndisturbed
  <2> SUFFICES ASSUME NEW c \in Threads, pc[c] = "dbClose"
               PROVE  stmts' \subseteq stmts /\ \A a \in Addrs : owner'[a] \in {owner[a], NoPtr}
    BY DEF CloseUndisturbed
  <2>1. \A t \in Threads : pc[t] \notin {"compile", "ensure"}
    BY <1>1, HandleAssumption DEF MonitorHeld, Inside
  <2> DEFINE Shrinks == stmts' \subseteq stmts /\ \A a \in Addrs : owner'[a] \in {owner[a], NoPtr}
  <2>2. TypeOK
    BY <1>1 DEF IInv
  <2>3. ASSUME NEW t \in Threads,
               \/ \E s \in Statements : Execute(t, s) \/ CloseStatement(t, s)
                     \/ PrepareStatement(t, s) \/ ExecutePrepared(t, s) \/ Call(t, s)
               \/ CloseConnection(t) \/ Cancel(t) \/ Interrupt(t)
               \/ RsClose(t) \/ ReadForClose(t) \/ Step(t) \/ EnsureRun(t)
               \/ Read(t) \/ Use(t) \/ DbEnter(t) \/ DbClosed(t)
        PROVE  UNCHANGED <<stmts, owner>>
    BY <2>3 DEF Execute, CloseStatement, PrepareStatement, ExecutePrepared, Call,
       CloseConnection, Cancel, Interrupt, RsClose, ReadForClose, Step, EnsureRun, Read, Use,
       DbEnter, DbClosed, NativeCall, javaVars, nativeVars
  <2>4. ASSUME NEW t \in Threads, Close(t) \/ Prepare(t) \/ StepClose(t)
               \/ (\E p \in stmts : DbCloseStatement(t, p)) \/ DbCloseBegin(t)
        PROVE  UNCHANGED <<stmts, owner>> \/ \E p : ClosePtr(p)
    BY <2>4 DEF Close, Prepare, StepClose, DbCloseStatement, DbCloseBegin, nativeVars
  <2>5. ASSUME NEW t \in Threads
        PROVE  /\ ~CompileFails(t) /\ ~EnsureBegin(t)
               /\ \A p \in Ptrs, a \in Addrs \cup {NoAddr} : ~Compile(t, p, a)
    BY <2>1 DEF CompileFails, EnsureBegin, Compile
  <2>6. UNCHANGED <<stmts, owner>> \/ \E p : ClosePtr(p)
    BY <1>1, <2>3, <2>4, <2>5 DEF Next
  <2> QED BY <2>2, <2>6, ClosePtrShrinks
<1>2. ASSUME IInv, MonitorHeld, [Next]_vars PROVE [CloseUndisturbed]_vars
  BY <1>1, <1>2
<1> QED BY <1>2, Invariant, MonitorHeldHolds, PTL DEF Spec

\* Only a thread's own DB.close takes it out of DB.close.
LEMMA OnlyCloseLeaves ==
  ASSUME IInv, MonitorHeld, Next, NEW t \in Threads, pc[t] = "dbClose", pc'[t] = "idle"
  PROVE  (\E p \in stmts : DbCloseStatement(t, p)) \/ DbCloseBegin(t) \/ DbClosed(t)
<1>1. PICK u \in Threads :
        \/ \/ \E s \in Statements : Execute(u, s) \/ CloseStatement(u, s)
                \/ PrepareStatement(u, s) \/ ExecutePrepared(u, s) \/ Call(u, s)
           \/ CloseConnection(u) \/ Cancel(u) \/ Interrupt(u)
           \/ RsClose(u) \/ ReadForClose(u) \/ Close(u) \/ Read(u) \/ Use(u)
        \/ \/ Prepare(u) \/ CompileFails(u)
           \/ \E p \in Ptrs, a \in Addrs \cup {NoAddr} : Compile(u, p, a)
           \/ Step(u) \/ StepClose(u) \/ EnsureBegin(u) \/ EnsureRun(u) \/ DbEnter(u)
        \/ (\E p \in stmts : DbCloseStatement(u, p)) \/ DbCloseBegin(u) \/ DbClosed(u)
  BY DEF Next
<1>2. Moves(u)
  BY <1>1, OutsideMoves, InsideMoves
<1>3. u = t
  BY <1>2 DEF Moves, LockMove, IInv, TypeOK
<1>4. pc[t] \in Inside /\ pc[t] = "dbClose"
  BY DEF Inside
<1>5. ~(\/ Prepare(t) \/ CompileFails(t)
        \/ \E p \in Ptrs, a \in Addrs \cup {NoAddr} : Compile(t, p, a)
        \/ Step(t) \/ StepClose(t) \/ EnsureBegin(t) \/ EnsureRun(t) \/ DbEnter(t))
  BY <1>4 DEF Prepare, CompileFails, Compile, Step, StepClose, EnsureBegin, EnsureRun, DbEnter
<1> QED BY <1>1, <1>3, <1>4, <1>5, OutsideMoves

LEMMA CloseLeaves ==
  ASSUME IInv, MonitorHeld, Next PROVE ClosedOrEmpty
<1> SUFFICES ASSUME NEW t \in Threads, pc[t] = "dbClose", pc'[t] = "idle"
             PROVE  dbClosed' \/ \E p \in stmts : addr[p] = NoAddr
  BY DEF ClosedOrEmpty
<1>1. CASE DbClosed(t)
  BY <1>1 DEF DbClosed
<1>2. CASE DbCloseBegin(t)
  BY <1>2 DEF DbCloseBegin, Stay, Goto, IInv, TypeOK
<1>3. ASSUME NEW p \in stmts, DbCloseStatement(t, p) PROVE addr[p] = NoAddr
  <2>1. ~closed[p]
    BY DEF IInv, Handles
  <2>2. CloseThrows(p)
    BY <1>3 DEF DbCloseStatement, Stay, Goto, IInv, TypeOK
  <2> QED BY <2>1, <2>2 DEF CloseThrows
<1> QED BY <1>1, <1>2, <1>3, OnlyCloseLeaves

\* DB.close leaves the connection open only for a statement whose SQL text was
\* empty, whatever the other threads do meanwhile.
THEOREM CloseFailsOnlyOnEmpty == Spec => [][ClosedOrEmpty]_vars
<1>1. ASSUME IInv, MonitorHeld, [Next]_vars PROVE [ClosedOrEmpty]_vars
  BY <1>1, CloseLeaves
<1> QED BY <1>1, Invariant, MonitorHeldHolds, PTL DEF Spec

\* Without an empty SQL text every open pointer has an address.
NothingEmpty == \A p \in Ptrs : ~closed[p] => addr[p] # NoAddr

LEMMA NothingEmptyHolds == ASSUME ~EmptySql PROVE Spec => []NothingEmpty
<1>1. Init => NothingEmpty
  BY DEF Init, NothingEmpty
<1>2. ASSUME IInv, NothingEmpty, [Next]_vars PROVE NothingEmpty'
  <2>1. ASSUME UNCHANGED <<addr, closed>> PROVE NothingEmpty'
    BY <1>2, <2>1 DEF NothingEmpty
  <2>2. ASSUME NEW p, ClosePtr(p), UNCHANGED addr PROVE NothingEmpty'
    <3>1. \A q \in Ptrs : ~closed'[q] => ~closed[q]
      BY <1>2, <2>2 DEF ClosePtr, IInv, TypeOK
    <3> QED BY <1>2, <2>2, <3>1 DEF NothingEmpty
  <2>3. ASSUME NEW p, NEW a, Allocate(p, a) PROVE NothingEmpty'
    <3>1. a # NoAddr /\ addr' = [addr EXCEPT ![p] = a] /\ closed' = [closed EXCEPT ![p] = FALSE]
      BY <2>3, HandleAssumption DEF Allocate, NewPtr
    <3> QED BY <1>2, <3>1 DEF NothingEmpty, IInv, TypeOK
  <2>4. CASE UNCHANGED vars
    BY <2>1, <2>4 DEF vars, javaVars
  <2>5. CASE Next
    <3>1. PICK t \in Threads :
            \/ \/ \E s \in Statements : Execute(t, s) \/ CloseStatement(t, s)
                     \/ PrepareStatement(t, s) \/ ExecutePrepared(t, s) \/ Call(t, s)
               \/ CloseConnection(t) \/ Cancel(t) \/ Interrupt(t)
               \/ RsClose(t) \/ ReadForClose(t) \/ CompileFails(t) \/ Step(t) \/ EnsureRun(t)
               \/ Read(t) \/ Use(t) \/ DbEnter(t) \/ DbClosed(t)
            \/ \/ Close(t) \/ Prepare(t) \/ StepClose(t)
               \/ (\E p \in stmts : DbCloseStatement(t, p)) \/ DbCloseBegin(t)
            \/ EnsureBegin(t) \/ \E p \in Ptrs, a \in Addrs \cup {NoAddr} : Compile(t, p, a)
      BY <2>5 DEF Next
    <3>2. CASE \/ \E s \in Statements : Execute(t, s) \/ CloseStatement(t, s)
                     \/ PrepareStatement(t, s) \/ ExecutePrepared(t, s) \/ Call(t, s)
               \/ CloseConnection(t) \/ Cancel(t) \/ Interrupt(t)
               \/ RsClose(t) \/ ReadForClose(t) \/ CompileFails(t) \/ Step(t) \/ EnsureRun(t)
               \/ Read(t) \/ Use(t) \/ DbEnter(t) \/ DbClosed(t)
      BY <2>1, <3>2 DEF Execute, CloseStatement, PrepareStatement, ExecutePrepared, Call,
         CloseConnection, Cancel, Interrupt, RsClose, ReadForClose, CompileFails, Step,
         EnsureRun, Read, Use, DbEnter, DbClosed, javaVars
    <3>3. CASE Close(t) \/ Prepare(t) \/ StepClose(t)
               \/ (\E p \in stmts : DbCloseStatement(t, p)) \/ DbCloseBegin(t)
      BY <2>1, <2>2, <3>3 DEF Close, Prepare, StepClose, DbCloseStatement, DbCloseBegin
    <3>4. CASE EnsureBegin(t) \/ \E p \in Ptrs, a \in Addrs \cup {NoAddr} : Compile(t, p, a)
      BY <2>1, <2>3, <3>4 DEF EnsureBegin, Compile, javaVars
    <3> QED BY <3>1, <3>2, <3>3, <3>4
  <2> QED BY <1>2, <2>4, <2>5
<1> QED BY <1>1, <1>2, Invariant, PTL DEF Spec

\* The documented promise of DB.close, for a program that compiles no empty
\* SQL text: a thread that leaves DB.close has closed the connection.
THEOREM CloseClosesWithoutEmpty == ASSUME ~EmptySql PROVE Spec => CloseCloses
<1>1. ASSUME IInv, MonitorHeld, NothingEmpty, Next
      PROVE  \A t \in Threads : pc[t] = "dbClose" /\ pc'[t] = "idle" => dbClosed'
  <2>1. \A p \in stmts : addr[p] # NoAddr
    BY <1>1 DEF IInv, TypeOK, Handles, NothingEmpty
  <2> QED BY <1>1, <2>1, CloseLeaves DEF ClosedOrEmpty
<1>2. ASSUME IInv, MonitorHeld, NothingEmpty, [Next]_vars
      PROVE  [\A t \in Threads : pc[t] = "dbClose" /\ pc'[t] = "idle" => dbClosed']_vars
  BY <1>1, <1>2
<1> QED BY <1>2, Invariant, MonitorHeldHolds, NothingEmptyHolds, PTL DEF Spec, CloseCloses

=============================================================================
