------------------------ MODULE ConnectionTimeoutProofs ------------------------
(* Theorems about ConnectionTimeout, for any threads, timeouts and handlers,  *)
(* any number of calls and callbacks of any depth.                            *)
EXTENDS ConnectionTimeout, SequenceTheorems, FiniteSetTheorems, WellFoundedInduction, TLAPS

-----------------------------------------------------------------------------
(* Stacks, as sequences.                                                   *)

\* What a frame holds depends on its kind; only an execution with a timeout of
\* its own passes the places of withConnectionTimeout.
Shape(f) ==
  /\ f.value \in Values(f.kind)
  /\ f.kind = "setBusyTimeout" => f.at \in {"config", "native"}
  /\ f.kind = "busyHandler" <=> f.at \in {"handler", "swap"}
  /\ f.kind \in Executions /\ ~Timed(f) => f.at \in {"conn", "db", "running", "keys"}

\* A call that has called back is running its statement.
Stack(s) ==
  \A i \in 1 .. Len(s) : Shape(s[i]) /\ (i < Len(s) => s[i].at = "running")

\* Two stacks agree up to frame m, but for places and callbacks.
Alike(s, r, m) ==
  \A i \in 1 .. m : r[i].kind = s[i].kind /\ r[i].value = s[i].value /\ r[i].orig = s[i].orig

Pushed(s, r, f) ==
  /\ r \in Seq(Frames) /\ Len(r) = Len(s) + 1 /\ r[Len(r)] = f
  /\ Alike(s, r, Len(s)) /\ \A i \in 1 .. Len(s) : r[i].at = s[i].at
  /\ \A i \in 1 .. Len(s) - 1 : r[i].called = s[i].called
  /\ Len(s) > 0 => r[Len(s)].called = TRUE

Moved(s, r, at) ==
  /\ r \in Seq(Frames) /\ Len(r) = Len(s) /\ Alike(s, r, Len(s))
  /\ r[Len(s)].at = at /\ \A i \in 1 .. Len(s) - 1 : r[i].at = s[i].at
  /\ \A i \in 1 .. Len(s) : r[i].called = s[i].called

Popped(s, r) ==
  /\ r \in Seq(Frames) /\ Len(r) = Len(s) - 1
  /\ \A i \in 1 .. Len(r) : r[i] = s[i]

LEMMA Pushing ==
  ASSUME NEW s \in Seq(Frames), NEW f \in Frames
  PROVE  /\ s = <<>> => Pushed(s, Append(s, f), f)
         /\ s # <<>> => Pushed(s, Append([s EXCEPT ![Len(s)].called = TRUE], f), f)
<1>1. ASSUME s = <<>> PROVE Pushed(s, Append(s, f), f)
  BY <1>1 DEF Pushed, Alike
<1>2. ASSUME s # <<>> PROVE Pushed(s, Append([s EXCEPT ![Len(s)].called = TRUE], f), f)
  <2> DEFINE g == [s[Len(s)] EXCEPT !.called = TRUE]
             q == [s EXCEPT ![Len(s)] = g]
  <2>1. Len(s) \in 1 .. Len(s) /\ s[Len(s)] \in Frames
    BY <1>2
  <2>2. g \in Frames /\ g.kind = s[Len(s)].kind /\ g.value = s[Len(s)].value
        /\ g.orig = s[Len(s)].orig /\ g.at = s[Len(s)].at /\ g.called = TRUE
    BY <2>1 DEF Frames
  <2> HIDE DEF g
  <2>3. q \in Seq(Frames) /\ Len(q) = Len(s)
        /\ \A i \in 1 .. Len(s) : q[i] = IF i = Len(s) THEN g ELSE s[i]
    BY <2>1, <2>2
  <2>4. [s EXCEPT ![Len(s)].called = TRUE] = q
    BY DEF g
  <2> HIDE DEF q
  <2> DEFINE r == Append(q, f)
  <2>5. /\ r \in Seq(Frames) /\ Len(r) = Len(s) + 1 /\ r[Len(r)] = f
        /\ \A i \in 1 .. Len(s) : r[i] = IF i = Len(s) THEN g ELSE s[i]
    BY <2>3
  <2> HIDE DEF r
  <2>6. Pushed(s, r, f)
    <3>1. Alike(s, r, Len(s)) /\ \A i \in 1 .. Len(s) : r[i].at = s[i].at
      BY <2>2, <2>5 DEF Alike
    <3>2. (\A i \in 1 .. Len(s) - 1 : r[i].called = s[i].called) /\ r[Len(s)].called = TRUE
      BY <2>1, <2>2, <2>5
    <3> QED BY <2>5, <3>1, <3>2 DEF Pushed
  <2> QED BY <2>4, <2>6 DEF r
<1> QED BY <1>1, <1>2

LEMMA Moving ==
  ASSUME NEW s \in Seq(Frames), s # <<>>, NEW p \in Places
  PROVE  Moved(s, [s EXCEPT ![Len(s)] = [s[Len(s)] EXCEPT !.at = p]], p)
<1> DEFINE g == [s[Len(s)] EXCEPT !.at = p]
<1>1. Len(s) \in 1 .. Len(s) /\ s[Len(s)] \in Frames
  OBVIOUS
<1>2. g \in Frames /\ g.kind = s[Len(s)].kind /\ g.value = s[Len(s)].value
      /\ g.orig = s[Len(s)].orig /\ g.at = p /\ g.called = s[Len(s)].called
  BY <1>1 DEF Frames
<1> HIDE DEF g
<1> DEFINE q == [s EXCEPT ![Len(s)] = g]
<1>3. q \in Seq(Frames) /\ Len(q) = Len(s)
      /\ \A i \in 1 .. Len(s) : q[i] = IF i = Len(s) THEN g ELSE s[i]
  BY <1>1, <1>2
<1> HIDE DEF q
<1>4. Moved(s, q, p)
  BY <1>1, <1>2, <1>3 DEF Moved, Alike
<1> QED BY <1>4 DEF g, q

LEMMA Popping ==
  ASSUME NEW s \in Seq(Frames), s # <<>>
  PROVE  Popped(s, SubSeq(s, 1, Len(s) - 1))
<1> DEFINE n == Len(s) - 1
           r == SubSeq(s, 1, n)
<1>1. n \in Nat /\ n < Len(s) /\ \A i \in 1 .. Len(s) : s[i] \in Frames
  OBVIOUS
<1> HIDE DEF n
<1>2. \A i \in 1 .. n : s[i] \in Frames
  BY <1>1
<1>3. r \in Seq(Frames)
  BY <1>1, <1>2, SubSeqProperties
<1>4. Len(r) = n /\ \A i \in 1 .. n : r[i] = s[i]
  BY <1>1, <1>2
<1> HIDE DEF r
<1>5. Len(r) = Len(s) - 1 /\ \A i \in 1 .. Len(r) : r[i] = s[i]
  BY <1>4 DEF n
<1>6. Popped(s, r)
  BY <1>3, <1>5 DEF Popped
<1> QED BY <1>6 DEF r, n

-----------------------------------------------------------------------------
(* What the steps do to the stacks.                                        *)

Others(t) == frames' \in [Threads -> Seq(Frames)] /\ \A u \in Threads \ {t} : frames'[u] = frames[u]

\* A call begins, of the application or of a callback.
Calling(t, f) ==
  /\ Others(t) /\ Pushed(frames[t], frames'[t], f)
  /\ frames[t] = <<>> \/ Top(t).at = "running"
  /\ Shape(f) /\ f.at = Entry(f.kind, f.value) /\ f.orig \in ConfigRead(f)
  /\ overlapped' = (overlapped \/ Overlaps(t, f))
  /\ UNCHANGED <<config, nativeVars, wanted, handled>>

\* What bounds the calls: of a thread, and within one another.
Counted(t, f) ==
  /\ f.called = FALSE
  /\ \/ /\ frames[t] = <<>> /\ calls[t] < MaxCalls[t]
        /\ calls' = [calls EXCEPT ![t] = @ + 1]
     \/ /\ frames[t] # <<>> /\ ~Top(t).called /\ Len(frames[t]) < MaxDepth
        /\ f.kind # "execute" /\ calls' = calls

LEMMA Goes ==
  ASSUME TypeOK, NEW t \in Threads, frames[t] # <<>>, NEW p \in Places, Goto(t, p)
  PROVE  Others(t) /\ Moved(frames[t], frames'[t], p)
<1> DEFINE s == frames[t]
           r == [s EXCEPT ![Len(s)] = [s[Len(s)] EXCEPT !.at = p]]
<1>1. frames \in [Threads -> Seq(Frames)] /\ s \in Seq(Frames)
  BY DEF TypeOK
<1>2. Moved(s, r, p)
  BY <1>1, Moving
<1>3. frames' = [frames EXCEPT ![t] = r]
  BY DEF Goto, Replace, Top
<1> HIDE DEF r
<1>4. r \in Seq(Frames)
  BY <1>2 DEF Moved
<1> QED BY <1>1, <1>2, <1>3, <1>4 DEF Others

LEMMA Returns ==
  ASSUME TypeOK, NEW t \in Threads, frames[t] # <<>>, Return(t)
  PROVE  Others(t) /\ Popped(frames[t], frames'[t])
<1> DEFINE s == frames[t]
           r == SubSeq(s, 1, Len(s) - 1)
<1>1. frames \in [Threads -> Seq(Frames)] /\ s \in Seq(Frames)
  BY DEF TypeOK
<1>2. Popped(s, r)
  BY <1>1, Popping
<1>3. frames' = [frames EXCEPT ![t] = r]
  BY DEF Return
<1> HIDE DEF r
<1>4. r \in Seq(Frames)
  BY <1>2 DEF Popped
<1> QED BY <1>1, <1>2, <1>3, <1>4 DEF Others

LEMMA Pushes ==
  ASSUME TimeoutAssumption, TypeOK, NEW t \in Threads, Call(t) \/ Callback(t)
  PROVE  calls' \in [Threads -> Nat] /\ \E f \in Frames : Calling(t, f) /\ Counted(t, f)
<1>1. frames \in [Threads -> Seq(Frames)] /\ frames[t] \in Seq(Frames)
  BY DEF TypeOK
<1>2. calls' \in [Threads -> Nat]
  <2>1. calls \in [Threads -> Nat]
    BY DEF TypeOK
  <2>2. calls' = calls \/ calls' = [calls EXCEPT ![t] = @ + 1]
    BY DEF Call, Callback
  <2> QED BY <2>1, <2>2
<1>3. PICK stack, kind :
        /\ kind \in Kinds
        /\ \/ /\ frames[t] = <<>> /\ stack = <<>> /\ calls[t] < MaxCalls[t]
              /\ calls' = [calls EXCEPT ![t] = @ + 1]
           \/ /\ frames[t] # <<>> /\ Top(t).at = "running" /\ ~Top(t).called
              /\ Len(frames[t]) < MaxDepth /\ kind # "execute" /\ calls' = calls
              /\ stack = [frames[t] EXCEPT ![Len(frames[t])].called = TRUE]
        /\ Push(t, stack, kind)
  <2>1. CASE Call(t)
    BY <2>1 DEF Call
  <2>2. CASE Callback(t)
    <3>1. PICK kind \in Kinds \ {"execute"} :
            Push(t, [frames[t] EXCEPT ![Len(frames[t])].called = TRUE], kind)
      BY <2>2 DEF Callback
    <3> QED BY <2>2, <3>1 DEF Callback, At
  <2> QED BY <2>1, <2>2
<1>4. UNCHANGED <<config, nativeVars, wanted, handled>>
  BY DEF Call, Callback
<1> DEFINE F(value, orig) == [kind |-> kind, at |-> Entry(kind, value), value |-> value,
                              orig |-> orig, called |-> FALSE]
<1>5a. PICK value \in Values(kind) :
         /\ \E orig \in ConfigRead(F(value, 0)) :
              frames' = [frames EXCEPT ![t] = Append(stack, F(value, orig))]
         /\ overlapped' = (overlapped \/ Overlaps(t, F(value, 0)))
  BY <1>3 DEF Push
<1>5. PICK orig \in ConfigRead(F(value, 0)) :
        frames' = [frames EXCEPT ![t] = Append(stack, F(value, orig))]
  BY <1>5a
<1> DEFINE f == F(value, orig)
<1>6. /\ Timed(F(value, 0)) = Timed(f) /\ Changes(F(value, 0)) = Changes(f)
      /\ F(value, 0).kind = f.kind
  BY DEF Timed, Changes
<1>7. /\ f.kind = kind /\ f.value = value /\ f.at = Entry(kind, value) /\ f.orig = orig
      /\ f.called = FALSE
  OBVIOUS
<1>8. orig \in ConfigRead(f) /\ overlapped' = (overlapped \/ Overlaps(t, f))
  <2> HIDE DEF F
  <2> QED BY <1>5, <1>5a, <1>6 DEF ConfigRead, Overlaps
<1>9. f \in Frames /\ Shape(f)
  <2>1. orig \in Timeouts
    BY <1>5 DEF ConfigRead, TypeOK, TimeoutAssumption
  <2>2. value \in Timeouts \cup Handlers \cup {NoHandler}
    BY DEF Values, TimeoutAssumption
  <2>3. Entry(kind, value) \in Places
    BY DEF Entry, Body, Places
  <2>4. f \in Frames
    BY <1>3, <2>1, <2>2, <2>3 DEF Frames
  <2>5. Shape(f)
    <3> HIDE DEF f
    <3> QED BY <1>7 DEF Shape, Timed, Values, Entry, Body, Kinds, Executions
  <2> QED BY <2>4, <2>5
<1> HIDE DEF f, F
<1>10. Pushed(frames[t], Append(stack, f), f)
  BY <1>1, <1>3, <1>9, Pushing
<1>11. frames' = [frames EXCEPT ![t] = Append(stack, f)]
  BY <1>5 DEF f
<1>12. Others(t) /\ frames'[t] = Append(stack, f)
  <2> DEFINE r == Append(stack, f)
  <2>1. r \in Seq(Frames) BY <1>10 DEF Pushed
  <2>2. frames' = [frames EXCEPT ![t] = r] BY <1>11
  <2> HIDE DEF r
  <2>3. Others(t) /\ frames'[t] = r BY <1>1, <2>1, <2>2 DEF Others
  <2> QED BY <2>3 DEF r
<1>13. Calling(t, f)
  BY <1>3, <1>4, <1>7, <1>8, <1>9, <1>10, <1>12 DEF Calling
<1>14. Counted(t, f)
  BY <1>3, <1>7 DEF Counted
<1> QED BY <1>2, <1>9, <1>13, <1>14

-----------------------------------------------------------------------------
(* Types.                                                                  *)

Stacks == \A t \in Threads : Stack(frames[t])

SInv == TypeOK /\ Stacks

LEMMA TopOfStack ==
  ASSUME TypeOK, Stacks, NEW t \in Threads, frames[t] # <<>>
  PROVE  /\ Len(frames[t]) \in Nat \ {0} /\ Top(t) = frames[t][Len(frames[t])]
         /\ Top(t) \in Frames /\ Shape(Top(t))
<1>1. frames[t] \in Seq(Frames)
  BY DEF TypeOK
<1>2. Len(frames[t]) \in Nat \ {0} /\ frames[t][Len(frames[t])] \in Frames
  BY <1>1
<1> QED BY <1>2 DEF Top, Stacks, Stack

LEMMA PushedStack ==
  ASSUME Stacks, NEW t \in Threads, NEW f \in Frames, TypeOK, Calling(t, f)
  PROVE  Stacks'
<1>1. frames[t] \in Seq(Frames)
  BY DEF TypeOK
<1>2. Stack(frames'[t])
  <2>1. /\ Pushed(frames[t], frames'[t], f) /\ Stack(frames[t]) /\ Shape(f)
        /\ frames[t] = <<>> \/ frames[t][Len(frames[t])].at = "running"
    BY DEF Calling, Stacks, Top
  <2> DEFINE s == frames[t]
             r == frames'[t]
  <2>2. s \in Seq(Frames) /\ Len(s) \in Nat /\ (s = <<>> => Len(s) = 0)
    BY <1>1
  <2>3. /\ Pushed(s, r, f) /\ Stack(s) /\ Shape(f)
        /\ s = <<>> \/ s[Len(s)].at = "running"
    BY <2>1
  <2> HIDE DEF s, r
  <2>4. ASSUME NEW i \in 1 .. Len(s)
        PROVE  Shape(r[i]) /\ r[i].at = "running"
    BY <2>2, <2>3, <2>4 DEF Pushed, Alike, Stack, Shape, Timed
  <2>5. Stack(r)
    BY <2>2, <2>3, <2>4 DEF Pushed, Stack
  <2> QED BY <2>5 DEF r
<1> QED BY <1>2 DEF Stacks, Calling, Others

LEMMA MovedStack ==
  ASSUME TypeOK, Stacks, NEW t \in Threads, frames[t] # <<>>, NEW p \in Places,
         Others(t), Moved(frames[t], frames'[t], p),
         Top(t).kind = "setBusyTimeout" => p \in {"config", "native"},
         Top(t).kind = "busyHandler" <=> p \in {"handler", "swap"},
         Top(t).kind \in Executions /\ ~Timed(Top(t)) => p \in {"conn", "db", "running", "keys"}
  PROVE  Stacks'
<1>1. frames[t] \in Seq(Frames) /\ Stack(frames[t])
  BY DEF TypeOK, Stacks
<1>2. Stack(frames'[t])
  <2> DEFINE s == frames[t]
             r == frames'[t]
             f == s[Len(s)]
  <2>1. Len(s) \in Nat \ {0} /\ f = Top(t) /\ Stack(s)
    BY <1>1, TopOfStack
  <2> HIDE DEF s, r
  <2>2. Moved(s, r, p)
    BY DEF s, r
  <2>3. ASSUME NEW i \in 1 .. Len(s) - 1
        PROVE  Shape(r[i]) /\ r[i].at = "running"
    BY <2>1, <2>2, <2>3 DEF Moved, Alike, Stack, Shape, Timed
  <2>4. Shape(r[Len(s)])
    BY <2>1, <2>2 DEF Moved, Alike, Stack, Shape, Timed
  <2>5. Stack(r)
    BY <2>1, <2>2, <2>3, <2>4 DEF Moved, Stack
  <2> QED BY <2>5 DEF r
<1> QED BY <1>2 DEF Stacks, Others

LEMMA PoppedStack ==
  ASSUME TypeOK, Stacks, NEW t \in Threads, frames[t] # <<>>,
         Others(t), Popped(frames[t], frames'[t])
  PROVE  Stacks'
<1>1. frames[t] \in Seq(Frames) /\ Stack(frames[t]) /\ Len(frames[t]) \in Nat \ {0}
  BY TopOfStack DEF TypeOK, Stacks
<1>2. Stack(frames'[t])
  <2> DEFINE s == frames[t]
             r == frames'[t]
  <2>1. Len(s) \in Nat \ {0} /\ Popped(s, r) /\ Stack(s)
    BY <1>1
  <2> HIDE DEF s, r
  <2>2. Stack(r)
    BY <2>1, SMTT(30) DEF Popped, Stack
  <2> QED BY <2>2 DEF r
<1> QED BY <1>2 DEF Stacks, Others

LEMMA SInitially == ASSUME TimeoutAssumption, Init PROVE SInv
<1>1. TypeOK
  <2>1. frames \in [Threads -> Seq(Frames)] /\ calls \in [Threads -> Nat]
    BY DEF Init
  <2>2. /\ config \in Timeouts /\ slot \in Timeouts \cup Contexts /\ wanted \in Timeouts
        /\ reference \in Contexts \cup {NoHandler} /\ live \subseteq Contexts
        /\ context \in [Threads -> Contexts \cup {NoHandler}]
        /\ handled \in BOOLEAN /\ overlapped \in BOOLEAN
    BY DEF Init
  <2> QED BY <2>1, <2>2 DEF TypeOK
<1>2. Stacks
  BY DEF Init, Stacks, Stack
<1> QED BY <1>1, <1>2 DEF SInv

\* The parts of TypeOK that are not about the stacks.
ValuesOK ==
  /\ calls \in [Threads -> Nat]
  /\ config \in Timeouts /\ slot \in Timeouts \cup Contexts
  /\ reference \in Contexts \cup {NoHandler} /\ live \subseteq Contexts
  /\ context \in [Threads -> Contexts \cup {NoHandler}]
  /\ wanted \in Timeouts /\ handled \in BOOLEAN /\ overlapped \in BOOLEAN

LEMMA SameValues ==
  ASSUME SInv, UNCHANGED <<calls, config, nativeVars, ghosts>>
  PROVE  ValuesOK'
BY DEF SInv, TypeOK, ValuesOK, nativeVars, heap, ghosts

LEMMA WriteConfigKeeps ==
  ASSUME TimeoutAssumption, SInv, NEW t \in Threads, WriteConfig(t) PROVE SInv'
<1> DEFINE f == Top(t)
<1>1. /\ frames[t] # <<>> /\ f \in Frames /\ Shape(f) /\ TypeOK /\ Stacks
      /\ f.at \in {"config", "configBack"}
  BY TopOfStack DEF WriteConfig, At, SInv
<1>2. PICK p \in {"native", "nativeBack"} :
        /\ Goto(t, p) /\ (f.at = "config" <=> p = "native")
        /\ config' = (IF p = "native" THEN f.value ELSE f.orig)
  BY DEF WriteConfig, At
<1>3. /\ f.kind = "setBusyTimeout" \/ (f.kind \in Executions /\ Timed(f))
      /\ p = "nativeBack" => f.kind # "setBusyTimeout"
  BY <1>1, <1>2 DEF Frames, Kinds, Shape, Timed
<1>4. p \in Places
  BY DEF Places
<1>5. Others(t) /\ Moved(frames[t], frames'[t], p)
  BY <1>1, <1>2, <1>4, Goes
<1>6. Stacks'
  BY <1>1, <1>3, <1>4, <1>5, MovedStack DEF Executions
<1>7. f.value \in Timeouts /\ f.orig \in Timeouts
  BY <1>1, <1>3 DEF Shape, Values, Executions, Frames, TimeoutAssumption
<1>8. ValuesOK'
  BY <1>2, <1>7 DEF WriteConfig, SInv, TypeOK, ValuesOK, nativeVars, heap
<1> QED BY <1>5, <1>6, <1>8 DEF SInv, TypeOK, ValuesOK, Others

LEMMA BusyTimeoutKeeps ==
  ASSUME TimeoutAssumption, SInv, NEW t \in Threads, BusyTimeout(t) PROVE SInv'
<1> DEFINE f == Top(t)
<1>1. /\ frames[t] # <<>> /\ f \in Frames /\ Shape(f) /\ TypeOK /\ Stacks
      /\ f.at \in {"native", "nativeBack"}
  BY TopOfStack DEF BusyTimeout, At, SInv
<1>2. f.kind = "setBusyTimeout" \/ (f.kind \in Executions /\ Timed(f))
  BY <1>1 DEF Frames, Kinds, Shape, Timed
<1>3. slot' \in Timeouts
  BY <1>1, <1>2 DEF BusyTimeout, Shape, Values, Executions, Frames, TimeoutAssumption
<1>4. ValuesOK'
  BY <1>3 DEF BusyTimeout, SInv, TypeOK, ValuesOK, heap, ghosts
<1>5. CASE Return(t)
  <2>1. Others(t) /\ Popped(frames[t], frames'[t])
    BY <1>1, <1>5, Returns
  <2>2. Stacks'
    BY <1>1, <2>1, PoppedStack
  <2> QED BY <1>4, <2>1, <2>2 DEF SInv, TypeOK, ValuesOK, Others
<1>6. CASE ~Return(t)
  <2>1. Goto(t, Body(f.kind)) /\ f.kind # "setBusyTimeout" /\ f.kind \in Executions
    BY <1>2, <1>6 DEF BusyTimeout, At
  <2>2. Body(f.kind) \in {"conn", "db"} /\ Body(f.kind) \in Places
    BY DEF Body, Places
  <2>3. Others(t) /\ Moved(frames[t], frames'[t], Body(f.kind))
    BY <1>1, <2>1, <2>2, Goes
  <2>4. Stacks'
    BY <1>1, <2>1, <2>2, <2>3, MovedStack DEF Executions
  <2> QED BY <1>4, <2>3, <2>4 DEF SInv, TypeOK, ValuesOK, Others
<1> QED BY <1>5, <1>6

LEMMA BusyHandlerKeeps ==
  ASSUME TimeoutAssumption, SInv, NEW t \in Threads, BusyHandler(t) PROVE SInv'
<1>1. /\ frames[t] # <<>> /\ TypeOK /\ Stacks
      /\ Top(t).at = "handler" /\ Top(t).kind = "busyHandler"
  BY TopOfStack DEF BusyHandler, At, SInv, Shape
<1>2. ValuesOK'
  <2>1. 0 \in Timeouts
    BY DEF TimeoutAssumption
  <2>2. context \in [Threads -> Contexts \cup {NoHandler}]
    BY <1>1 DEF TypeOK
  <2>3. CASE slot' = 0 /\ UNCHANGED <<live, context>>
    BY <1>1, <2>1, <2>3 DEF BusyHandler, TypeOK, ValuesOK, ghosts
  <2>4. CASE \E c \in Contexts \ live :
               slot' = c /\ context' = [context EXCEPT ![t] = c] /\ live' = live \cup {c}
    BY <1>1, <2>2, <2>4 DEF BusyHandler, TypeOK, ValuesOK, ghosts
  <2> QED BY <2>3, <2>4 DEF BusyHandler
<1>3. Others(t) /\ Moved(frames[t], frames'[t], "swap")
  BY <1>1, Goes DEF BusyHandler, Places
<1>4. Stacks'
  BY <1>1, <1>3, MovedStack DEF Executions, Places
<1> QED BY <1>2, <1>3, <1>4 DEF SInv, TypeOK, ValuesOK, Others

LEMMA SetNewHandlerKeeps ==
  ASSUME SInv, NEW t \in Threads, SetNewHandler(t) PROVE SInv'
<1>1. frames[t] # <<>> /\ TypeOK /\ Stacks
  BY DEF SetNewHandler, At, SInv
<1>2. ValuesOK'
  BY <1>1 DEF SetNewHandler, TypeOK, ValuesOK
<1>3. Others(t) /\ Popped(frames[t], frames'[t])
  BY <1>1, Returns DEF SetNewHandler
<1>4. Stacks'
  BY <1>1, <1>3, PoppedStack
<1> QED BY <1>2, <1>3, <1>4 DEF SInv, TypeOK, ValuesOK, Others

\* The steps of an execution either move to another place or return.
Running(t) == EnterConn(t) \/ EnterDb(t) \/ Ends(t) \/ GeneratedKeys(t)

LEMMA RunningMoves ==
  ASSUME TypeOK, Stacks, NEW t \in Threads, Running(t)
  PROVE  /\ frames[t] # <<>> /\ Top(t).kind \in Executions
         /\ Top(t).at \in {"conn", "db", "running", "keys"}
         /\ UNCHANGED <<calls, config, nativeVars, ghosts>>
         /\ \/ ~Timed(Top(t)) /\ Return(t)
            \/ Timed(Top(t)) /\ Goto(t, "configBack")
            \/ \E p \in {"db", "running", "keys"} : Goto(t, p)
<1>1. /\ frames[t] # <<>> /\ Top(t).at \in {"conn", "db", "running", "keys"}
      /\ UNCHANGED <<calls, config, nativeVars, ghosts>>
  BY DEF Running, EnterConn, EnterDb, Ends, GeneratedKeys, At
<1>2. Top(t).kind \in Executions
  BY <1>1, TopOfStack DEF Frames, Kinds, Shape
<1>3. \/ ~Timed(Top(t)) /\ Return(t)
      \/ Timed(Top(t)) /\ Goto(t, "configBack")
      \/ \E p \in {"db", "running", "keys"} : Goto(t, p)
  BY DEF Running, EnterConn, EnterDb, Ends, GeneratedKeys, Leave
<1> QED BY <1>1, <1>2, <1>3

LEMMA RunningKeeps ==
  ASSUME SInv, NEW t \in Threads, Running(t) PROVE SInv'
<1>1. /\ frames[t] # <<>> /\ TypeOK /\ Stacks /\ Top(t).kind \in Executions
      /\ ValuesOK'
  BY RunningMoves, SameValues DEF SInv
<1>2. CASE Return(t)
  <2>1. Others(t) /\ Popped(frames[t], frames'[t])
    BY <1>1, <1>2, Returns
  <2>2. Stacks'
    BY <1>1, <2>1, PoppedStack
  <2> QED BY <1>1, <2>1, <2>2 DEF SInv, TypeOK, ValuesOK, Others
<1>3. CASE ~Return(t)
  <2>1. PICK p \in {"db", "running", "keys", "configBack"} :
          Goto(t, p) /\ (p = "configBack" => Timed(Top(t)))
    BY <1>1, <1>3, RunningMoves
  <2>2. p \in Places
    BY DEF Places
  <2>3. Others(t) /\ Moved(frames[t], frames'[t], p)
    BY <1>1, <2>1, <2>2, Goes
  <2>4. Stacks'
    BY <1>1, <2>1, <2>2, <2>3, MovedStack DEF Executions
  <2> QED BY <1>1, <2>3, <2>4 DEF SInv, TypeOK, ValuesOK, Others
<1> QED BY <1>2, <1>3

LEMMA SInductive ==
  ASSUME TimeoutAssumption, SInv, [Next]_vars PROVE SInv'
<1>1. CASE UNCHANGED vars
  BY <1>1 DEF vars, nativeVars, heap, ghosts, SInv, TypeOK, Stacks
<1>2. ASSUME NEW t \in Threads, Call(t) \/ Callback(t) PROVE SInv'
  <2>1. PICK f \in Frames : Calling(t, f) /\ calls' \in [Threads -> Nat]
    BY <1>2, Pushes DEF SInv
  <2>2. Stacks'
    BY <2>1, PushedStack DEF SInv
  <2>3. overlapped' \in BOOLEAN
    BY <2>1 DEF Calling, SInv, TypeOK, Overlaps
  <2>4. ValuesOK'
    BY <2>1, <2>3 DEF Calling, SInv, TypeOK, ValuesOK, nativeVars, heap
  <2> QED BY <2>1, <2>2, <2>4 DEF Calling, Others, SInv, TypeOK, ValuesOK
<1>3. ASSUME NEW t \in Threads, Continue(t) PROVE SInv'
  BY <1>3, WriteConfigKeeps, BusyTimeoutKeeps, BusyHandlerKeeps, SetNewHandlerKeeps,
     RunningKeeps DEF Continue, Running
<1> QED BY <1>1, <1>2, <1>3 DEF Next

LEMMA SHolds == Spec => []SInv
<1> QED BY TimeoutAssumption, SInitially, SInductive, PTL DEF Spec

\* Every reachable state is well typed.
THEOREM TypeCorrect == Spec => []TypeOK
<1>1. SInv => TypeOK BY DEF SInv
<1> QED BY <1>1, SHolds, PTL

-----------------------------------------------------------------------------
(* The monitor of the DB, and the depth of the stacks.                      *)

\* How far a place is from the end of its call.
Rank(place) ==
  CASE place = "config" -> 8 [] place = "native" -> 7 [] place = "conn" -> 6
    [] place = "db" -> 5 [] place = "running" -> 4 [] place = "keys" -> 3
    [] place \in {"configBack", "handler"} -> 2 [] OTHER -> 1

\* Only the outermost call of a thread asks for the monitor of the connection, and
\* a call has another within it once it has called back.
Nested(s) ==
  /\ Len(s) <= MaxDepth + 1
  /\ \A i \in 1 .. Len(s) :
       /\ i < Len(s) => s[i].called
       /\ i > 1 => s[i].kind # "execute"
       /\ s[i].at = "conn" => s[i].kind = "execute"

\* The calls that keep the monitor of the DB between their steps.
Inner == {"running", "swap"}
Runs(s) == \E i \in 1 .. Len(s) : s[i].at \in Inner
OneRuns == \A t, u \in Threads : Runs(frames[t]) /\ Runs(frames[u]) => t = u

NInv ==
  /\ \A t \in Threads :
       /\ Nested(frames[t]) /\ calls[t] \in 0 .. MaxCalls[t]
       /\ frames[t] # <<>> => calls[t] > 0
  /\ OneRuns

LEMMA RunsIsHolds ==
  ASSUME TypeOK, NEW t \in Threads PROVE HoldsDb(t) <=> Runs(frames[t])
<1>1. frames[t] \in Seq(Frames)
  BY DEF TypeOK
<1> QED BY <1>1 DEF HoldsDb, Within, Runs, Inner

\* A call goes on to a place nearer to its end, or returns.
LEMMA Continues ==
  ASSUME SInv, NEW t \in Threads, Continue(t)
  PROVE  /\ frames[t] # <<>> /\ calls' = calls /\ MayContinue(t)
         /\ \/ Return(t)
            \/ \E p \in Places : /\ Goto(t, p) /\ Rank(p) < Rank(Top(t).at)
                                 /\ p \in Inner => DbFree(t)
                                 /\ p = "conn" => Top(t).kind = "execute"
<1>1. CASE WriteConfig(t)
  BY <1>1 DEF WriteConfig, At, MayContinue, Rank, Places, Inner
<1>2. CASE BusyTimeout(t)
  <2>1. Body(Top(t).kind) \in {"conn", "db"} /\ (Body(Top(t).kind) = "conn" <=> Top(t).kind = "execute")
    BY DEF Body
  <2> QED BY <1>2, <2>1 DEF BusyTimeout, At, MayContinue, Rank, Places, Inner
<1>3. CASE BusyHandler(t)
  BY <1>3 DEF BusyHandler, At, MayContinue, Rank, Places, ghosts
<1>5. CASE SetNewHandler(t)
  BY <1>5 DEF SetNewHandler, At, MayContinue
<1>4. CASE Running(t)
  BY <1>4 DEF Running, EnterConn, EnterDb, Ends, GeneratedKeys, Leave, At, MayContinue, Rank, Places, Inner
<1> QED BY <1>1, <1>2, <1>3, <1>4, <1>5 DEF Continue, Running

LEMMA NInitially == ASSUME TimeoutAssumption, Init PROVE NInv
  BY DEF TimeoutAssumption, Init, NInv, Nested, OneRuns, Runs

LEMMA NestedPushed ==
  ASSUME SInv, NInv, NEW t \in Threads, NEW f \in Frames, Calling(t, f), Counted(t, f),
         calls' \in [Threads -> Nat], TimeoutAssumption
  PROVE  NInv'
<1> DEFINE s == frames[t]
           r == frames'[t]
<1>1. s \in Seq(Frames) /\ Pushed(s, r, f) /\ Nested(s) /\ MaxDepth \in Nat /\ Len(s) \in Nat
  BY DEF SInv, TypeOK, NInv, Calling, TimeoutAssumption
<1>2. /\ Len(s) = 0 \/ (Len(s) < MaxDepth /\ f.kind # "execute")
      /\ Len(s) # 0 => f.kind # "execute"
  BY <1>1 DEF Counted
<1>3. f.at \notin Inner /\ (f.at = "conn" => f.kind = "execute")
  BY DEF Calling, Entry, Body, Inner
<1> HIDE DEF s, r
<1>4. /\ r \in Seq(Frames) /\ Len(r) = Len(s) + 1 /\ r[Len(s) + 1] = f
      /\ \A i \in 1 .. Len(s) :
           /\ r[i].kind = s[i].kind /\ r[i].at = s[i].at
           /\ i < Len(s) => r[i].called = s[i].called
           /\ i = Len(s) => r[i].called = TRUE
  BY <1>1 DEF Pushed, Alike
<1>5. Nested(r) /\ (Runs(r) => Runs(s))
  <2>1. \A i \in 1 .. Len(s) + 1 : i \in 1 .. Len(s) \/ i = Len(s) + 1
    <3>1. \A n \in Nat : \A i \in 1 .. n + 1 : i \in 1 .. n \/ i = n + 1
      OBVIOUS
    <3> QED BY <1>1, <3>1
  <2>2. Len(r) <= MaxDepth + 1
    BY <1>1, <1>2, <1>4
  <2>3. ASSUME NEW i \in 1 .. Len(r)
        PROVE  /\ i < Len(r) => r[i].called
               /\ i > 1 => r[i].kind # "execute"
               /\ r[i].at = "conn" => r[i].kind = "execute"
    <3>1. CASE i = Len(s) + 1
      BY <1>1, <1>2, <1>3, <1>4, <3>1
    <3>2. CASE i \in 1 .. Len(s)
      <4>1. /\ i < Len(s) => s[i].called
            /\ i > 1 => s[i].kind # "execute"
            /\ s[i].at = "conn" => s[i].kind = "execute"
        BY <1>1, <3>2 DEF Nested
      <4>2. i < Len(r) => r[i].called
        BY <1>1, <1>4, <3>2, <4>1
      <4> QED BY <1>4, <3>2, <4>1, <4>2
    <3> QED BY <1>4, <2>1, <3>1, <3>2
  <2>4. Runs(r) => Runs(s)
    BY <1>3, <1>4, <2>1 DEF Runs
  <2> QED BY <2>2, <2>3, <2>4 DEF Nested
<1>6. r # <<>> /\ calls'[t] \in 1 .. MaxCalls[t]
  <2>1. r # <<>>
    BY <1>1 DEF Pushed
  <2>2. calls[t] \in 0 .. MaxCalls[t] /\ (s # <<>> => calls[t] > 0) /\ MaxCalls[t] \in Nat
        /\ calls \in [Threads -> Nat]
    BY DEF NInv, SInv, TypeOK, TimeoutAssumption, s
  <2> QED BY <2>1, <2>2 DEF Counted, s
<1>7. \A u \in Threads \ {t} : frames'[u] = frames[u] /\ calls'[u] = calls[u]
  BY DEF Calling, Others, Counted, SInv, TypeOK
<1>8. OneRuns'
  BY <1>5, <1>7 DEF OneRuns, NInv, s, r
<1>9. \A u \in Threads : Nested(frames'[u]) /\ calls'[u] \in 0 .. MaxCalls[u] /\ (frames'[u] # <<>> => calls'[u] > 0)
  BY <1>5, <1>6, <1>7 DEF NInv, r
<1> QED BY <1>8, <1>9 DEF NInv, Nested

LEMMA NestedContinues ==
  ASSUME SInv, NInv, NEW t \in Threads, Continue(t)
  PROVE  NInv'
<1> DEFINE s == frames[t]
           r == frames'[t]
<1>1. /\ s \in Seq(Frames) /\ s # <<>> /\ Nested(s) /\ Len(s) \in Nat \ {0} /\ calls' = calls
      /\ Top(t) = s[Len(s)]
  <2>1. s \in Seq(Frames) /\ s # <<>> /\ calls' = calls /\ Nested(s)
    BY Continues DEF SInv, TypeOK, NInv
  <2> QED BY <2>1, TopOfStack DEF SInv
<1>2. /\ Others(t) /\ Nested(r) /\ (Runs(r) => Runs(s) \/ DbFree(t))
  <2>1. CASE Return(t)
    <3>1. Others(t) /\ Popped(s, r)
      BY <1>1, <2>1, Returns DEF SInv
    <3> HIDE DEF s, r
    <3>2. Len(r) = Len(s) - 1 /\ \A i \in 1 .. Len(r) : i \in 1 .. Len(s) /\ r[i] = s[i]
      BY <1>1, <3>1 DEF Popped
    <3>3. Len(s) <= MaxDepth + 1 /\ \A i \in 1 .. Len(s) :
            /\ i < Len(s) => s[i].called
            /\ i > 1 => s[i].kind # "execute"
            /\ s[i].at = "conn" => s[i].kind = "execute"
      BY <1>1 DEF Nested
    <3>4. Len(r) <= MaxDepth + 1
      BY <1>1, <3>2, <3>3, TimeoutAssumption DEF TimeoutAssumption
    <3>5. ASSUME NEW i \in 1 .. Len(r)
          PROVE  /\ i < Len(r) => r[i].called
                 /\ i > 1 => r[i].kind # "execute"
                 /\ r[i].at = "conn" => r[i].kind = "execute"
      BY <1>1, <3>2, <3>3
    <3> QED BY <3>1, <3>2, <3>4, <3>5 DEF Nested, Runs
  <2>2. CASE ~Return(t)
    <3>1. PICK p \in Places : /\ Goto(t, p) /\ (p \in Inner => DbFree(t))
                             /\ (p = "conn" => Top(t).kind = "execute")
      BY <2>2, Continues
    <3>2. Others(t) /\ Moved(s, r, p)
      BY <1>1, <3>1, Goes DEF SInv
    <3> HIDE DEF s, r
    <3>3. /\ Len(r) = Len(s)
          /\ \A i \in 1 .. Len(s) : r[i].kind = s[i].kind /\ r[i].called = s[i].called
          /\ r[Len(s)].at = p /\ \A i \in 1 .. Len(s) - 1 : r[i].at = s[i].at
      BY <3>2 DEF Moved, Alike
    <3>4. \A i \in 1 .. Len(s) : i \in 1 .. Len(s) - 1 \/ i = Len(s)
      BY <1>1
    <3>5. ASSUME NEW i \in 1 .. Len(s)
          PROVE  /\ i < Len(s) => r[i].called
                 /\ i > 1 => r[i].kind # "execute"
                 /\ r[i].at = "conn" => r[i].kind = "execute"
      <4>1. /\ i < Len(s) => s[i].called
            /\ i > 1 => s[i].kind # "execute"
            /\ s[i].at = "conn" => s[i].kind = "execute"
        BY <1>1 DEF Nested
      <4> QED BY <1>1, <3>1, <3>3, <3>4, <4>1
    <3>6. Runs(r) => Runs(s) \/ p \in Inner
      BY <3>3, <3>4 DEF Runs
    <3> QED BY <1>1, <3>1, <3>2, <3>3, <3>5, <3>6 DEF Nested
  <2> QED BY <2>1, <2>2
<1>3. \A u \in Threads \ {t} : frames'[u] = frames[u]
  BY <1>2 DEF Others
<1>4. OneRuns'
  <2>1. DbFree(t) => \A u \in Threads \ {t} : ~Runs(frames[u])
    BY RunsIsHolds DEF DbFree, SInv
  <2> QED BY <1>2, <1>3, <2>1 DEF OneRuns, NInv
<1> QED BY <1>1, <1>2, <1>3, <1>4 DEF NInv

LEMMA NInductive ==
  ASSUME TimeoutAssumption, SInv, NInv, [Next]_vars PROVE NInv'
<1>1. CASE UNCHANGED vars
  BY <1>1 DEF vars, NInv, OneRuns
<1>2. ASSUME NEW t \in Threads, Call(t) \/ Callback(t) PROVE NInv'
  <2>1. PICK f \in Frames : Calling(t, f) /\ Counted(t, f) /\ calls' \in [Threads -> Nat]
    BY <1>2, Pushes DEF SInv
  <2> QED BY <2>1, NestedPushed
<1>3. ASSUME NEW t \in Threads, Continue(t) PROVE NInv'
  BY <1>3, NestedContinues
<1> QED BY <1>1, <1>2, <1>3 DEF Next

LEMMA NHolds == Spec => []NInv
  BY TimeoutAssumption, NInitially, NInductive, SHolds, PTL DEF Spec

\* The top of what is left when a call returns, if there is one, runs a statement.
LEMMA PoppedParts ==
  ASSUME NEW s \in Seq(Frames), NEW r \in Seq(Frames), Stack(s), s # <<>>, Popped(s, r)
  PROVE  /\ Len(s) \in Nat \ {0} /\ Len(r) = Len(s) - 1 /\ Alike(s, r, Len(r))
         /\ Len(r) = 0 \/ r[Len(r)].at = "running"
<1>1. Len(s) \in Nat \ {0} /\ Len(r) = Len(s) - 1
  BY DEF Popped
<1> QED BY <1>1 DEF Popped, Alike, Stack

-----------------------------------------------------------------------------
(* The contexts of busy handlers.  Between the two halves of                *)
(* change_busy_handler the thread has the monitor: the handler of SQLite is *)
(* its new one, and the old one is still to be freed.                       *)

Swaps(t) == At(t, "swap")
InSlot(c) == IF c = NoHandler THEN 0 ELSE c

MInv ==
  /\ slot \in Contexts => slot \in live
  /\ (\A t \in Threads : ~Swaps(t)) => live = {reference} \ {NoHandler}
  /\ \A t \in Threads :
       IF Swaps(t)
       THEN /\ slot = InSlot(context[t])
            /\ live = {reference, context[t]} \ {NoHandler}
            /\ context[t] = NoHandler \/ context[t] # reference
       ELSE context[t] = NoHandler

\* A thread between the halves has the monitor.
LEMMA SwapHoldsDb ==
  ASSUME SInv, NEW t \in Threads, Swaps(t)
  PROVE  HoldsDb(t) /\ Runs(frames[t])
<1>1. frames[t] \in Seq(Frames) /\ frames[t] # <<>> /\ frames[t][Len(frames[t])].at = "swap"
  BY DEF SInv, TypeOK, Swaps, At, Top
<1>2. Len(frames[t]) \in 1 .. Len(frames[t])
  BY <1>1
<1>3. Runs(frames[t])
  BY <1>1, <1>2 DEF Runs, Inner
<1> QED BY <1>3, RunsIsHolds DEF SInv

LEMMA MInitially == ASSUME TimeoutAssumption, Init PROVE MInv
<1>1. \A t \in Threads : ~Swaps(t) /\ context[t] = NoHandler
  BY DEF Init, Swaps, At
<1>2. slot \notin Contexts
  BY DEF Init, TimeoutAssumption
<1>3. live = {reference} \ {NoHandler}
  BY DEF Init
<1> QED BY <1>1, <1>2, <1>3 DEF MInv

\* Who swaps is the same after a step that neither begins nor ends a swap.
LEMMA SwapsMoved ==
  ASSUME SInv, NEW t \in Threads, Others(t), frames[t] # <<>>, NEW p \in Places,
         Moved(frames[t], frames'[t], p)
  PROVE  /\ \A u \in Threads \ {t} : Swaps(u)' <=> Swaps(u)
         /\ Swaps(t)' <=> p = "swap"
<1>1. Len(frames[t]) \in Nat \ {0}
  BY TopOfStack DEF SInv
<1>2. frames'[t] # <<>> /\ frames'[t][Len(frames'[t])].at = p
  BY <1>1 DEF Moved
<1> QED BY <1>2 DEF Others, Swaps, At, Top

LEMMA SwapsPopped ==
  ASSUME SInv, NEW t \in Threads, Others(t), frames[t] # <<>>,
         Popped(frames[t], frames'[t])
  PROVE  /\ \A u \in Threads \ {t} : Swaps(u)' <=> Swaps(u)
         /\ ~Swaps(t)'
<1>1. /\ frames[t] \in Seq(Frames) /\ frames'[t] \in Seq(Frames) /\ Stack(frames[t])
  BY DEF SInv, TypeOK, Stacks, Others
<1>2. Len(frames'[t]) = 0 \/ frames'[t][Len(frames'[t])].at = "running"
  BY <1>1, PoppedParts
<1>3. ~Swaps(t)'
  BY <1>1, <1>2 DEF Swaps, At, Top
<1> QED BY <1>3 DEF Others, Swaps, At, Top

LEMMA SwapsPushed ==
  ASSUME SInv, NEW t \in Threads, NEW f \in Frames, Calling(t, f)
  PROVE  \A u \in Threads : Swaps(u)' <=> Swaps(u)
<1>1. frames[t] \in Seq(Frames) /\ Pushed(frames[t], frames'[t], f)
      /\ (frames[t] = <<>> \/ Top(t).at = "running")
  BY DEF SInv, TypeOK, Calling
<1>2. ~Swaps(t)
  BY <1>1 DEF Swaps, At
<1>3. f.at # "swap"
  BY DEF Calling, Entry, Body
<1>4. frames'[t] # <<>> /\ frames'[t][Len(frames'[t])] = f
  BY <1>1 DEF Pushed
<1>5. ~Swaps(t)'
  BY <1>3, <1>4 DEF Swaps, At, Top
<1>6. \A u \in Threads \ {t} : Swaps(u)' <=> Swaps(u)
  BY DEF Calling, Others, Swaps, At, Top
<1> QED BY <1>2, <1>5, <1>6

\* While the monitor is free, or its owner does something else, nobody swaps.
LEMMA NobodySwaps ==
  ASSUME SInv, NEW t \in Threads, DbFree(t), ~Swaps(t)
  PROVE  \A u \in Threads : ~Swaps(u)
  BY SwapHoldsDb DEF DbFree

\* A step that leaves the handlers alone, and is at neither half.
LEMMA SameContexts ==
  ASSUME MInv, UNCHANGED nativeVars, \A u \in Threads : Swaps(u)' <=> Swaps(u)
  PROVE  MInv'
  BY DEF MInv, nativeVars, heap, InSlot

\* The steps that do not touch the contexts move or return the top of a stack.
LEMMA StepsAside ==
  ASSUME SInv, NEW t \in Threads, WriteConfig(t) \/ BusyTimeout(t) \/ Running(t)
  PROVE  ~Swaps(t) /\ \A u \in Threads : Swaps(u)' <=> Swaps(u)
<1>1. frames[t] # <<>> /\ Top(t).at # "swap"
  BY DEF WriteConfig, BusyTimeout, Running, EnterConn, EnterDb, Ends, GeneratedKeys, At
<1>2. \/ Return(t)
      \/ \E p \in Places \ {"swap"} : Goto(t, p)
  BY DEF WriteConfig, BusyTimeout, Running, EnterConn, EnterDb, Ends, GeneratedKeys, Leave,
         Body, Places
<1>3. ~Swaps(t)
  BY <1>1 DEF Swaps, At
<1>4. CASE Return(t)
  BY <1>1, <1>3, <1>4, Returns, SwapsPopped DEF SInv
<1>5. CASE \E p \in Places \ {"swap"} : Goto(t, p)
  BY <1>1, <1>3, <1>5, Goes, SwapsMoved DEF SInv
<1> QED BY <1>2, <1>3, <1>4, <1>5

LEMMA MBusyTimeout ==
  ASSUME TimeoutAssumption, SInv, SInv', MInv, NEW t \in Threads, BusyTimeout(t)
  PROVE  MInv'
<1>1. \A u \in Threads : ~Swaps(u) /\ ~Swaps(u)'
  <2>1. ~Swaps(t) /\ \A u \in Threads : Swaps(u)' <=> Swaps(u)
    BY StepsAside
  <2>2. DbFree(t)
    BY DEF BusyTimeout
  <2> QED BY <2>1, <2>2, NobodySwaps
<1>2. slot' \notin Contexts
  <2> DEFINE f == Top(t)
  <2>1. f \in Frames /\ Shape(f) /\ f.at \in {"native", "nativeBack"}
    BY TopOfStack DEF BusyTimeout, At, SInv
  <2>2. f.kind = "setBusyTimeout" \/ (f.kind \in Executions /\ Timed(f))
    BY <2>1 DEF Frames, Kinds, Shape, Timed
  <2>3. slot' \in Timeouts
    BY <2>1, <2>2 DEF BusyTimeout, Shape, Values, Executions, Frames, TimeoutAssumption
  <2> QED BY <2>3 DEF TimeoutAssumption
<1>3. UNCHANGED <<reference, live, context>>
  BY DEF BusyTimeout, heap
<1> QED BY <1>1, <1>2, <1>3 DEF MInv

LEMMA MBusyHandler ==
  ASSUME TimeoutAssumption, SInv, MInv, NEW t \in Threads, BusyHandler(t)
  PROVE  MInv'
<1>1. frames[t] # <<>> /\ Top(t).at = "handler" /\ DbFree(t) /\ Goto(t, "swap")
      /\ reference' = reference
  BY DEF BusyHandler, At
<1>2. \A u \in Threads : ~Swaps(u)
  BY <1>1, NobodySwaps DEF Swaps, At
<1>3. Swaps(t)' /\ \A u \in Threads \ {t} : ~Swaps(u)'
  BY <1>1, <1>2, Goes, SwapsMoved DEF SInv, Places
<1>4. /\ live = {reference} \ {NoHandler} /\ \A u \in Threads : context[u] = NoHandler
      /\ NoHandler \notin Contexts /\ 0 \notin Contexts
      /\ context \in [Threads -> Contexts \cup {NoHandler}]
  BY <1>2 DEF MInv, SInv, TypeOK, TimeoutAssumption
<1>5. CASE slot' = 0 /\ UNCHANGED <<live, context>>
  BY <1>1, <1>3, <1>4, <1>5 DEF MInv, InSlot
<1>6. ASSUME NEW c \in Contexts \ live, slot' = c, live' = live \cup {c},
             context' = [context EXCEPT ![t] = c]
      PROVE  MInv'
  <2>1. context'[t] = c /\ \A u \in Threads \ {t} : context'[u] = NoHandler
    BY <1>4, <1>6
  <2>2. c # NoHandler /\ c # reference
    BY <1>4, <1>6
  <2>3. live' = {reference, c} \ {NoHandler}
    BY <1>4, <1>6, <2>2
  <2> QED BY <1>1, <1>3, <1>6, <2>1, <2>2, <2>3 DEF MInv, InSlot
<1> QED BY <1>5, <1>6 DEF BusyHandler

LEMMA MSetNewHandler ==
  ASSUME TimeoutAssumption, SInv, NInv, MInv, NEW t \in Threads, SetNewHandler(t)
  PROVE  MInv'
<1>1. /\ frames[t] # <<>> /\ Swaps(t) /\ Return(t)
      /\ live' = live \ {reference} /\ reference' = context[t] /\ slot' = slot
      /\ context' = [context EXCEPT ![t] = NoHandler]
  BY DEF SetNewHandler, Swaps, At
<1>2. \A u \in Threads \ {t} : ~Swaps(u)
  BY <1>1, SwapHoldsDb DEF NInv, OneRuns
<1>3. \A u \in Threads : ~Swaps(u)'
  BY <1>1, <1>2, Returns, SwapsPopped DEF SInv
<1>4. /\ slot = InSlot(context[t]) /\ live = {reference, context[t]} \ {NoHandler}
      /\ context[t] = NoHandler \/ context[t] # reference
      /\ 0 \notin Contexts /\ NoHandler \notin Contexts
  BY <1>1 DEF MInv, TimeoutAssumption
<1>5. \A u \in Threads : context'[u] = NoHandler
  BY <1>1, <1>2 DEF MInv, SInv, TypeOK
<1>6. live' = {reference'} \ {NoHandler}
  BY <1>1, <1>4
<1>7. slot' \in Contexts => slot' \in live'
  BY <1>1, <1>4, <1>6 DEF InSlot
<1> QED BY <1>3, <1>5, <1>6, <1>7 DEF MInv

LEMMA MInductive ==
  ASSUME TimeoutAssumption, SInv, SInv', NInv, MInv, [Next]_vars PROVE MInv'
<1>1. CASE UNCHANGED vars
  <2>1. UNCHANGED nativeVars /\ \A u \in Threads : Swaps(u)' <=> Swaps(u)
    BY <1>1 DEF vars, Swaps, At, Top
  <2> QED BY <2>1, SameContexts
<1>2. ASSUME NEW t \in Threads, Call(t) \/ Callback(t) PROVE MInv'
  <2>1. PICK f \in Frames : Calling(t, f)
    BY <1>2, Pushes DEF SInv
  <2> QED BY <2>1, SwapsPushed, SameContexts DEF Calling
<1>3. ASSUME NEW t \in Threads, Continue(t) PROVE MInv'
  <2>1. CASE WriteConfig(t) \/ Running(t)
    <3>1. UNCHANGED nativeVars
      BY <2>1 DEF WriteConfig, Running, EnterConn, EnterDb, Ends, GeneratedKeys
    <3> QED BY <2>1, <3>1, StepsAside, SameContexts
  <2> QED BY <1>3, <2>1, MBusyTimeout, MBusyHandler, MSetNewHandler DEF Continue, Running
<1> QED BY <1>1, <1>2, <1>3 DEF Next

LEMMA MHolds == Spec => []MInv
  BY TimeoutAssumption, MInitially, MInductive, SHolds, NHolds, PTL DEF Spec

\* SQLite never calls a busy handler whose context has been freed, and no context is
\* lost, for any number of threads that replace the handler while others run
\* statements: busy_handler keeps the monitor until it has freed the old one.
THEOREM SlotIsLiveHolds == Spec => []SlotIsLive
<1>1. MInv => SlotIsLive BY DEF MInv, SlotIsLive, Swaps
<1> QED BY <1>1, MHolds, PTL

-----------------------------------------------------------------------------
(* Timeouts.  The executions with timeouts of their own on one stack put    *)
(* back, one after the other, what each has found.                          *)

NoneTimed(s, m) == \A i \in 1 .. m : ~Timed(s[i])
LastTimed(s, m, i) == i \in 1 .. m /\ Timed(s[i]) /\ \A k \in i + 1 .. m : ~Timed(s[k])

\* The first m calls of a stack want v: it is the timeout of the last of them that
\* has one, or what the connection has at rest.
Base(s, m, v, rest) ==
  \/ NoneTimed(s, m) /\ rest
  \/ \E i \in 1 .. m : LastTimed(s, m, i) /\ v = s[i].value

AtRest(v, w, h, ref) == v = w \/ (h /\ v = IF ref = NoHandler THEN 0 ELSE ref)

\* The stack s explains the field of the configuration (c) and SQLite's handler (v),
\* where w, h and ref are wanted, handled and reference.
Good(s, c, w, v, h, ref) ==
  LET n == Len(s)
      top == s[n]
  IN  /\ \A j \in 1 .. n : Timed(s[j]) => Base(s, j - 1, s[j].orig, s[j].orig = w)
      /\ IF n > 0 /\ Timed(top) /\ top.at \in {"config", "nativeBack"}
         THEN c = top.orig
         ELSE Base(s, n, c, c = w)
      /\ IF n > 0 /\ Timed(top) /\ top.at \in {"config", "native"}
         THEN Base(s, n - 1, v, AtRest(v, w, h, ref))
         ELSE \/ n > 0 /\ top.kind = "setBusyTimeout" /\ top.at = "native"
              \/ n > 0 /\ top.kind = "busyHandler" /\ top.at = "swap"
              \/ Base(s, n, v, AtRest(v, w, h, ref))
      /\ \A i \in 1 .. n : s[i].kind \notin Executions => NoneTimed(s, n)
      /\ n > 0 /\ top.kind = "setBusyTimeout" /\ top.at = "native" => top.value = w

Calm(s) == \A i \in 1 .. Len(s) : ~Changes(s[i])

LEMMA BaseAlike ==
  ASSUME NEW s \in Seq(Frames), NEW r \in Seq(Frames), NEW m \in Nat, NEW l \in Nat, l <= m,
         Alike(s, r, m), NEW v, NEW rest \in BOOLEAN, Base(s, l, v, rest)
  PROVE  Base(r, l, v, rest)
<1>1. \A i \in 1 .. l : r[i].value = s[i].value /\ Timed(r[i]) = Timed(s[i])
  BY DEF Alike, Timed
<1>2. CASE NoneTimed(s, l) /\ rest
  BY <1>1, <1>2 DEF Base, NoneTimed
<1>3. CASE \E i \in 1 .. l : LastTimed(s, l, i) /\ v = s[i].value
  <2>1. PICK i \in 1 .. l : LastTimed(s, l, i) /\ v = s[i].value
    BY <1>3
  <2>2. \A k \in i + 1 .. l : k \in 1 .. l
    OBVIOUS
  <2> QED BY <1>1, <2>1, <2>2 DEF Base, LastTimed
<1> QED BY <1>2, <1>3 DEF Base

\* A frame without a timeout adds nothing, and one with a timeout decides.
LEMMA BaseOver ==
  ASSUME NEW s \in Seq(Frames), NEW m \in Nat \ {0}, NEW v, NEW rest \in BOOLEAN
  PROVE  /\ ~Timed(s[m]) => (Base(s, m, v, rest) <=> Base(s, m - 1, v, rest))
         /\ Timed(s[m]) => (Base(s, m, v, rest) <=> v = s[m].value)
<1>1. ASSUME ~Timed(s[m]) PROVE Base(s, m, v, rest) <=> Base(s, m - 1, v, rest)
  BY <1>1 DEF Base, NoneTimed, LastTimed
<1>2. ASSUME Timed(s[m]) PROVE Base(s, m, v, rest) <=> v = s[m].value
  BY <1>2 DEF Base, NoneTimed, LastTimed
<1> QED BY <1>1, <1>2

\* The parts of Good that only look down the stack.
Chain(s, w) ==
  /\ \A j \in 1 .. Len(s) : Timed(s[j]) => Base(s, j - 1, s[j].orig, s[j].orig = w)
  /\ \A i \in 1 .. Len(s) : s[i].kind \notin Executions => NoneTimed(s, Len(s))

LEMMA ChainAlike ==
  ASSUME NEW s \in Seq(Frames), NEW r \in Seq(Frames), NEW w, Len(r) <= Len(s),
         Alike(s, r, Len(r)), Chain(s, w)
  PROVE  Chain(r, w)
<1>1. Len(s) \in Nat /\ Len(r) \in Nat
  OBVIOUS
<1>2. ASSUME NEW j \in 1 .. Len(r), Timed(r[j])
      PROVE  Base(r, j - 1, r[j].orig, r[j].orig = w)
  <2>1. r[j].orig = s[j].orig /\ Timed(s[j]) /\ j \in 1 .. Len(s)
    BY <1>1, <1>2 DEF Alike, Timed
  <2>2. Base(s, j - 1, s[j].orig, s[j].orig = w)
    BY <2>1 DEF Chain
  <2>3. j - 1 \in Nat /\ j - 1 <= Len(r)
    BY <1>1
  <2>4. Base(r, j - 1, s[j].orig, s[j].orig = w)
    <3> DEFINE rest == s[j].orig = w
    <3>1. rest \in BOOLEAN
      OBVIOUS
    <3> HIDE DEF rest
    <3>2. Base(s, j - 1, s[j].orig, rest)
      BY <2>2 DEF rest
    <3>3. Base(r, j - 1, s[j].orig, rest)
      BY <1>1, <2>3, <3>1, <3>2, BaseAlike
    <3> QED BY <3>3 DEF rest
  <2> QED BY <2>1, <2>4
<1>3. ASSUME NEW i \in 1 .. Len(r), r[i].kind \notin Executions
      PROVE  NoneTimed(r, Len(r))
  <2>1. s[i].kind \notin Executions /\ i \in 1 .. Len(s)
    BY <1>1, <1>3 DEF Alike
  <2> QED BY <1>1, <2>1 DEF Chain, NoneTimed, Alike, Timed
<1> QED BY <1>2, <1>3 DEF Chain

\* What a stack at rest, or one whose top runs a statement, says: the values are
\* those its frames want.
Settled(s, c, w, v, rest) == Base(s, Len(s), c, c = w) /\ Base(s, Len(s), v, rest)

LEMMA GoodParts ==
  ASSUME NEW s \in Seq(Frames), NEW c, NEW w, NEW v, NEW h \in BOOLEAN, NEW ref
  PROVE  LET n == Len(s) top == s[n] rest == AtRest(v, w, h, ref)
         IN  /\ Good(s, c, w, v, h, ref) => Chain(s, w)
             /\ n = 0 \/ top.at \in {"conn", "db", "running", "keys", "configBack"}
                => (Good(s, c, w, v, h, ref) <=> Chain(s, w) /\ Settled(s, c, w, v, rest))
<1>1. Len(s) \in Nat
  OBVIOUS
<1> QED BY <1>1 DEF Good, Chain, Settled

\* A stack whose calls have a base in common with those of another.
LEMMA SettledAlike ==
  ASSUME NEW s \in Seq(Frames), NEW r \in Seq(Frames), Len(r) <= Len(s),
         Alike(s, r, Len(r)), NEW c, NEW w, NEW v, NEW rest \in BOOLEAN,
         Base(s, Len(r), c, c = w), Base(s, Len(r), v, rest)
  PROVE  Settled(r, c, w, v, rest)
<1>1. Len(r) \in Nat
  OBVIOUS
<1> DEFINE same == c = w
<1>2. same \in BOOLEAN
  OBVIOUS
<1>3. Base(s, Len(r), c, same)
  OBVIOUS
<1> HIDE DEF same
<1>4. Base(r, Len(r), c, same)
  BY <1>1, <1>2, <1>3, BaseAlike
<1>5. Base(r, Len(r), v, rest)
  BY <1>1, BaseAlike
<1> QED BY <1>4, <1>5 DEF Settled, same

\* A stack that is empty, or whose top runs a statement, wants what there is.
LEMMA Wanted ==
  ASSUME NEW s \in Seq(Frames), Stack(s),
         NEW c, NEW w, NEW v, NEW h \in BOOLEAN, NEW ref, Good(s, c, w, v, h, ref),
         s = <<>> \/ s[Len(s)].at \in {"conn", "db", "running", "keys", "configBack"}
  PROVE  Chain(s, w) /\ Settled(s, c, w, v, AtRest(v, w, h, ref))
<1>1. Len(s) = 0 \/ s[Len(s)].at \in {"conn", "db", "running", "keys", "configBack"}
  OBVIOUS
<1> QED BY <1>1, GoodParts

\* A call begins, which has read the timeout of the connection if it needs it.
LEMMA GoodPushed ==
  ASSUME NEW s \in Seq(Frames), NEW r \in Seq(Frames), Stack(s),
         NEW c, NEW w, NEW v, NEW h \in BOOLEAN, NEW ref, Good(s, c, w, v, h, ref),
         NEW f \in Frames, Pushed(s, r, f), s = <<>> \/ s[Len(s)].at = "running",
         Shape(f), f.at = Entry(f.kind, f.value), Timed(f) => f.orig = c,
         f.kind \notin Executions => NoneTimed(s, Len(s))
  PROVE  Good(r, c, w, v, h, ref)
<1> DEFINE n == Len(s)
           rest == AtRest(v, w, h, ref)
<1>1. /\ n \in Nat /\ Len(r) = n + 1 /\ r[n + 1] = f /\ Alike(s, r, n)
      /\ rest \in BOOLEAN /\ f.kind \in Kinds
  BY DEF Pushed, Frames, AtRest
<1>2. Chain(s, w) /\ Base(s, n, c, c = w) /\ Base(s, n, v, rest)
  BY Wanted DEF Settled
<1>3. Base(r, n, c, c = w) /\ Base(r, n, v, rest)
  <2> DEFINE same == c = w
  <2>1. same \in BOOLEAN /\ Base(s, n, c, same)
    BY <1>2
  <2> HIDE DEF same, rest, n
  <2>2. Base(r, n, c, same) /\ Base(r, n, v, rest)
    BY <1>1, <1>2, <2>1, BaseAlike
  <2> QED BY <2>2 DEF same
<1>4. ~Timed(f) => Base(r, n + 1, c, c = w) /\ Base(r, n + 1, v, rest)
  <2> DEFINE same == c = w
  <2>1. same \in BOOLEAN /\ Base(r, n, c, same)
    BY <1>3
  <2> HIDE DEF same, rest
  <2>2. n + 1 \in Nat \ {0} /\ n + 1 - 1 = n
    BY <1>1
  <2>3. ~Timed(f) => Base(r, n + 1, c, same) /\ Base(r, n + 1, v, rest)
    BY <1>1, <1>3, <2>1, <2>2, BaseOver
  <2> QED BY <2>3 DEF same
<1>5. \A j \in 1 .. n : Timed(r[j]) => Base(r, j - 1, r[j].orig, r[j].orig = w)
  <2>1. ASSUME NEW j \in 1 .. n, Timed(r[j]) PROVE Base(r, j - 1, r[j].orig, r[j].orig = w)
    <3> DEFINE same == s[j].orig = w
    <3>1. r[j].orig = s[j].orig /\ Timed(s[j]) /\ same \in BOOLEAN
      BY <1>1, <2>1 DEF Alike, Timed
    <3>2. Base(s, j - 1, s[j].orig, same)
      BY <1>2, <3>1 DEF Chain
    <3> HIDE DEF same
    <3>3. Base(r, j - 1, s[j].orig, same)
      BY <1>1, <3>1, <3>2, BaseAlike
    <3> QED BY <3>1, <3>3 DEF same
  <2> QED BY <2>1
<1>6. Timed(f) => Base(r, n, r[n + 1].orig, r[n + 1].orig = w)
  BY <1>1, <1>3
<1>7. \A i \in 1 .. n + 1 : r[i].kind \notin Executions => NoneTimed(r, n + 1)
  <2>1. \A i \in 1 .. n : r[i].kind = s[i].kind /\ s[i].at = "running" /\ s[i] \in Frames /\ Shape(s[i])
    BY <1>1 DEF Stack, Alike
  <2>2. \A i \in 1 .. n : r[i].kind \in Executions
    BY <2>1 DEF Shape, Frames, Kinds
  <2>3. f.kind \notin Executions => NoneTimed(r, n + 1)
    BY <1>1 DEF NoneTimed, Alike, Timed
  <2> QED BY <1>1, <2>2, <2>3
<1>8. /\ Timed(f) => f.at = "config" /\ f.orig = c
      /\ ~(f.kind = "setBusyTimeout" /\ f.at = "native")
      /\ ~(f.kind = "busyHandler" /\ f.at = "swap")
  BY DEF Entry, Timed, Executions
<1>9. CASE Timed(f)
  BY <1>1, <1>3, <1>5, <1>6, <1>7, <1>8, <1>9, SMTT(30) DEF Good
<1>10. CASE ~Timed(f)
  BY <1>1, <1>4, <1>5, <1>7, <1>8, <1>10, SMTT(30) DEF Good
<1> QED BY <1>9, <1>10

\* A call runs its statement, or goes on to the finally of withConnectionTimeout.
LEMMA GoodRuns ==
  ASSUME NEW s \in Seq(Frames), NEW r \in Seq(Frames), Stack(s), s # <<>>,
         NEW c, NEW w, NEW v, NEW h \in BOOLEAN, NEW ref, Good(s, c, w, v, h, ref),
         NEW p \in {"db", "running", "keys", "configBack"}, Moved(s, r, p),
         s[Len(s)].at \in {"conn", "db", "running", "keys"}
  PROVE  Good(r, c, w, v, h, ref)
<1> DEFINE rest == AtRest(v, w, h, ref)
<1>1. Chain(s, w) /\ Settled(s, c, w, v, rest) /\ rest \in BOOLEAN
  BY Wanted DEF AtRest
<1>2. Len(r) = Len(s) /\ Alike(s, r, Len(r)) /\ r[Len(r)].at = p /\ Len(s) \in Nat
  BY DEF Moved
<1>3. Chain(r, w)
  BY <1>1, <1>2, ChainAlike
<1> HIDE DEF rest
<1>4. Base(s, Len(r), c, c = w) /\ Base(s, Len(r), v, rest) /\ Len(r) <= Len(s)
  BY <1>1, <1>2 DEF Settled
<1>5. Settled(r, c, w, v, rest)
  BY <1>1, <1>2, <1>4, SettledAlike
<1> QED BY <1>2, <1>3, <1>5, GoodParts DEF rest

\* An execution without a timeout of its own returns.
LEMMA GoodEnds ==
  ASSUME NEW s \in Seq(Frames), NEW r \in Seq(Frames), Stack(s), s # <<>>,
         NEW c, NEW w, NEW v, NEW h \in BOOLEAN, NEW ref, Good(s, c, w, v, h, ref),
         Popped(s, r), ~Timed(s[Len(s)]), s[Len(s)].at \in {"conn", "db", "running", "keys"}
  PROVE  Good(r, c, w, v, h, ref)
<1> DEFINE rest == AtRest(v, w, h, ref)
           same == c = w
<1>1. Chain(s, w) /\ Base(s, Len(s), c, same) /\ Base(s, Len(s), v, rest)
      /\ rest \in BOOLEAN /\ same \in BOOLEAN
  BY Wanted DEF AtRest, Settled
<1>2. /\ Len(s) \in Nat \ {0} /\ Len(r) = Len(s) - 1 /\ Alike(s, r, Len(r))
      /\ Len(r) = 0 \/ r[Len(r)].at = "running"
  BY PoppedParts
<1>3. Chain(r, w)
  BY <1>1, <1>2, ChainAlike
<1> HIDE DEF rest, same
<1>4. Base(s, Len(r), c, same) /\ Base(s, Len(r), v, rest)
  BY <1>1, <1>2, BaseOver
<1>5. Settled(r, c, w, v, rest)
  BY <1>1, <1>2, <1>4, SettledAlike DEF same
<1> QED BY <1>2, <1>3, <1>5, GoodParts DEF rest

\* setBusyTimeout writes the field, before SQLite's handler.
LEMMA GoodWritten ==
  ASSUME NEW s \in Seq(Frames), NEW r \in Seq(Frames), Stack(s), s # <<>>,
         NEW c, NEW w, NEW v, NEW h \in BOOLEAN, NEW ref, Good(s, c, w, v, h, ref),
         s[Len(s)].at = "config", Moved(s, r, "native")
  PROVE  Good(r, s[Len(s)].value,
              IF s[Len(s)].kind = "setBusyTimeout" THEN s[Len(s)].value ELSE w, v, h, ref)
<1> DEFINE n == Len(s)
           top == s[n]
           rest == AtRest(v, w, h, ref)
<1>1. /\ n \in Nat \ {0} /\ Len(r) = n /\ Alike(s, r, n) /\ r[n].at = "native"
      /\ top \in Frames /\ Shape(top)
  BY DEF Moved, Stack
<1>2. r[n].kind = top.kind /\ r[n].value = top.value /\ r[n].orig = top.orig
      /\ (Timed(r[n]) <=> Timed(top))
  BY <1>1 DEF Alike, Timed
<1>3. Chain(s, w)
  BY GoodParts
<1>4. Chain(r, w)
  BY <1>1, <1>3, ChainAlike
<1>5. CASE Timed(top)
  <2>1. top.kind # "setBusyTimeout"
    BY <1>5 DEF Timed, Executions
  <2>2. Base(s, n - 1, v, rest) /\ rest \in BOOLEAN
    BY <1>1, <1>5 DEF Good, AtRest
  <2>3. Base(r, n - 1, v, rest)
    <3> HIDE DEF rest
    <3>1. n - 1 \in Nat /\ n - 1 <= n
      BY <1>1
    <3>2. Alike(s, r, n)
      BY <1>1
    <3> HIDE DEF n, top
    <3> QED BY <1>1, <2>2, <3>1, <3>2, BaseAlike
  <2>4. Base(r, n, top.value, top.value = w)
    <3> DEFINE same == top.value = w
    <3>1. same \in BOOLEAN
      OBVIOUS
    <3> HIDE DEF same, n, top
    <3>2. Base(r, n, top.value, same)
      BY <1>1, <1>2, <1>5, <3>1, BaseOver
    <3> QED BY <3>2 DEF same
  <2> QED BY <1>1, <1>2, <1>4, <1>5, <2>1, <2>3, <2>4 DEF Good, Chain
<1>6. CASE ~Timed(top)
  <2>1. top.kind = "setBusyTimeout"
    BY <1>1, <1>6 DEF Shape, Frames, Kinds
  <2>2. NoneTimed(r, n)
    BY <1>1, <1>2, <1>4, <2>1 DEF Chain, Executions
  <2>3. Base(r, n, top.value, top.value = top.value)
    BY <2>2 DEF Base
  <2> QED BY <1>1, <1>2, <1>6, <2>1, <2>2, <2>3 DEF Good, NoneTimed
<1> QED BY <1>5, <1>6

\* The finally of withConnectionTimeout writes the field.
LEMMA GoodWrittenBack ==
  ASSUME NEW s \in Seq(Frames), NEW r \in Seq(Frames), Stack(s), s # <<>>,
         NEW c, NEW w, NEW v, NEW h \in BOOLEAN, NEW ref, Good(s, c, w, v, h, ref),
         s[Len(s)].at = "configBack", Moved(s, r, "nativeBack")
  PROVE  Good(r, s[Len(s)].orig, w, v, h, ref)
<1> DEFINE n == Len(s)
           rest == AtRest(v, w, h, ref)
<1>1. /\ n \in Nat \ {0} /\ Len(r) = n /\ Alike(s, r, n) /\ r[n].at = "nativeBack"
      /\ s[n] \in Frames /\ Shape(s[n])
  BY DEF Moved, Stack
<1>2. /\ r[n].kind = s[n].kind /\ r[n].orig = s[n].orig /\ Timed(s[n]) /\ Timed(r[n])
      /\ r[n].kind # "setBusyTimeout"
  BY <1>1 DEF Alike, Timed, Shape, Frames, Kinds
<1>3. Chain(s, w) /\ Base(s, n, v, rest) /\ rest \in BOOLEAN
  BY <1>1, Wanted DEF Settled, AtRest
<1>4. Chain(r, w)
  BY <1>1, <1>3, ChainAlike
<1>5. Base(r, n, v, rest)
  <2> HIDE DEF n, rest
  <2> QED BY <1>1, <1>3, BaseAlike
<1> QED BY <1>1, <1>2, <1>4, <1>5 DEF Good, Chain

\* sqlite3_busy_timeout for an execution, which then begins.
LEMMA GoodInstalled ==
  ASSUME NEW s \in Seq(Frames), NEW r \in Seq(Frames), Stack(s), s # <<>>,
         NEW c, NEW w, NEW v, NEW h \in BOOLEAN, NEW ref, Good(s, c, w, v, h, ref),
         s[Len(s)].at = "native", s[Len(s)].kind \in Executions,
         NEW p \in {"conn", "db"}, Moved(s, r, p)
  PROVE  Good(r, c, w, s[Len(s)].value, h, ref)
<1> DEFINE n == Len(s)
           top == s[n]
           rest == AtRest(top.value, w, h, ref)
           same == c = w
<1>1. /\ n \in Nat \ {0} /\ Len(r) = n /\ Alike(s, r, n) /\ r[n].at = p
      /\ top \in Frames /\ Shape(top) /\ rest \in BOOLEAN /\ same \in BOOLEAN
  BY DEF Moved, Stack, AtRest
<1>2. Timed(top) /\ Timed(r[n]) /\ r[n].value = top.value
  BY <1>1 DEF Alike, Timed, Shape
<1>3. Chain(s, w) /\ Base(s, n, c, same)
  BY <1>1 DEF Good, Chain
<1>4. Chain(r, w)
  BY <1>1, <1>3, ChainAlike
<1> HIDE DEF rest, same
<1>5. Base(r, n, c, same) /\ Base(r, n, top.value, rest)
  <2> HIDE DEF n, top
  <2> QED BY <1>1, <1>2, <1>3, BaseAlike, BaseOver
<1>6. Settled(r, c, w, top.value, rest)
  BY <1>1, <1>5 DEF Settled, same
<1> QED BY <1>1, <1>4, <1>6, GoodParts DEF rest

\* sqlite3_busy_timeout for the application: the connection is at rest.
LEMMA GoodSet ==
  ASSUME NEW s \in Seq(Frames), NEW r \in Seq(Frames), Stack(s), s # <<>>,
         NEW c, NEW w, NEW v, NEW h \in BOOLEAN, NEW ref, Good(s, c, w, v, h, ref),
         s[Len(s)].at = "native", s[Len(s)].kind = "setBusyTimeout", Popped(s, r)
  PROVE  Good(r, c, w, s[Len(s)].value, h, ref)
<1> DEFINE n == Len(s)
           rest == AtRest(s[n].value, w, h, ref)
<1>1. /\ n \in Nat \ {0} /\ Len(r) = n - 1 /\ Alike(s, r, Len(r))
      /\ Len(r) = 0 \/ r[Len(r)].at = "running"
  BY PoppedParts
<1>2. /\ Chain(s, w) /\ NoneTimed(s, n) /\ s[n].value = w
      /\ ~Timed(s[n]) /\ Base(s, n, c, c = w)
  BY <1>1 DEF Good, Chain, Executions, NoneTimed
<1>3. c = w /\ rest
  BY <1>1, <1>2 DEF Base, NoneTimed, LastTimed, AtRest
<1>4. Chain(r, w)
  BY <1>1, <1>2, ChainAlike
<1>5. NoneTimed(r, Len(r))
  BY <1>1, <1>2 DEF NoneTimed, Alike, Timed
<1>6. Settled(r, c, w, s[n].value, rest)
  BY <1>3, <1>5 DEF Settled, Base
<1> QED BY <1>1, <1>4, <1>6, GoodParts

\* sqlite3_busy_timeout for the execution that returns: what it has found is back.
LEMMA GoodRestored ==
  ASSUME NEW s \in Seq(Frames), NEW r \in Seq(Frames), Stack(s), s # <<>>,
         NEW c, NEW w, NEW v, NEW h \in BOOLEAN, NEW ref, Good(s, c, w, v, h, ref),
         s[Len(s)].at = "nativeBack", Popped(s, r)
  PROVE  Good(r, c, w, s[Len(s)].orig, h, ref)
<1> DEFINE n == Len(s)
           o == s[n].orig
           rest == AtRest(o, w, h, ref)
<1>1. /\ n \in Nat \ {0} /\ Len(r) = n - 1 /\ Alike(s, r, Len(r))
      /\ Len(r) = 0 \/ r[Len(r)].at = "running"
  BY PoppedParts
<1>2. Timed(s[n])
  <2>1. s[n] \in Frames /\ Shape(s[n])
    BY <1>1 DEF Stack
  <2> QED BY <2>1 DEF Shape, Frames, Kinds
<1>3. c = o /\ Chain(s, w) /\ Base(s, n - 1, o, o = w)
  BY <1>1, <1>2 DEF Good, Chain
<1>4. Chain(r, w)
  BY <1>1, <1>3, ChainAlike
<1>5. Base(s, Len(r), c, c = w) /\ Base(s, Len(r), o, rest) /\ rest \in BOOLEAN
  BY <1>1, <1>3 DEF Base, AtRest
<1>6. Settled(r, c, w, o, rest)
  <2> HIDE DEF rest, o
  <2> QED BY <1>1, <1>5, SettledAlike
<1> QED BY <1>1, <1>4, <1>6, GoodParts

\* SQLite has the new busy handler.
LEMMA GoodSwapping ==
  ASSUME NEW s \in Seq(Frames), NEW r \in Seq(Frames), Stack(s), s # <<>>,
         NEW c, NEW w, NEW v, NEW h \in BOOLEAN, NEW ref, Good(s, c, w, v, h, ref),
         s[Len(s)].at = "handler", Moved(s, r, "swap"), NEW x
  PROVE  Good(r, c, w, x, h, ref)
<1> DEFINE n == Len(s)
           same == c = w
<1>1. /\ n \in Nat \ {0} /\ Len(r) = n /\ Alike(s, r, n) /\ r[n].at = "swap"
      /\ same \in BOOLEAN
  BY DEF Moved
<1>2. s[n].kind = "busyHandler" /\ r[n].kind = "busyHandler"
  BY <1>1 DEF Stack, Shape, Alike
<1>3. Chain(s, w) /\ Base(s, n, c, same)
  BY <1>1, <1>2 DEF Good, Chain
<1>4. Chain(r, w)
  BY <1>1, <1>3, ChainAlike
<1>5. Base(r, n, c, c = w)
  <2> HIDE DEF n, same
  <2>1. Base(r, n, c, same)
    BY <1>1, <1>3, BaseAlike
  <2> QED BY <2>1 DEF same
<1>6. ~Timed(r[n])
  BY <1>2 DEF Timed, Executions
<1> QED BY <1>1, <1>2, <1>4, <1>5, <1>6 DEF Good, Chain

\* A busy handler has been set or cleared: the connection is at rest, with handlers.
LEMMA GoodHandled ==
  ASSUME NEW s \in Seq(Frames), NEW r \in Seq(Frames), Stack(s), s # <<>>,
         NEW c, NEW w, NEW v, NEW h \in BOOLEAN, NEW ref, Good(s, c, w, v, h, ref),
         s[Len(s)].at = "swap", Popped(s, r), NEW new
  PROVE  Good(r, c, w, IF new = NoHandler THEN 0 ELSE new, TRUE, new)
<1> DEFINE n == Len(s)
           x == IF new = NoHandler THEN 0 ELSE new
           rest == AtRest(x, w, TRUE, new)
<1>1. /\ n \in Nat \ {0} /\ Len(r) = n - 1 /\ Alike(s, r, Len(r))
      /\ Len(r) = 0 \/ r[Len(r)].at = "running"
  BY PoppedParts
<1>2. s[n].kind = "busyHandler"
  BY <1>1 DEF Stack, Shape
<1>3. /\ Chain(s, w) /\ NoneTimed(s, n) /\ ~Timed(s[n]) /\ Base(s, n, c, c = w)
  BY <1>1, <1>2 DEF Good, Chain, Executions, NoneTimed
<1>4. c = w /\ rest
  BY <1>1, <1>3 DEF Base, NoneTimed, LastTimed, AtRest
<1>5. Chain(r, w)
  BY <1>1, <1>3, ChainAlike
<1>6. NoneTimed(r, Len(r))
  BY <1>1, <1>3 DEF NoneTimed, Alike, Timed
<1>7. Settled(r, c, w, x, rest)
  BY <1>4, <1>6 DEF Settled, Base
<1> QED BY <1>1, <1>5, <1>7, GoodParts

-----------------------------------------------------------------------------
(* While no two threads have raced, one thread at most changes the timeout, *)
(* and its stack says what the connection has.                             *)

GoodOf(t) == Good(frames[t], config, wanted, slot, handled, reference)
OwnedBy(t) == GoodOf(t) /\ \A u \in Threads \ {t} : Calm(frames[u])
TimeInv == ~overlapped => \E t \in Threads : OwnedBy(t)

IInv == SInv /\ TimeInv

LEMMA CalmRests ==
  ASSUME SInv, NEW t \in Threads, Calm(frames[t])
  PROVE  GoodOf(t) <=> config = wanted /\ AtRest(slot, wanted, handled, reference)
<1> DEFINE s == frames[t]
<1>1. s \in Seq(Frames) /\ Len(s) \in Nat
  BY DEF SInv, TypeOK
<1>2. \A i \in 1 .. Len(s) : s[i].kind \in Executions /\ ~Timed(s[i])
  BY DEF Calm, Changes
<1> QED BY <1>1, <1>2 DEF GoodOf, Good, Base, NoneTimed, LastTimed, Executions

\* A thread that is not the owner may only go on with executions that change nothing.
LEMMA CalmContinues ==
  ASSUME SInv, NEW t \in Threads, Calm(frames[t]), Continue(t)
  PROVE  /\ Others(t) /\ Calm(frames'[t])
         /\ UNCHANGED <<config, nativeVars, ghosts>>
<1>1. ASSUME frames[t] # <<>>
      PROVE  /\ TypeOK /\ Stacks /\ Len(frames[t]) \in Nat \ {0}
             /\ Top(t).kind \in Executions /\ ~Timed(Top(t))
             /\ Top(t).at \in {"conn", "db", "running", "keys"}
  <2>1. /\ TypeOK /\ Stacks /\ Len(frames[t]) \in Nat \ {0}
        /\ Top(t) = frames[t][Len(frames[t])] /\ Shape(Top(t))
    BY <1>1, TopOfStack DEF SInv
  <2>2. Top(t).kind \in Executions /\ ~Timed(Top(t))
    BY <2>1 DEF Calm, Changes
  <2> QED BY <2>1, <2>2 DEF Shape
<1>2. Running(t)
  <2>1. ~WriteConfig(t) /\ ~BusyTimeout(t) /\ ~BusyHandler(t) /\ ~SetNewHandler(t)
    BY <1>1 DEF WriteConfig, BusyTimeout, BusyHandler, SetNewHandler, At
  <2> QED BY <2>1 DEF Continue, Running
<1>3. /\ frames[t] # <<>> /\ UNCHANGED <<calls, config, nativeVars, ghosts>>
      /\ \/ Return(t)
         \/ \E p \in {"db", "running", "keys"} : Goto(t, p)
  BY <1>1, <1>2, RunningMoves DEF SInv
<1>4. CASE Return(t)
  <2>1. Others(t) /\ Popped(frames[t], frames'[t])
    BY <1>1, <1>3, <1>4, Returns
  <2>2. Calm(frames'[t])
    BY <1>1, <1>3, <2>1 DEF Popped, Calm
  <2> QED BY <1>3, <2>1, <2>2
<1>5. CASE \E p \in {"db", "running", "keys"} : Goto(t, p)
  <2>1. PICK p \in {"db", "running", "keys"} : Goto(t, p)
    BY <1>5
  <2>2. p \in Places
    BY DEF Places
  <2>3. Others(t) /\ Moved(frames[t], frames'[t], p)
    BY <1>1, <1>3, <2>1, <2>2, Goes
  <2>4. Calm(frames'[t])
    BY <2>3 DEF Moved, Alike, Calm, Changes, Timed
  <2> QED BY <1>3, <2>3, <2>4
<1> QED BY <1>3, <1>4, <1>5

\* A call of the owner.
LEMMA OwnCall ==
  ASSUME SInv, NEW t \in Threads, OwnedBy(t), NEW f \in Frames, Calling(t, f), ~overlapped'
  PROVE  OwnedBy(t)'
<1> DEFINE s == frames[t]
           r == frames'[t]
<1>1. /\ s \in Seq(Frames) /\ Stack(s) /\ r \in Seq(Frames) /\ handled \in BOOLEAN
      /\ DOMAIN s = 1 .. Len(s)
  BY DEF SInv, TypeOK, Stacks, Calling, Others
<1>2. /\ Pushed(s, r, f) /\ Shape(f) /\ f.at = Entry(f.kind, f.value)
      /\ s = <<>> \/ s[Len(s)].at = "running"
      /\ UNCHANGED <<config, nativeVars, wanted, handled>>
      /\ ~overlapped /\ ~Overlaps(t, f)
  BY DEF Calling, Top
<1>3. Timed(f) => f.orig = config
  BY <1>2 DEF Calling, ConfigRead
<1>4. f.kind \notin Executions => NoneTimed(s, Len(s))
  BY <1>1, <1>2 DEF Overlaps, Within, NoneTimed
<1>5. Good(s, config, wanted, slot, handled, reference)
  BY DEF OwnedBy, GoodOf
<1> HIDE DEF s, r
<1>6. Good(r, config, wanted, slot, handled, reference)
  BY <1>1, <1>2, <1>3, <1>4, <1>5, GoodPushed
<1>7. GoodOf(t)'
  BY <1>2, <1>6 DEF GoodOf, nativeVars, heap, r
<1> QED BY <1>7 DEF OwnedBy, Calling, Others

LEMMA OwnContinue ==
  ASSUME TimeoutAssumption, SInv, MInv, NEW t \in Threads, OwnedBy(t), Continue(t)
  PROVE  OwnedBy(t)'
<1> DEFINE s == frames[t]
           r == frames'[t]
           top == s[Len(s)]
<1>1. /\ s \in Seq(Frames) /\ Stack(s) /\ handled \in BOOLEAN /\ s # <<>>
      /\ TypeOK /\ Stacks
  BY DEF SInv, TypeOK, Stacks, Continue, WriteConfig, BusyTimeout, BusyHandler, SetNewHandler,
         EnterConn, EnterDb, Ends, GeneratedKeys, At
<1>2. top = Top(t) /\ top \in Frames /\ Shape(top) /\ Len(s) \in Nat \ {0}
  BY <1>1, TopOfStack
<1>3. Good(s, config, wanted, slot, handled, reference)
  BY DEF OwnedBy, GoodOf
<1>4. ASSUME Others(t), GoodOf(t)' PROVE OwnedBy(t)'
  BY <1>4 DEF OwnedBy, Others
<1>5. CASE WriteConfig(t)
  <2>1. CASE top.at = "config"
    <3>1. /\ Goto(t, "native") /\ config' = top.value /\ UNCHANGED <<nativeVars, handled>>
          /\ wanted' = IF top.kind = "setBusyTimeout" THEN top.value ELSE wanted
      BY <1>2, <1>5, <2>1 DEF WriteConfig, At
    <3>2. Others(t) /\ Moved(s, r, "native")
      BY <1>1, <3>1, Goes DEF Places
    <3>3. r \in Seq(Frames)
      BY <3>2 DEF Moved
    <3> HIDE DEF s, r
    <3>4. Good(r, top.value, IF top.kind = "setBusyTimeout" THEN top.value ELSE wanted,
               slot, handled, reference)
      BY <1>1, <1>3, <2>1, <3>2, <3>3, GoodWritten
    <3>5. GoodOf(t)'
      BY <3>1, <3>4 DEF GoodOf, nativeVars, heap, r
    <3> QED BY <1>4, <3>2, <3>5
  <2>2. CASE top.at = "configBack"
    <3>1. /\ Goto(t, "nativeBack") /\ config' = top.orig /\ UNCHANGED <<nativeVars, handled>>
          /\ top.kind # "setBusyTimeout" /\ wanted' = wanted
      BY <1>2, <1>5, <2>2 DEF WriteConfig, At, Shape
    <3>2. Others(t) /\ Moved(s, r, "nativeBack")
      BY <1>1, <3>1, Goes DEF Places
    <3>3. r \in Seq(Frames)
      BY <3>2 DEF Moved
    <3> HIDE DEF s, r
    <3>4. Good(r, top.orig, wanted, slot, handled, reference)
      BY <1>1, <1>3, <2>2, <3>2, <3>3, GoodWrittenBack
    <3>5. GoodOf(t)'
      BY <3>1, <3>4 DEF GoodOf, nativeVars, heap, r
    <3> QED BY <1>4, <3>2, <3>5
  <2> QED BY <1>2, <1>5, <2>1, <2>2 DEF WriteConfig, At
<1>6. CASE BusyTimeout(t)
  <2>1. UNCHANGED <<config, reference, wanted, handled>>
    BY <1>6 DEF BusyTimeout, heap, ghosts
  <2>2. CASE top.at = "native" /\ top.kind = "setBusyTimeout"
    <3>1. slot' = top.value /\ Return(t)
      BY <1>2, <1>6, <2>2 DEF BusyTimeout, At
    <3>2. Others(t) /\ Popped(s, r)
      BY <1>1, <3>1, Returns
    <3>3. r \in Seq(Frames)
      BY <3>2 DEF Popped
    <3> HIDE DEF s, r
    <3>4. Good(r, config, wanted, top.value, handled, reference)
      BY <1>1, <1>3, <2>2, <3>2, <3>3, GoodSet
    <3>5. GoodOf(t)'
      BY <2>1, <3>1, <3>4 DEF GoodOf, r
    <3> QED BY <1>4, <3>2, <3>5
  <2>3. CASE top.at = "native" /\ top.kind # "setBusyTimeout"
    <3>1. top.kind \in Executions
      BY <1>2, <2>3 DEF Frames, Kinds, Shape
    <3>2. slot' = top.value /\ Goto(t, Body(top.kind))
      BY <1>2, <1>6, <2>3 DEF BusyTimeout, At
    <3>3. PICK p \in {"conn", "db"} : p = Body(top.kind) /\ p \in Places
      BY DEF Body, Places
    <3>4. Others(t) /\ Moved(s, r, p)
      BY <1>1, <3>2, <3>3, Goes
    <3>5. r \in Seq(Frames)
      BY <3>4 DEF Moved
    <3> HIDE DEF s, r
    <3>6. Good(r, config, wanted, top.value, handled, reference)
      BY <1>1, <1>3, <2>3, <3>1, <3>4, <3>5, GoodInstalled
    <3>7. GoodOf(t)'
      BY <2>1, <3>2, <3>6 DEF GoodOf, r
    <3> QED BY <1>4, <3>4, <3>7
  <2>4. CASE top.at = "nativeBack"
    <3>1. slot' = top.orig /\ Return(t)
      BY <1>2, <1>6, <2>4 DEF BusyTimeout, At
    <3>2. Others(t) /\ Popped(s, r)
      BY <1>1, <3>1, Returns
    <3>3. r \in Seq(Frames)
      BY <3>2 DEF Popped
    <3> HIDE DEF s, r
    <3>4. Good(r, config, wanted, top.orig, handled, reference)
      BY <1>1, <1>3, <2>4, <3>2, <3>3, GoodRestored
    <3>5. GoodOf(t)'
      BY <2>1, <3>1, <3>4 DEF GoodOf, r
    <3> QED BY <1>4, <3>2, <3>5
  <2> QED BY <1>2, <1>6, <2>2, <2>3, <2>4 DEF BusyTimeout, At
<1>7. CASE BusyHandler(t)
  <2>1. top.at = "handler" /\ Goto(t, "swap") /\ UNCHANGED <<config, reference, wanted, handled>>
    BY <1>2, <1>7 DEF BusyHandler, At, ghosts
  <2>2. Others(t) /\ Moved(s, r, "swap")
    BY <1>1, <2>1, Goes DEF Places
  <2>3. r \in Seq(Frames)
    BY <2>2 DEF Moved
  <2> HIDE DEF s, r
  <2>4. Good(r, config, wanted, slot', handled, reference)
    BY <1>1, <1>3, <2>1, <2>2, <2>3, GoodSwapping
  <2>5. GoodOf(t)'
    BY <2>1, <2>4 DEF GoodOf, r
  <2> QED BY <1>4, <2>2, <2>5
<1>9. CASE SetNewHandler(t)
  <2>1. /\ top.at = "swap" /\ Return(t) /\ UNCHANGED <<config, slot, wanted>> /\ handled' = TRUE
        /\ reference' = context[t] /\ Swaps(t)
    BY <1>2, <1>9 DEF SetNewHandler, At, Swaps
  <2>2. slot = IF context[t] = NoHandler THEN 0 ELSE context[t]
    BY <2>1 DEF MInv, InSlot
  <2>3. Others(t) /\ Popped(s, r)
    BY <1>1, <2>1, Returns
  <2>4. r \in Seq(Frames)
    BY <2>3 DEF Popped
  <2> HIDE DEF s, r
  <2>5. Good(r, config, wanted, slot, TRUE, context[t])
    BY <1>1, <1>3, <2>1, <2>2, <2>3, <2>4, GoodHandled
  <2>6. GoodOf(t)'
    BY <2>1, <2>5 DEF GoodOf, r
  <2> QED BY <1>4, <2>3, <2>6
<1>8. CASE Running(t)
  <2>1. /\ top.at \in {"conn", "db", "running", "keys"}
        /\ UNCHANGED <<config, slot, reference, wanted, handled>>
        /\ \/ ~Timed(top) /\ Return(t)
           \/ Timed(top) /\ Goto(t, "configBack")
           \/ \E p \in {"db", "running", "keys"} : Goto(t, p)
    BY <1>1, <1>2, <1>8, RunningMoves DEF nativeVars, heap, ghosts
  <2>2. CASE ~Timed(top) /\ Return(t)
    <3>1. Others(t) /\ Popped(s, r)
      BY <1>1, <2>2, Returns
    <3>2. r \in Seq(Frames)
      BY <3>1 DEF Popped
    <3> HIDE DEF s, r
    <3>3. Good(r, config, wanted, slot, handled, reference)
      BY <1>1, <1>3, <2>1, <2>2, <3>1, <3>2, GoodEnds
    <3>4. GoodOf(t)'
      BY <2>1, <3>3 DEF GoodOf, r
    <3> QED BY <1>4, <3>1, <3>4
  <2>3. CASE \E p \in {"db", "running", "keys", "configBack"} : Goto(t, p)
    <3>1. PICK p \in {"db", "running", "keys", "configBack"} : Goto(t, p)
      BY <2>3
    <3>2. p \in Places
      BY DEF Places
    <3>3. Others(t) /\ Moved(s, r, p)
      BY <1>1, <3>1, <3>2, Goes
    <3>4. r \in Seq(Frames)
      BY <3>3 DEF Moved
    <3> HIDE DEF s, r
    <3>5. Good(r, config, wanted, slot, handled, reference)
      BY <1>1, <1>3, <2>1, <3>3, <3>4, GoodRuns
    <3>6. GoodOf(t)'
      BY <2>1, <3>5 DEF GoodOf, r
    <3> QED BY <1>4, <3>3, <3>6
  <2> QED BY <2>1, <2>2, <2>3
<1> QED BY <1>5, <1>6, <1>7, <1>8, <1>9 DEF Continue, Running

LEMMA TimeInitially == ASSUME TimeoutAssumption, Init PROVE TimeInv
<1>1. SInv
  BY SInitially
<1>2. \A t \in Threads : Calm(frames[t])
  BY DEF Init, Calm
<1>3. config = wanted /\ AtRest(slot, wanted, handled, reference)
  BY DEF Init, AtRest
<1>4. \A t \in Threads : GoodOf(t)
  BY <1>1, <1>2, <1>3, CalmRests
<1> QED BY <1>2, <1>4 DEF TimeInv, OwnedBy, TimeoutAssumption

\* A call of any thread: it belongs to the owner, or it changes nothing, or nobody
\* changes anything and the caller becomes the owner.
LEMMA CallKeeps ==
  ASSUME SInv, TimeInv, NEW t \in Threads, NEW f \in Frames, Calling(t, f)
  PROVE  TimeInv'
<1> SUFFICES ASSUME ~overlapped' PROVE \E o \in Threads : OwnedBy(o)'
  BY DEF TimeInv
<1>1. ~overlapped /\ ~Overlaps(t, f)
  BY DEF Calling
<1>2. PICK o \in Threads : OwnedBy(o)
  BY <1>1 DEF TimeInv
<1>3. CASE t = o
  BY <1>2, <1>3, OwnCall
<1>4. CASE t # o /\ Changes(f)
  <2>1. ASSUME NEW u \in Threads \ {t} PROVE Calm(frames[u])
    <3>1. ~Within(u, Changes) /\ frames[u] \in Seq(Frames)
      BY <1>1, <1>4 DEF Overlaps, SInv, TypeOK
    <3> QED BY <3>1 DEF Within, Calm
  <2>2. Calm(frames[t]) /\ Calm(frames[o])
    BY <1>2, <1>4, <2>1 DEF OwnedBy
  <2>3. GoodOf(t)
    BY <1>2, <2>2, CalmRests DEF OwnedBy
  <2>4. OwnedBy(t)
    BY <2>1, <2>3 DEF OwnedBy
  <2> QED BY <2>4, OwnCall
<1>5. CASE t # o /\ ~Changes(f)
  <2>1. Calm(frames[t])
    BY <1>2, <1>5 DEF OwnedBy
  <2>2. Pushed(frames[t], frames'[t], f) /\ frames[t] \in Seq(Frames)
    BY DEF Calling, SInv, TypeOK
  <2>3. Calm(frames'[t])
    <3> DEFINE s == frames[t]
               r == frames'[t]
    <3>1. /\ s \in Seq(Frames) /\ Len(r) = Len(s) + 1 /\ r[Len(s) + 1] = f
          /\ \A i \in 1 .. Len(s) : r[i].kind = s[i].kind /\ r[i].value = s[i].value
      BY <2>2 DEF Pushed, Alike
    <3> HIDE DEF s, r
    <3>2. \A i \in 1 .. Len(s) : ~Changes(r[i])
      BY <2>1, <3>1 DEF Calm, Changes, Timed, s
    <3>3. \A i \in 1 .. Len(r) : ~Changes(r[i])
      BY <1>5, <3>1, <3>2
    <3> QED BY <3>3 DEF Calm, r
  <2>4. GoodOf(o)'
    BY <1>2, <1>5 DEF OwnedBy, GoodOf, Calling, Others, nativeVars, heap
  <2>5. \A u \in Threads \ {o} : Calm(frames'[u])
    BY <1>2, <2>3 DEF OwnedBy, Calling, Others
  <2> QED BY <2>4, <2>5 DEF OwnedBy
<1> QED BY <1>3, <1>4, <1>5

LEMMA ContinueKeeps ==
  ASSUME TimeoutAssumption, SInv, MInv, TimeInv, NEW t \in Threads, Continue(t)
  PROVE  TimeInv'
<1> SUFFICES ASSUME ~overlapped' PROVE \E o \in Threads : OwnedBy(o)'
  BY DEF TimeInv
<1>1. ~overlapped
  BY DEF Continue, WriteConfig, BusyTimeout, BusyHandler, SetNewHandler, EnterConn, EnterDb, Ends,
         GeneratedKeys, ghosts
<1>2. PICK o \in Threads : OwnedBy(o)
  BY <1>1 DEF TimeInv
<1>3. CASE t = o
  BY <1>2, <1>3, OwnContinue
<1>4. CASE t # o
  <2>1. /\ Others(t) /\ Calm(frames'[t])
        /\ UNCHANGED <<config, slot, reference, wanted, handled>>
    BY <1>2, <1>4, CalmContinues DEF OwnedBy, nativeVars, heap, ghosts
  <2>2. GoodOf(o)'
    BY <1>2, <1>4, <2>1 DEF OwnedBy, GoodOf, Others
  <2>3. \A u \in Threads \ {o} : Calm(frames'[u])
    BY <1>2, <2>1 DEF OwnedBy, Others
  <2> QED BY <2>2, <2>3 DEF OwnedBy
<1> QED BY <1>3, <1>4

LEMMA Inductive ==
  ASSUME TimeoutAssumption, MInv, IInv, [Next]_vars PROVE IInv'
<1>1. SInv'
  BY SInductive DEF IInv
<1>2. TimeInv'
  <2>1. CASE UNCHANGED vars
    BY <2>1 DEF vars, nativeVars, heap, ghosts, IInv, TimeInv, OwnedBy, GoodOf
  <2>2. ASSUME NEW t \in Threads, Call(t) \/ Callback(t) PROVE TimeInv'
    BY <2>2, Pushes, CallKeeps DEF IInv, SInv
  <2>3. ASSUME NEW t \in Threads, Continue(t) PROVE TimeInv'
    BY <2>3, ContinueKeeps DEF IInv
  <2> QED BY <2>1, <2>2, <2>3 DEF Next
<1> QED BY <1>1, <1>2 DEF IInv

LEMMA Invariance == Spec => []IInv
<1>1. TimeoutAssumption /\ Init => IInv
  BY SInitially, TimeInitially DEF IInv
<1> QED BY TimeoutAssumption, <1>1, Inductive, MHolds, PTL DEF Spec

\* An execution with a query timeout runs with it, however deep its callbacks and
\* those it was called from are nested, unless threads have raced for the timeout.
THEOREM OwnTimeoutInForceHolds == Spec => []OwnTimeoutInForce
<1>1. IInv => OwnTimeoutInForce
  <2> SUFFICES ASSUME IInv, NEW t \in Threads, ~overlapped, At(t, "running"), Timed(Top(t))
               PROVE  slot = Top(t).value
    BY DEF OwnTimeoutInForce
  <2> DEFINE s == frames[t]
             n == Len(s)
             rest == AtRest(slot, wanted, handled, reference)
  <2>1. /\ s \in Seq(Frames) /\ n \in Nat \ {0} /\ s[n].at = "running" /\ Timed(s[n])
        /\ Top(t) = s[n] /\ handled \in BOOLEAN /\ Stack(s)
    BY TopOfStack DEF IInv, SInv, TypeOK, Stacks, At
  <2>2. PICK o \in Threads : OwnedBy(o)
    BY DEF IInv, TimeInv
  <2>3. t = o
    BY <2>1, <2>2 DEF OwnedBy, Calm, Changes
  <2>4. Base(s, n, slot, rest) /\ rest \in BOOLEAN
    BY <2>1, <2>2, <2>3, Wanted DEF OwnedBy, GoodOf, Settled, AtRest
  <2> HIDE DEF s, n, rest
  <2>5. slot = s[n].value
    BY <2>1, <2>4, BaseOver
  <2> QED BY <2>1, <2>5 DEF s, n
<1> QED BY <1>1, Invariance, PTL

\* When no call is running the connection has the timeout the application has set
\* last (or its busy handler, or none), after any number of calls that nested, failed
\* and set timeouts of their own, unless threads have raced for it.
THEOREM TimeoutRestoredHolds == Spec => []TimeoutRestored
<1>1. TimeoutAssumption /\ IInv => TimeoutRestored
  <2> SUFFICES ASSUME TimeoutAssumption, IInv, ~overlapped, \A t \in Threads : frames[t] = <<>>
               PROVE  config = wanted /\ AtRest(slot, wanted, handled, reference)
    BY DEF TimeoutRestored, AtRest
  <2>1. PICK o \in Threads : OwnedBy(o)
    BY DEF IInv, TimeInv
  <2>2. Calm(frames[o])
    BY DEF Calm
  <2> QED BY <2>1, <2>2, CalmRests DEF IInv, OwnedBy
<1> QED BY <1>1, TimeoutAssumption, Invariance, PTL

-----------------------------------------------------------------------------
(* The exception of both, for one thread.                                   *)

OneThread == \A t, u \in Threads : t = u

\* The two ways one thread can change a timeout within a timed execution: its
\* callbacks use the connection, and its statements have timeouts.
NoNesting == QueryTimeouts = {0} \/ MaxDepth <= 1

Apart == overlapped = FALSE

LEMMA ApartHolds == ASSUME OneThread, NoNesting PROVE Spec => []Apart
<1>1. Init => Apart
  BY DEF Init, Apart
<1>2. ASSUME TimeoutAssumption, SInv, Apart, [Next]_vars PROVE Apart'
  <2>1. CASE UNCHANGED vars
    BY <1>2, <2>1 DEF vars, ghosts, Apart
  <2>2. ASSUME NEW t \in Threads, Continue(t) PROVE Apart'
    BY <1>2, <2>2 DEF Continue, WriteConfig, BusyTimeout, BusyHandler, SetNewHandler, EnterConn, EnterDb, Ends,
       GeneratedKeys, ghosts, Apart
  <2>3. ASSUME NEW t \in Threads, Call(t) \/ Callback(t) PROVE Apart'
    <3>1. PICK f \in Frames : Calling(t, f) /\ Counted(t, f)
      BY <1>2, <2>3, Pushes DEF SInv
    <3>2. Threads \ {t} = {}
      BY DEF OneThread
    <3>3. frames[t] \in Seq(Frames) /\ Stack(frames[t])
      BY <1>2 DEF SInv, TypeOK, Stacks
    <3>4. ~Within(t, Timed)
      <4>1. CASE QueryTimeouts = {0}
        <5>1. \A i \in 1 .. Len(frames[t]) : Shape(frames[t][i])
          BY <3>3 DEF Stack
        <5>2. ASSUME NEW g, Shape(g) PROVE ~Timed(g)
          BY <4>1, <5>2 DEF Shape, Timed, Values, Executions
        <5> QED BY <3>3, <5>1, <5>2 DEF Within
      <4>2. CASE frames[t] = <<>>
        BY <4>2 DEF Within
      <4>3. CASE MaxDepth <= 1 /\ frames[t] # <<>>
        <5>1. Len(frames[t]) < MaxDepth /\ Len(frames[t]) >= 1 /\ Len(frames[t]) \in Nat
          BY <3>1, <3>3, <4>3 DEF Counted
        <5>2. MaxDepth \in Nat
          BY <1>2 DEF TimeoutAssumption
        <5> QED BY <4>3, <5>1, <5>2
      <4> QED BY <4>1, <4>2, <4>3 DEF NoNesting
    <3> QED BY <1>2, <3>1, <3>2, <3>4 DEF Calling, Overlaps, Apart
  <2> QED BY <1>2, <2>1, <2>2, <2>3 DEF Next
<1> QED BY <1>1, <1>2, TimeoutAssumption, SHolds, PTL DEF Spec

\* Nothing running leaves the timeout of a statement behind.
TimeoutKept ==
  (\A t \in Threads : frames[t] = <<>>) =>
    config = wanted /\ AtRest(slot, wanted, handled, reference)

\* Every timed statement runs with its own timeout.
OwnTimeoutAlways ==
  \A t \in Threads : At(t, "running") /\ Timed(Top(t)) => slot = Top(t).value

\* A connection used by one thread, without query timeouts or without callbacks
\* that use it, keeps its timeout, and a statement with a timeout runs with it:
\* then the two properties have no exception.
THEOREM OneThreadKeepsTimeouts ==
  ASSUME OneThread, NoNesting PROVE Spec => [](TimeoutKept /\ OwnTimeoutAlways)
<1>1. TimeoutRestored /\ OwnTimeoutInForce /\ Apart => TimeoutKept /\ OwnTimeoutAlways
  BY DEF TimeoutRestored, OwnTimeoutInForce, Apart, TimeoutKept, OwnTimeoutAlways, AtRest
<1> QED BY <1>1, TimeoutRestoredHolds, OwnTimeoutInForceHolds, ApartHolds, PTL

-----------------------------------------------------------------------------
(* Nobody waits for ever.                                                   *)

\* A thread that asks for the monitor of the connection is in no other call.
LEMMA ConnIsOutermost ==
  ASSUME SInv, NInv, NEW t \in Threads, frames[t] # <<>>, Top(t).at = "conn"
  PROVE  ~Runs(frames[t])
<1>1. /\ Len(frames[t]) \in Nat \ {0} /\ Top(t) = frames[t][Len(frames[t])] /\ Nested(frames[t])
  BY TopOfStack DEF SInv, NInv
<1>2. Top(t).kind = "execute"
  BY <1>1 DEF Nested
<1>3. Len(frames[t]) = 1
  <2>1. Len(frames[t]) \in 1 .. Len(frames[t])
    BY <1>1
  <2>2. ~(Len(frames[t]) > 1)
    BY <1>1, <1>2, <2>1 DEF Nested
  <2>3. \A n \in Nat \ {0} : ~(n > 1) => n = 1
    OBVIOUS
  <2> QED BY <1>1, <2>2, <2>3
<1> QED BY <1>1, <1>3 DEF Runs, Inner

\* Whoever has the monitor of the DB may continue, and when nobody has it, so may
\* whoever has that of the connection, or else everybody.
LEMMA SomeoneMay == ASSUME SInv, NInv PROVE SomeoneMayContinue
<1> SUFFICES ASSUME NEW t \in Threads, frames[t] # <<>> PROVE \E u \in Threads : MayContinue(u)
  BY DEF SomeoneMayContinue
<1>0. \A u \in Threads : HoldsDb(u) <=> Runs(frames[u])
  BY RunsIsHolds DEF SInv
<1>1. ASSUME NEW u \in Threads, Runs(frames[u]) PROVE MayContinue(u)
  <2>1. frames[u] \in Seq(Frames) /\ frames[u] # <<>>
    BY <1>1 DEF SInv, TypeOK, Runs
  <2>2. DbFree(u)
    BY <1>0, <1>1 DEF DbFree, NInv, OneRuns
  <2>3. Top(u).at # "conn"
    BY <1>1, <2>1, ConnIsOutermost
  <2> QED BY <2>1, <2>2, <2>3 DEF MayContinue
<1>2. CASE \A u \in Threads : ~Runs(frames[u])
  <2>1. \A u \in Threads : DbFree(u)
    BY <1>0, <1>2 DEF DbFree
  <2>2. CASE ConnFree(t)
    BY <2>1, <2>2 DEF MayContinue
  <2>3. CASE ~ConnFree(t)
    <3>1. PICK u \in Threads : HoldsConn(u)
      BY <2>3 DEF ConnFree
    <3>2. PICK i \in DOMAIN frames[u] : frames[u][i].kind = "execute"
                                      /\ frames[u][i].at \in {"db", "running", "keys"}
      BY <3>1 DEF HoldsConn, Within
    <3>3. /\ frames[u] \in Seq(Frames) /\ Stack(frames[u]) /\ Nested(frames[u])
          /\ DOMAIN frames[u] = 1 .. Len(frames[u])
      BY DEF SInv, TypeOK, Stacks, NInv
    <3>4. i = 1 /\ frames[u] # <<>> /\ Len(frames[u]) \in Nat
      BY <3>2, <3>3 DEF Nested
    <3>5. Len(frames[u]) = 1
      <4>1. 1 \in 1 .. Len(frames[u]) /\ Len(frames[u]) \in Nat
        BY <3>3, <3>4
      <4>2. frames[u][1].at # "running"
        BY <1>2, <4>1 DEF Runs, Inner
      <4>3. ~(1 < Len(frames[u]))
        BY <3>3, <4>1, <4>2 DEF Stack
      <4>4. \A n \in Nat : 1 \in 1 .. n /\ ~(1 < n) => n = 1
        OBVIOUS
      <4> QED BY <4>1, <4>3, <4>4
    <3>6. Top(u).at \in {"db", "running", "keys"}
      BY <3>2, <3>4, <3>5 DEF Top
    <3> QED BY <2>1, <3>4, <3>6 DEF MayContinue
  <2> QED BY <2>2, <2>3
<1> QED BY <1>1, <1>2

\* The monitors of the connection and of the DB never lock each other out, for any
\* number of threads and callbacks of any depth.
THEOREM SomeoneMayContinueHolds == Spec => []SomeoneMayContinue
  BY SomeoneMay, SHolds, NHolds, PTL

-----------------------------------------------------------------------------
(* Every call returns.                                                      *)

\* What the calls on a stack have left to do: the way to the end of each, and ten
\* steps for a call that may yet be made within the innermost.
MayCallBack(f) == ~f.called /\ f.at \in {"config", "native", "conn", "db", "running"}
Depth == MaxDepth + 1
Weight(s) ==
  IF Len(s) = 0 THEN 0
  ELSE 5 * (Len(s) - 1) + Rank(s[Len(s)].at)
       + (IF MayCallBack(s[Len(s)]) THEN 10 * (Depth - Len(s)) ELSE 0)
Cap == 10 * Depth + 9

LEMMA WeightBound ==
  ASSUME TimeoutAssumption, NEW s \in Seq(Frames), Nested(s)
  PROVE  Weight(s) \in 0 .. Cap - 1
<1>1. Len(s) \in Nat /\ Len(s) <= Depth /\ Depth \in Nat
  BY DEF Nested, Depth, TimeoutAssumption
<1> DEFINE rank == Rank(s[Len(s)].at)
           left == IF MayCallBack(s[Len(s)]) THEN 10 * (Depth - Len(s)) ELSE 0
<1>2. rank \in 1 .. 8
  BY DEF Rank
<1>3. left \in 0 .. 10 * (Depth - Len(s))
  BY <1>1
<1>4. Weight(s) = IF Len(s) = 0 THEN 0 ELSE 5 * (Len(s) - 1) + rank + left
  BY DEF Weight
<1> HIDE DEF rank, left
<1> QED BY <1>1, <1>2, <1>3, <1>4 DEF Cap

LEMMA PushWeighs ==
  ASSUME TimeoutAssumption, NEW s \in Seq(Frames), NEW r \in Seq(Frames), NEW f \in Frames,
         Nested(s), Pushed(s, r, f), Len(s) > 0, s[Len(s)].at = "running",
         ~s[Len(s)].called, Len(s) < MaxDepth
  PROVE  Weight(r) < Weight(s)
<1>1. Len(s) \in Nat /\ Len(r) = Len(s) + 1 /\ r[Len(r)] = f /\ Depth \in Nat /\ Len(s) + 1 < Depth
  BY DEF Pushed, Depth, TimeoutAssumption
<1>2. Rank("running") = 4 /\ Rank(f.at) \in 1 .. 8
  BY DEF Rank
<1>3. Weight(s) = 5 * (Len(s) - 1) + 4 + 10 * (Depth - Len(s))
  BY <1>1, <1>2 DEF Weight, MayCallBack
<1>4. Weight(r) <= 5 * Len(s) + 8 + 10 * (Depth - (Len(s) + 1)) /\ Weight(r) \in Int
  <2> DEFINE left == IF MayCallBack(f) THEN 10 * (Depth - (Len(s) + 1)) ELSE 0
             rank == Rank(f.at)
  <2>1. left \in 0 .. 10 * (Depth - (Len(s) + 1)) /\ rank \in 1 .. 8
    BY <1>1, <1>2
  <2>2. Weight(r) = 5 * Len(s) + rank + left
    BY <1>1 DEF Weight
  <2> HIDE DEF left, rank
  <2> QED BY <1>1, <2>1, <2>2
<1> QED BY <1>1, <1>3, <1>4

LEMMA MoveWeighs ==
  ASSUME TimeoutAssumption, NEW s \in Seq(Frames), NEW r \in Seq(Frames), NEW p \in Places,
         Nested(s), Moved(s, r, p), s # <<>>, Rank(p) < Rank(s[Len(s)].at)
  PROVE  Weight(r) < Weight(s)
<1>1. /\ Len(s) \in Nat \ {0} /\ Len(r) = Len(s) /\ Depth \in Nat /\ Len(s) <= Depth
      /\ r[Len(s)].at = p /\ r[Len(s)].called = s[Len(s)].called
  BY DEF Moved, Nested, Depth, TimeoutAssumption
<1>2. Rank(p) \in 1 .. 8 /\ Rank(s[Len(s)].at) \in 1 .. 8
  BY DEF Rank
<1>3. s[Len(s)] \in Frames
  BY <1>1
<1>4. MayCallBack(r[Len(s)]) => MayCallBack(s[Len(s)])
  BY <1>1, <1>3 DEF MayCallBack, Rank, Frames, Places
<1> DEFINE left == 10 * (Depth - Len(s))
           below == 5 * (Len(s) - 1)
           x == Rank(p)
           y == Rank(s[Len(s)].at)
           more == MayCallBack(s[Len(s)])
           now == MayCallBack(r[Len(s)])
<1>5. left \in Nat /\ below \in Int
  BY <1>1
<1>6. /\ Weight(s) = below + y + (IF more THEN left ELSE 0)
      /\ Weight(r) = below + x + (IF now THEN left ELSE 0)
  BY <1>1 DEF Weight
<1>7. x \in Int /\ y \in Int /\ x < y /\ (now => more)
  BY <1>2, <1>4
<1> HIDE DEF left, below, x, y, more, now
<1> QED BY <1>5, <1>6, <1>7

LEMMA PopWeighs ==
  ASSUME TimeoutAssumption, NEW s \in Seq(Frames), NEW r \in Seq(Frames),
         Stack(s), Nested(s), Popped(s, r), s # <<>>
  PROVE  Weight(r) < Weight(s)
<1>1. Len(s) \in Nat \ {0} /\ Len(r) = Len(s) - 1 /\ Depth \in Nat /\ Len(s) <= Depth
  BY DEF Popped, Nested, Depth, TimeoutAssumption
<1>2. Rank(s[Len(s)].at) \in 1 .. 8 /\ Rank("running") = 4
  BY DEF Rank
<1>3. Weight(s) >= 5 * (Len(s) - 1) + 1 /\ Weight(s) \in Int
  <2>1. 10 * (Depth - Len(s)) \in Nat
    BY <1>1
  <2> DEFINE left == IF MayCallBack(s[Len(s)]) THEN 10 * (Depth - Len(s)) ELSE 0
             rank == Rank(s[Len(s)].at)
  <2>2. left \in Nat /\ rank \in 1 .. 8
    BY <1>2, <2>1
  <2>3. Weight(s) = 5 * (Len(s) - 1) + rank + left
    BY <1>1 DEF Weight
  <2> HIDE DEF left, rank
  <2> QED BY <1>1, <2>2, <2>3
<1>4. CASE Len(r) = 0
  BY <1>1, <1>3, <1>4 DEF Weight
<1>5. CASE Len(r) # 0
  <2>1. Len(r) \in 1 .. Len(s) /\ Len(r) < Len(s) /\ r[Len(r)] = s[Len(r)]
    BY <1>1, <1>5 DEF Popped
  <2>2. r[Len(r)].at = "running" /\ r[Len(r)].called
    BY <2>1 DEF Stack, Nested
  <2>3. Weight(r) = 5 * (Len(r) - 1) + 4
    BY <1>1, <1>2, <1>5, <2>2 DEF Weight, MayCallBack
  <2> QED BY <1>1, <1>3, <2>1, <2>3
<1> QED BY <1>4, <1>5

-----------------------------------------------------------------------------

\* Steps a thread has left at most, call by call, and those of all threads.
Chores(t) == (1 .. MaxCalls[t]) \X (1 .. Cap)
ToDo(t) ==
  {c \in Chores(t) : c[1] > calls[t] \/ (c[1] = calls[t] /\ c[2] <= Weight(frames[t]))}

Part == [t \in Threads |-> {t} \X Chores(t)]
All == UNION {Part[t] : t \in Threads}
Work == {tc \in All : tc[2] \in ToDo(tc[1])}
Most == Cardinality(All)
AtMost(n) == Cardinality(Work) <= n

LEMMA AllIsFinite == ASSUME TimeoutAssumption PROVE IsFiniteSet(All)
<1>1. \A x : IsFiniteSet({x})
  BY FS_Singleton
<1>2. \A a, b \in Int : IsFiniteSet(a .. b)
  BY FS_Interval
<1>3. ASSUME NEW t \in Threads PROVE IsFiniteSet(Part[t])
  <2>1. MaxCalls[t] \in Int /\ 1 \in Int /\ Cap \in Int
    BY DEF TimeoutAssumption, Cap, Depth
  <2>2. IsFiniteSet(1 .. MaxCalls[t]) /\ IsFiniteSet(1 .. Cap)
    BY <1>2, <2>1
  <2>3. IsFiniteSet(Chores(t))
    BY <2>2, FS_Product DEF Chores
  <2>4. IsFiniteSet({t} \X Chores(t))
    BY <1>1, <2>3, FS_Product
  <2> QED BY <2>4 DEF Part
<1> DEFINE parts == {Part[t] : t \in Threads}
<1>4. Part \in Surjection(Threads, parts)
  BY DEF Surjection, Part
<1>5. IsFiniteSet(Threads)
  BY DEF TimeoutAssumption
<1>6. IsFiniteSet(parts)
  <2> HIDE DEF parts
  <2> QED BY <1>4, <1>5, FS_Surjection
<1>7. \A q \in parts : IsFiniteSet(q)
  BY <1>3
<1> HIDE DEF parts
<1>8. IsFiniteSet(UNION parts)
  BY <1>6, <1>7, FS_UNION
<1> QED BY <1>8 DEF All, parts

LEMMA WorkIsFinite ==
  ASSUME TimeoutAssumption
  PROVE  IsFiniteSet(Work) /\ Cardinality(Work) \in Nat /\ Most \in Nat /\ AtMost(Most)
<1>1. IsFiniteSet(All) /\ Work \subseteq All
  BY AllIsFinite DEF Work
<1>2. IsFiniteSet(Work) /\ Cardinality(Work) <= Most
  BY <1>1, FS_Subset DEF Most
<1> QED BY <1>1, <1>2, FS_CardinalityType DEF Most, AtMost

\* Fewer calls to make, or the same and less of the one that is running.
LEMMA FewerToDo ==
  ASSUME TimeoutAssumption, NEW t \in Threads, NEW c \in Int, NEW d \in 1 .. MaxCalls[t],
         NEW w \in 0 .. Cap - 1, NEW v \in 0 .. Cap - 1,
         d = c + 1 \/ (d = c /\ v < w)
  PROVE  LET before == {q \in Chores(t) : q[1] > c \/ (q[1] = c /\ q[2] <= w)}
             after  == {q \in Chores(t) : q[1] > d \/ (q[1] = d /\ q[2] <= v)}
         IN after \subseteq before /\ after # before
<1> DEFINE before == {q \in Chores(t) : q[1] > c \/ (q[1] = c /\ q[2] <= w)}
           after  == {q \in Chores(t) : q[1] > d \/ (q[1] = d /\ q[2] <= v)}
           m == MaxCalls[t]
<1>1. m \in Nat /\ Cap \in Nat /\ Cap > 0
  BY DEF TimeoutAssumption, Cap, Depth
<1>2. Chores(t) = (1 .. m) \X (1 .. Cap)
  BY DEF Chores
<1>3. \A q \in Chores(t) : q[1] \in 1 .. m /\ q[2] \in 1 .. Cap
  BY <1>2
<1>4. after \subseteq before
  BY <1>3, <1>1
<1>5. CASE d = c + 1
  <2>1. <<d, Cap>> \in Chores(t)
    BY <1>1, <1>2
  <2>2. <<d, Cap>> \in before /\ <<d, Cap>> \notin after
    BY <1>1, <1>5, <2>1
  <2> QED BY <1>4, <2>2
<1>6. CASE d = c /\ v < w
  <2>1. <<d, w>> \in Chores(t)
    BY <1>1, <1>2, <1>6
  <2>2. <<d, w>> \in before /\ <<d, w>> \notin after
    BY <1>1, <1>6, <2>1
  <2> QED BY <1>4, <2>2
<1> QED BY <1>5, <1>6

LEMMA StepDoes ==
  ASSUME TimeoutAssumption, SInv, NInv, SInv', NInv', NEW t \in Threads,
         Call(t) \/ Callback(t) \/ Continue(t)
  PROVE  /\ ToDo(t)' \subseteq ToDo(t) /\ ToDo(t)' # ToDo(t)
         /\ \A u \in Threads \ {t} : ToDo(u)' = ToDo(u)
<1> DEFINE s == frames[t]
           r == frames'[t]
<1>0. s \in Seq(Frames) /\ r \in Seq(Frames) /\ Nested(s) /\ Nested(r) /\ Stack(s)
  BY DEF SInv, TypeOK, NInv, Stacks
<1>1. Weight(s) \in 0 .. Cap - 1 /\ Weight(r) \in 0 .. Cap - 1
  BY <1>0, WeightBound
<1>2. /\ \/ calls'[t] = calls[t] + 1
         \/ calls'[t] = calls[t] /\ r # <<>> /\ Weight(r) < Weight(s)
         \/ calls'[t] = calls[t] /\ s # <<>> /\ Weight(r) < Weight(s)
      /\ \A u \in Threads \ {t} : frames'[u] = frames[u] /\ calls'[u] = calls[u]
  <2>1. CASE Call(t) \/ Callback(t)
    <3>1. PICK f \in Frames : Calling(t, f) /\ Counted(t, f)
      BY <2>1, Pushes DEF SInv
    <3>2. Pushed(s, r, f) /\ Others(t)
      BY <3>1 DEF Calling
    <3>3. CASE calls' = [calls EXCEPT ![t] = @ + 1]
      BY <3>2, <3>3 DEF Others, SInv, TypeOK
    <3>4. CASE s # <<>> /\ ~Top(t).called /\ Len(s) < MaxDepth /\ calls' = calls
      <4>1. Len(s) > 0 /\ s[Len(s)].at = "running" /\ ~s[Len(s)].called
        BY <1>0, <3>1, <3>4 DEF Calling, Top
      <4>2. Weight(r) < Weight(s)
        BY <1>0, <3>2, <3>4, <4>1, PushWeighs
      <4> QED BY <3>2, <3>4, <4>2 DEF Others
    <3> QED BY <3>1, <3>3, <3>4 DEF Counted
  <2>2. CASE Continue(t)
    <3>1. s # <<>> /\ calls' = calls /\ Top(t) = s[Len(s)]
      BY <2>2, Continues DEF Top
    <3>2. CASE Return(t)
      <4>1. Others(t) /\ Popped(s, r)
        BY <3>1, <3>2, Returns DEF SInv
      <4>2. Weight(r) < Weight(s)
        BY <1>0, <3>1, <4>1, PopWeighs
      <4> QED BY <3>1, <4>1, <4>2 DEF Others
    <3>3. CASE ~Return(t)
      <4>1. PICK p \in Places : Goto(t, p) /\ Rank(p) < Rank(Top(t).at)
        BY <2>2, <3>3, Continues
      <4>2. Others(t) /\ Moved(s, r, p)
        BY <3>1, <4>1, Goes DEF SInv
      <4>3. Weight(r) < Weight(s)
        BY <1>0, <3>1, <4>1, <4>2, MoveWeighs
      <4> QED BY <3>1, <4>2, <4>3 DEF Others
    <3> QED BY <3>2, <3>3
  <2> QED BY <2>1, <2>2
<1>3. /\ calls[t] \in 0 .. MaxCalls[t] /\ calls'[t] \in 0 .. MaxCalls[t] /\ MaxCalls[t] \in Nat
      /\ s # <<>> => calls[t] > 0
      /\ r # <<>> => calls'[t] > 0
  BY DEF NInv, TimeoutAssumption
<1>4. calls'[t] \in 1 .. MaxCalls[t] /\ calls[t] \in Int
  BY <1>2, <1>3
<1>5. calls'[t] = calls[t] + 1 \/ (calls'[t] = calls[t] /\ Weight(r) < Weight(s))
  BY <1>2
<1>6. ToDo(t)' \subseteq ToDo(t) /\ ToDo(t)' # ToDo(t)
  <2> DEFINE c == calls[t]
             d == calls'[t]
             w == Weight(s)
             v == Weight(r)
             before == {q \in Chores(t) : q[1] > c \/ (q[1] = c /\ q[2] <= w)}
             after == {q \in Chores(t) : q[1] > d \/ (q[1] = d /\ q[2] <= v)}
  <2>1. ToDo(t) = before
    BY DEF ToDo
  <2>2. ToDo(t)' = after
    BY DEF ToDo, Chores, Weight, MayCallBack, Rank, Cap, Depth
  <2>3. /\ c \in Int /\ d \in 1 .. MaxCalls[t] /\ (d = c + 1 \/ (d = c /\ v < w))
        /\ w \in 0 .. Cap - 1 /\ v \in 0 .. Cap - 1
    BY <1>1, <1>4, <1>5
  <2>4. after \subseteq before /\ after # before
    <3> HIDE DEF c, d, w, v
    <3> QED BY <2>3, FewerToDo
  <2> QED BY <2>1, <2>2, <2>4
<1> QED BY <1>2, <1>6 DEF ToDo

LEMMA WorkShrinks ==
  ASSUME TimeoutAssumption, SInv, NInv, SInv', NInv', NEW t \in Threads,
         Call(t) \/ Callback(t) \/ Continue(t)
  PROVE  Cardinality(Work') < Cardinality(Work) /\ Cardinality(Work') \in Nat
<1>1. Work' \subseteq Work
  BY StepDoes, SMTT(30) DEF Work, All, Part, Chores, Cap, Depth
<1>2. PICK c \in ToDo(t) : c \notin ToDo(t)'
  BY StepDoes
<1>3. <<t, c>> \in All
  BY <1>2 DEF All, Part, ToDo
<1>4. <<t, c>> \in Work /\ <<t, c>> \notin Work'
  BY <1>2, <1>3 DEF Work
<1>5. IsFiniteSet(Work) /\ IsFiniteSet(Work') /\ Cardinality(Work) \in Nat
  BY WorkIsFinite, <1>1, FS_Subset
<1>6. Cardinality(Work') <= Cardinality(Work) /\ Cardinality(Work') # Cardinality(Work)
      /\ Cardinality(Work') \in Nat
  BY <1>1, <1>4, <1>5, FS_Subset, FS_CardinalityType
<1> QED BY <1>5, <1>6

-----------------------------------------------------------------------------

Inside(t) == frames[t] # <<>>
Outside(t) == frames[t] = <<>>

\* Any thread that may take a step while a call of t runs.
Helps(u, t) == Inside(t) /\ MayContinue(u)

LEMMA HelperStays ==
  ASSUME TimeoutAssumption, SInv, NInv, SInv', NInv', [Next]_vars,
         NEW t \in Threads, NEW u \in Threads, NEW n \in Nat, Helps(u, t), AtMost(n + 1)
  PROVE  AtMost(n)' \/ (Helps(u, t)' /\ AtMost(n + 1)')
<1>1. ASSUME NEW v \in Threads, Call(v) \/ Callback(v) \/ Continue(v) PROVE AtMost(n)'
  <2>1. Cardinality(Work') < Cardinality(Work) /\ Cardinality(Work') \in Nat
    BY <1>1, WorkShrinks
  <2>2. Cardinality(Work) \in Nat
    BY WorkIsFinite
  <2> QED BY <2>1, <2>2 DEF AtMost
<1>2. ASSUME UNCHANGED vars PROVE Helps(u, t)' /\ AtMost(n + 1)'
  <2>1. frames' = frames /\ calls' = calls
    BY <1>2 DEF vars
  <2>2. Helps(u, t)'
    BY <2>1 DEF Helps, Inside, MayContinue, Top, DbFree, ConnFree, HoldsDb, HoldsConn, Within
  <2>3. Work' = Work
    BY <2>1 DEF Work, All, Part, ToDo, Chores, Cap, Depth, Weight, MayCallBack, Rank
  <2> QED BY <2>2, <2>3 DEF AtMost
<1> QED BY <1>1, <1>2 DEF Next

EndsWithin(n, t) == [](AtMost(n) /\ Inside(t) => <>~Inside(t))

EndsIfHelped(u, n, t) == [](Helps(u, t) /\ AtMost(n + 1) => <>~Inside(t))

\* While one thread helps, somebody does a chore.
LEMMA HelpedEnds ==
  ASSUME TimeoutAssumption, NEW n \in Nat, NEW t \in Threads, NEW u \in Threads
  PROVE  Spec /\ []NoDeadlock /\ EndsWithin(n, t) => EndsIfHelped(u, n, t)
<1>1. SInv /\ NInv /\ SInv' /\ NInv' /\ Helps(u, t) /\ AtMost(n + 1) /\ [Next]_vars
      => AtMost(n)' \/ (Helps(u, t)' /\ AtMost(n + 1)')
  BY HelperStays
<1>2. SInv /\ NInv /\ SInv' /\ NInv' /\ AtMost(n + 1) /\ <<Continue(u)>>_vars => AtMost(n)'
  <2>1. ASSUME SInv, NInv, SInv', NInv', AtMost(n + 1), Continue(u) PROVE AtMost(n)'
    <3>1. Cardinality(Work') < Cardinality(Work) /\ Cardinality(Work') \in Nat
          /\ Cardinality(Work) \in Nat
      BY <2>1, WorkShrinks, WorkIsFinite
    <3> QED BY <2>1, <3>1 DEF AtMost
  <2> QED BY <2>1
<1>3. NoDeadlock /\ Helps(u, t) => Proceeds(u)
  BY DEF NoDeadlock, Helps
<1>4. Spec => Scheduled(u)
  BY DEF Spec
<1>5. Helps(u, t) => Inside(t)
  BY DEF Helps
<1> QED BY <1>1, <1>2, <1>3, <1>4, <1>5, SHolds, NHolds, PTL DEF Spec, Scheduled, Proceeds, EndsWithin, EndsIfHelped

\* The threads in some order: who helps is one of the first k, for some k.
OneOf(e, k, t) == \E i \in DOMAIN e : i <= k /\ Helps(e[i], t)
EndsIfOneOf(e, k, n, t) == [](OneOf(e, k, t) /\ AtMost(n + 1) => <>~Inside(t))

LEMMA WhoeverHelps ==
  ASSUME TimeoutAssumption, NEW n \in Nat, NEW t \in Threads, NEW N \in Nat, NEW e \in [1 .. N -> Threads],
         NEW k \in Nat
  PROVE  Spec /\ []NoDeadlock /\ EndsWithin(n, t) =>
           (EndsIfOneOf(e, k, n, t) => EndsIfOneOf(e, k + 1, n, t))
<1>1. CASE k + 1 \in 1 .. N
  <2>1. OneOf(e, k + 1, t) => OneOf(e, k, t) \/ Helps(e[k + 1], t)
    BY <1>1 DEF OneOf
  <2>2. e[k + 1] \in Threads
    BY <1>1
  <2>3. Spec /\ []NoDeadlock /\ EndsWithin(n, t)
        => EndsIfHelped(e[k + 1], n, t)
    BY <2>2, HelpedEnds
  <2> QED BY <2>1, <2>3, PTL DEF EndsIfOneOf, EndsIfHelped
<1>2. CASE k + 1 \notin 1 .. N
  <2>1. OneOf(e, k + 1, t) => OneOf(e, k, t)
    BY <1>2 DEF OneOf
  <2> QED BY <2>1, PTL DEF EndsIfOneOf
<1> QED BY <1>1, <1>2

\* Induction on the natural numbers over the values of a function: the theorems of
\* the library take an operator.  To use it for temporal formulas a proof picks a
\* function that is 1 where the formula is true; Mentioned gives the provers
\* the term that shows there is one.
LEMMA Induction ==
  ASSUME NEW f, f[0] = 1, \A n \in Nat : f[n] = 1 => f[n + 1] = 1
  PROVE  \A n \in Nat : f[n] = 1
<1> DEFINE Bad == {n \in Nat : f[n] # 1}
           Less == OpToRel(<, Nat)
<1>1. SUFFICES ASSUME Bad # {} PROVE FALSE
  OBVIOUS
<1>2. PICK n \in Bad : \A m \in Bad : <<m, n>> \notin Less
  BY <1>1, NatLessThanWellFounded, WFMin, Zenon
<1>3. \A m, k \in Nat : m < k => <<m, k>> \in Less
  BY Zenon DEF OpToRel
<1> HIDE DEF Less
<1>4. n \in Nat /\ f[n] # 1
  OBVIOUS
<1>5. n # 0
  BY <1>4
<1>6. n - 1 \in Nat /\ n - 1 < n /\ (n - 1) + 1 = n
  BY <1>4, <1>5
<1>7. f[n - 1] = 1
  BY <1>2, <1>3, <1>4, <1>6
<1>8. f[(n - 1) + 1] = 1
  BY <1>6, <1>7
<1> QED BY <1>4, <1>6, <1>8

Mentioned(v) == TRUE

LEMMA EndsAfter ==
  ASSUME TimeoutAssumption, NEW n \in Nat, NEW t \in Threads
  PROVE  Spec /\ []NoDeadlock => (EndsWithin(n, t) => EndsWithin(n + 1, t))
<1>1. PICK N \in Nat : ExistsBijection(1 .. N, Threads)
  BY FS_NatBijection DEF TimeoutAssumption
<1>2. PICK e \in [1 .. N -> Threads] : \A u \in Threads : \E i \in 1 .. N : e[i] = u
  BY <1>1 DEF ExistsBijection, Bijection, Injection, Surjection
<1>3. SInv /\ NInv /\ Inside(t) => OneOf(e, N, t)
  <2> SUFFICES ASSUME SInv, NInv, Inside(t) PROVE OneOf(e, N, t)
    OBVIOUS
  <2>1. PICK u \in Threads : Helps(u, t)
    BY SomeoneMay DEF SomeoneMayContinue, Helps, Inside
  <2>2. PICK i \in 1 .. N : e[i] = u
    BY <1>2
  <2> QED BY <2>1, <2>2 DEF OneOf
<1>4. EndsIfOneOf(e, 0, n, t)
  <2>1. ~OneOf(e, 0, t)
    BY DEF OneOf
  <2> QED BY <2>1, PTL DEF EndsIfOneOf
<1>5. Spec /\ []NoDeadlock /\ EndsWithin(n, t) => \A k \in Nat : EndsIfOneOf(e, k, n, t)
  <2> SUFFICES ASSUME Spec /\ []NoDeadlock /\ EndsWithin(n, t)
               PROVE  \A k \in Nat : EndsIfOneOf(e, k, n, t)
    OBVIOUS
  <2>1. PICK f : \A k \in Nat : f[k] = 1 <=> EndsIfOneOf(e, k, n, t)
    <3>1. Mentioned([k \in Nat |-> IF EndsIfOneOf(e, k, n, t) THEN 1 ELSE 0])
      BY DEF Mentioned
    <3>2. \A g : Mentioned(g) => \E f : \A k \in Nat : f[k] = g[k]
      OBVIOUS
    <3> QED BY <3>1, <3>2
  <2>2. f[0] = 1
    BY <1>4, <2>1
  <2>3. \A k \in Nat : f[k] = 1 => f[k + 1] = 1
    BY <2>1, WhoeverHelps
  <2> QED BY <2>1, <2>2, <2>3, Induction
<1>6. Spec /\ []NoDeadlock /\ EndsWithin(n, t) => EndsIfOneOf(e, N, n, t)
  BY <1>5
<1> QED BY <1>3, <1>6, SHolds, NHolds, PTL DEF EndsWithin, EndsIfOneOf

\* Every call returns, for any number of threads, calls and callbacks: each step
\* of any thread does one of finitely many chores, and while a call runs somebody
\* may go on.  (The runs check that who may go on finds a step to take, for that
\* is about ENABLED.)
THEOREM EveryCallReturnsHolds == Spec /\ []NoDeadlock => EveryCallReturns
<1>1. ASSUME NEW t \in Threads PROVE Spec /\ []NoDeadlock => EndsWithin(0, t)
  <2>1. SInv /\ NInv /\ Inside(t) => ~AtMost(0)
    <3> SUFFICES ASSUME SInv, NInv, Inside(t), AtMost(0) PROVE FALSE
      OBVIOUS
    <3>1. Cardinality(Work) \in Nat /\ IsFiniteSet(Work)
      BY WorkIsFinite, TimeoutAssumption
    <3>2. Work = {}
      BY <3>1, FS_EmptySet DEF AtMost
    <3>3. frames[t] \in Seq(Frames) /\ Nested(frames[t]) /\ Len(frames[t]) \in Nat \ {0}
          /\ calls[t] \in 1 .. MaxCalls[t]
      BY TopOfStack, TimeoutAssumption DEF Inside, SInv, NInv, TypeOK
    <3>4. Weight(frames[t]) >= 1 /\ Weight(frames[t]) \in 0 .. Cap - 1
      <4> DEFINE s == frames[t]
                 rank == Rank(s[Len(s)].at)
                 left == IF MayCallBack(s[Len(s)]) THEN 10 * (Depth - Len(s)) ELSE 0
      <4>1. rank \in 1 .. 8
        BY DEF Rank
      <4>2. left \in Nat /\ Len(s) \in Nat \ {0}
        <5>1. Len(s) \in Nat \ {0} /\ Len(s) <= Depth /\ Depth \in Nat
          BY <3>3, TimeoutAssumption DEF Nested, Depth
        <5> QED BY <5>1
      <4>3. Weight(s) = 5 * (Len(s) - 1) + rank + left
        BY <3>3 DEF Weight
      <4>4. Weight(s) \in 0 .. Cap - 1
        BY <3>3, WeightBound, TimeoutAssumption
      <4> HIDE DEF s, rank, left
      <4>5. Weight(s) >= 1
        BY <4>1, <4>2, <4>3
      <4> QED BY <4>4, <4>5 DEF s
    <3>5. <<calls[t], 1>> \in Chores(t)
      BY <3>3, TimeoutAssumption DEF Chores, Cap, Depth
    <3>6. <<calls[t], 1>> \in ToDo(t)
      BY <3>4, <3>5 DEF ToDo
    <3>7. <<t, <<calls[t], 1>>>> \in Work
      BY <3>5, <3>6 DEF Work, All, Part
    <3> QED BY <3>2, <3>7
  <2> QED BY <2>1, SHolds, NHolds, PTL DEF EndsWithin
<1>2. ASSUME NEW t \in Threads PROVE Spec /\ []NoDeadlock => \A n \in Nat : EndsWithin(n, t)
  <2> SUFFICES ASSUME Spec /\ []NoDeadlock PROVE \A n \in Nat : EndsWithin(n, t)
    OBVIOUS
  <2>1. PICK f : \A n \in Nat : f[n] = 1 <=> EndsWithin(n, t)
    <3>1. Mentioned([n \in Nat |-> IF EndsWithin(n, t) THEN 1 ELSE 0])
      BY DEF Mentioned
    <3>2. \A g : Mentioned(g) => \E f : \A n \in Nat : f[n] = g[n]
      OBVIOUS
    <3> QED BY <3>1, <3>2
  <2>2. f[0] = 1
    BY <1>1, <2>1
  <2>3. \A n \in Nat : f[n] = 1 => f[n + 1] = 1
    BY <2>1, EndsAfter, TimeoutAssumption
  <2> QED BY <2>1, <2>2, <2>3, Induction
<1>3. Most \in Nat /\ AtMost(Most)
  BY WorkIsFinite, TimeoutAssumption
<1>4. ASSUME NEW t \in Threads
      PROVE  Spec /\ []NoDeadlock => (Inside(t) ~> Outside(t))
  <2>1. Spec /\ []NoDeadlock => EndsWithin(Most, t)
    BY <1>2, <1>3
  <2>2. Outside(t) <=> ~Inside(t)
    BY DEF Outside, Inside
  <2> QED BY <1>3, <2>1, <2>2, PTL DEF EndsWithin
<1>5. Spec /\ []NoDeadlock => \A t \in Threads : Inside(t) ~> Outside(t)
  BY <1>4
<1> QED BY <1>5 DEF EveryCallReturns, Inside, Outside
=============================================================================
