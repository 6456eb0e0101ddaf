--------------------------- MODULE ConnectionTimeout ---------------------------
(* One connection used by several threads: the monitors of the connection and *)
(* of its DB, the busy timeout that withConnectionTimeout changes around an   *)
(* execution, and the one busy handler SQLite keeps for a connection.         *)
(*                                                                            *)
(* A thread has a stack of calls: while SQLite runs a statement it may call   *)
(* back (a busy handler, a listener, a function), and the callback may use    *)
(* the connection again.  The monitors are what the calls of the stacks hold. *)
(*                                                                            *)
(* The timeout in SQLiteConfig is a plain field that setBusyTimeout writes    *)
(* and withConnectionTimeout reads without a lock.                            *)
EXTENDS Integers, Sequences, FiniteSets

CONSTANTS
  Threads,
  Timeouts,      \* values of the busy timeout; 0 turns it off
  QueryTimeouts, \* query timeouts of statements; 0 is none
  Handlers,      \* busy handlers of the application
  NoHandler,     \* none
  Contexts,      \* BusyHandlerContext records, each with a global reference (two are
                 \* enough: one is freed before the next call allocates)
  MaxCalls,      \* how many calls each thread makes (a bound for TLC)
  MaxDepth       \* calls within calls (a bound for TLC)

ASSUME TimeoutAssumption ==
  /\ Threads # {} /\ IsFiniteSet(Threads)
  /\ Timeouts \subseteq Nat /\ QueryTimeouts \subseteq Timeouts /\ 0 \in QueryTimeouts
  /\ NoHandler \notin Handlers \cup Contexts
  /\ (Handlers \cup Contexts) \cap Timeouts = {}
  /\ MaxCalls \in [Threads -> Nat] /\ MaxDepth \in Nat

VARIABLES
  frames,      \* the calls each thread is in, the innermost last
  calls,       \* calls a thread has begun
  config,      \* the busy timeout in SQLiteConfig
  slot,        \* SQLite's busy handler: the context of one, a timeout, or 0
  reference,   \* NativeDB.busyHandler, the context to free when the next is set
  live,        \* contexts that have been allocated and not freed
  context,     \* the one change_busy_handler of a thread has made, in its second half
  wanted,      \* the timeout the application has set last
  handled,     \* the application has set or cleared a busy handler
  overlapped   \* two calls that change the busy handler have overlapped

heap == <<reference, live, context>>
nativeVars == <<slot, heap>>
ghosts == <<wanted, handled, overlapped>>
vars == <<frames, calls, config, nativeVars, ghosts>>

\* execute() of a statement, and every execution of a prepared update, hold the
\* monitor of the connection; queries, batches and plain updates do not.  (The
\* entries of the DB monitor that only compile or reset a statement are left out:
\* they hold it for one native call.  So is next(), which has no query timeout.)
Executions == {"execute", "query"}
Kinds == Executions \cup {"setBusyTimeout", "busyHandler"}
Places == {"config", "native", "handler", "swap", "conn", "db", "running", "keys",
           "configBack", "nativeBack"}

Frames == [kind : Kinds, at : Places, value : Timeouts \cup Handlers \cup {NoHandler},
           orig : Timeouts, called : BOOLEAN]

TypeOK ==
  /\ frames \in [Threads -> Seq(Frames)] /\ calls \in [Threads -> Nat]
  /\ config \in Timeouts /\ slot \in Timeouts \cup Contexts
  /\ reference \in Contexts \cup {NoHandler} /\ live \subseteq Contexts
  /\ context \in [Threads -> Contexts \cup {NoHandler}]
  /\ wanted \in Timeouts /\ handled \in BOOLEAN /\ overlapped \in BOOLEAN

Init ==
  /\ frames = [t \in Threads |-> <<>>] /\ calls = [t \in Threads |-> 0]
  /\ config \in Timeouts /\ slot = config
  /\ reference = NoHandler /\ live = {} /\ context = [t \in Threads |-> NoHandler]
  /\ wanted = config /\ handled = FALSE /\ overlapped = FALSE

-----------------------------------------------------------------------------
(* Stacks and monitors.                                                    *)

Top(t) == frames[t][Len(frames[t])]
At(t, place) == frames[t] # <<>> /\ Top(t).at = place

Replace(t, frame) == frames' = [frames EXCEPT ![t][Len(frames[t])] = frame]
Goto(t, place) == Replace(t, [Top(t) EXCEPT !.at = place])
Return(t) == frames' = [frames EXCEPT ![t] = SubSeq(@, 1, Len(@) - 1)]

Within(t, f(_)) == \E i \in DOMAIN frames[t] : f(frames[t][i])

\* MUTANT: NativeDB.busy_handler is not synchronized.
HoldsDbUnlessHandler(t) == Within(t, LAMBDA f : f.at = "running")

\* NativeDB.busy_handler is synchronized: it keeps the monitor between its steps.
HoldsDb(t) == Within(t, LAMBDA f : f.at \in {"running", "swap"})
HoldsConn(t) ==
  Within(t, LAMBDA f : f.kind = "execute" /\ f.at \in {"db", "running", "keys"})

\* Monitors are reentrant.
DbFree(t) == \A u \in Threads \ {t} : ~HoldsDb(u)
ConnFree(t) == \A u \in Threads \ {t} : ~HoldsConn(u)

Timed(f) == f.kind \in Executions /\ f.value # 0
Changes(f) == f.kind \notin Executions \/ Timed(f)

-----------------------------------------------------------------------------
(* Calls.                                                                  *)

\* withConnectionTimeout sets the timeout of the statement when it has one.
Body(kind) == IF kind = "execute" THEN "conn" ELSE "db"
Entry(kind, value) ==
  CASE kind = "setBusyTimeout" -> "config"
    [] kind = "busyHandler"    -> "handler"
    [] OTHER                   -> IF value # 0 THEN "config" ELSE Body(kind)

Values(kind) ==
  CASE kind = "setBusyTimeout" -> Timeouts
    [] kind = "busyHandler"    -> Handlers \cup {NoHandler}
    [] OTHER                   -> QueryTimeouts

\* Does the new call race for the busy handler?  Executions of one thread nest;
\* a setting within a timed execution is undone at the end of it.
Overlaps(t, frame) ==
  \/ Changes(frame) /\ \E u \in Threads \ {t} : Within(u, Changes)
  \/ frame.kind \notin Executions /\ Within(t, Timed)

\* withConnectionTimeout reads the field without a lock: a racing reader sees any
\* value.  (It uses what it has read only when the statement has a timeout.)
ConfigRead(frame) ==
  IF ~Timed(frame) THEN {0} ELSE IF overlapped THEN Timeouts ELSE {config}

Push(t, stack, kind) ==
  \E value \in Values(kind) :
    LET frame(orig) == [kind |-> kind, at |-> Entry(kind, value), value |-> value,
                        orig |-> orig, called |-> FALSE]
    IN /\ \E orig \in ConfigRead(frame(0)) :
            frames' = [frames EXCEPT ![t] = Append(stack, frame(orig))]
       /\ overlapped' = (overlapped \/ Overlaps(t, frame(0)))

Call(t) ==
  /\ frames[t] = <<>> /\ calls[t] < MaxCalls[t]
  /\ calls' = [calls EXCEPT ![t] = @ + 1]
  /\ \E kind \in Kinds : Push(t, <<>>, kind)
  /\ UNCHANGED <<config, nativeVars, wanted, handled>>

\* MUTANT: what callbacks execute takes the monitor of the connection.
CallbackTakesConn(t) ==
  /\ At(t, "running") /\ ~Top(t).called /\ Len(frames[t]) < MaxDepth
  /\ Push(t, [frames[t] EXCEPT ![Len(frames[t])].called = TRUE], "execute")
  /\ UNCHANGED <<calls, config, nativeVars, wanted, handled>>

\* SQLite calls back (once per execution, here), on the thread that runs the
\* statement; a callback that needs the monitor of the connection is left out.
Callback(t) ==
  /\ At(t, "running") /\ ~Top(t).called /\ Len(frames[t]) < MaxDepth
  /\ \E kind \in Kinds \ {"execute"} :
       Push(t, [frames[t] EXCEPT ![Len(frames[t])].called = TRUE], kind)
  /\ UNCHANGED <<calls, config, nativeVars, wanted, handled>>

-----------------------------------------------------------------------------
(* setBusyTimeout, by the application and by withConnectionTimeout.        *)

WriteConfig(t) ==
  /\ \/ At(t, "config") /\ config' = Top(t).value /\ Goto(t, "native")
     \/ At(t, "configBack") /\ config' = Top(t).orig /\ Goto(t, "nativeBack")
  /\ wanted' = IF Top(t).kind = "setBusyTimeout" THEN Top(t).value ELSE wanted
  /\ UNCHANGED <<calls, nativeVars, handled, overlapped>>

\* MUTANT: sqlite3_busy_timeout spares a busy handler of the application.
BusyTimeoutSpares(t) ==
  /\ DbFree(t)
  /\ \/ /\ At(t, "native") /\ slot' = IF slot \in Contexts THEN slot ELSE Top(t).value
        /\ IF Top(t).kind = "setBusyTimeout" THEN Return(t) ELSE Goto(t, Body(Top(t).kind))
     \/ At(t, "nativeBack") /\ slot' = Top(t).orig /\ Return(t)
  /\ UNCHANGED <<calls, config, heap, ghosts>>

\* sqlite3_busy_timeout replaces whatever busy handler there was; the reference
\* to a handler of the application is kept.
BusyTimeout(t) ==
  /\ DbFree(t)
  /\ \/ /\ At(t, "native") /\ slot' = Top(t).value
        /\ IF Top(t).kind = "setBusyTimeout" THEN Return(t) ELSE Goto(t, Body(Top(t).kind))
     \/ At(t, "nativeBack") /\ slot' = Top(t).orig /\ Return(t)
  /\ UNCHANGED <<calls, config, heap, ghosts>>

\* change_busy_handler, first half: it makes a context, unless the handler is
\* cleared, and SQLite has the new one before the old one is freed.
BusyHandler(t) ==
  /\ At(t, "handler") /\ DbFree(t)
  /\ IF Top(t).value = NoHandler
     THEN slot' = 0 /\ UNCHANGED <<live, context>>
     ELSE \E c \in Contexts \ live :
            slot' = c /\ context' = [context EXCEPT ![t] = c] /\ live' = live \cup {c}
  /\ Goto(t, "swap")
  /\ UNCHANGED <<calls, config, reference, ghosts>>

\* Its second half: free what the field remembers, and remember the new one.
SetNewHandler(t) ==
  /\ At(t, "swap")
  /\ live' = live \ {reference} /\ reference' = context[t]
  /\ context' = [context EXCEPT ![t] = NoHandler]
  /\ handled' = TRUE
  /\ Return(t)
  /\ UNCHANGED <<calls, config, slot, wanted, overlapped>>

-----------------------------------------------------------------------------
(* An execution.                                                           *)

EnterConn(t) ==
  /\ At(t, "conn") /\ ConnFree(t)
  /\ Goto(t, "db")
  /\ UNCHANGED <<calls, config, nativeVars, ghosts>>

\* MUTANT: the monitor of the DB cannot be taken twice, as a callback does.
EnterDbOnce(t) ==
  /\ At(t, "db") /\ DbFree(t) /\ ~HoldsDb(t)
  /\ Goto(t, "running")
  /\ UNCHANGED <<calls, config, nativeVars, ghosts>>

EnterDb(t) ==
  /\ At(t, "db") /\ DbFree(t)
  /\ Goto(t, "running")
  /\ UNCHANGED <<calls, config, nativeVars, ghosts>>

\* The finally block of withConnectionTimeout.
Leave(t) == IF Timed(Top(t)) THEN Goto(t, "configBack") ELSE Return(t)

\* MUTANT: the old timeout is restored after a success only, not in a finally.
EndsWithoutFinally(t) ==
  /\ At(t, "running")
  /\ \/ Top(t).kind = "execute" /\ Goto(t, "keys")
     \/ Leave(t)
     \/ Return(t)
  /\ UNCHANGED <<calls, config, nativeVars, ghosts>>

\* The statement ends, or fails.  With the connection still locked, the
\* generated keys are queried next.
Ends(t) ==
  /\ At(t, "running")
  /\ \/ Top(t).kind = "execute" /\ Goto(t, "keys")
     \/ Leave(t)
  /\ UNCHANGED <<calls, config, nativeVars, ghosts>>

GeneratedKeys(t) ==
  /\ At(t, "keys") /\ DbFree(t)
  /\ Leave(t)
  /\ UNCHANGED <<calls, config, nativeVars, ghosts>>

-----------------------------------------------------------------------------
Continue(t) ==
  \/ WriteConfig(t) \/ BusyTimeout(t) \/ BusyHandler(t) \/ SetNewHandler(t)
  \/ EnterConn(t) \/ EnterDb(t) \/ Ends(t) \/ GeneratedKeys(t)

Next == \E t \in Threads : Call(t) \/ Callback(t) \/ Continue(t)

\* A thread in a call is scheduled, and SQLite ends its statements.
Scheduled(t) == WF_vars(Continue(t))
Spec == Init /\ [][Next]_vars /\ \A t \in Threads : Scheduled(t)

-----------------------------------------------------------------------------
(* Properties.                                                             *)

\* When no call is running, the connection has the timeout the application set
\* last, in SQLiteConfig and, unless it uses busy handlers, in SQLite: also
\* after executions that failed, that set timeouts of their own, and that ran
\* within one another.  Calls of two threads must not have raced for it.
TimeoutRestored ==
  ~overlapped /\ (\A t \in Threads : frames[t] = <<>>) =>
    /\ config = wanted
    /\ \/ slot = wanted
       \/ handled /\ slot = (IF reference = NoHandler THEN 0 ELSE reference)

\* A statement with a query timeout runs with it, whatever was installed before
\* and whatever its callbacks have executed.
OwnTimeoutInForce ==
  \A t \in Threads :
    ~overlapped /\ At(t, "running") /\ Timed(Top(t)) => slot = Top(t).value

\* SQLite never has a busy handler whose context has been freed, however the two
\* halves of the threads' calls interleave with each other, with timeouts and with
\* callbacks; and no context is left that the next call would not free.
SlotIsLive ==
  /\ slot \in Contexts => slot \in live
  /\ (\A t \in Threads : ~At(t, "swap")) => live = {reference} \ {NoHandler}

\* A call waits for nothing but the monitors.
MayContinue(t) ==
  /\ frames[t] # <<>>
  /\ Top(t).at \in {"native", "nativeBack", "handler", "db", "keys"} => DbFree(t)
  /\ Top(t).at = "conn" => ConnFree(t)
SomeoneMayContinue ==
  (\E t \in Threads : frames[t] # <<>>) => \E t \in Threads : MayContinue(t)

Proceeds(t) == ENABLED <<Continue(t)>>_vars

\* Threads that hold one monitor and ask for the other, in calls and in callbacks
\* of any depth, never all wait; and a call that waits for no monitor has a way on.
NoDeadlock ==
  /\ SomeoneMayContinue
  /\ \A t \in Threads : MayContinue(t) => Proceeds(t)

\* Every call returns: the monitors of connection and DB are taken in one order
\* as long as no callback asks for the monitor of the connection.
EveryCallReturns == \A t \in Threads : frames[t] # <<>> ~> frames[t] = <<>>

=============================================================================
