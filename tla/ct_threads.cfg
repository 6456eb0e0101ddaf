SPECIFICATION Spec
CONSTANTS
  t1 = t1
  t2 = t2
  Threads = {t1, t2}
  Timeouts <- MCTimeouts
  QueryTimeouts <- MCQueryTimeouts
  Handlers = {h1}
  NoHandler = NoHandler
  Contexts = {c1, c2}
  MaxCalls <- MCMaxCalls
  MaxDepth = 2
INVARIANTS NoDeadlock SlotIsLive OwnTimeoutInForce TimeoutRestored
PROPERTY EveryCallReturns
CHECK_DEADLOCK FALSE
