SPECIFICATION FairSpec
CONSTANTS
  f = f
  w = w
  Client = {f, w}
  Filler = f
  Writer = w
  Wants <- MCWants
  Limit = 3
  PoolSize = 1
  Nil = Nil
  Size = 4
  Buffers = 2
  BufferSize = 2
  MaxFaults = 2
  Thread = {t1, t2}
  Closer = c
  Free = Free
  Ask <- MCAsk
  Idle = Idle
  Retries = 1
  MaxCalls = 2
  MaxWrites = 1
INVARIANTS MemoryCounted
PROPERTIES ReadsFile ReadReturns ClosedFrees
CHECK_DEADLOCK FALSE
