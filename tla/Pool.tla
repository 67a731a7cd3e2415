-------------------------------- MODULE Pool --------------------------------
(***************************************************************************)
(* The pool of memory buffers (lib/pool) and the semaphore that limits the *)
(* memory in use (--max-buffer-memory).  Memory is counted in buffers.  A  *)
(* client always asks for the same number of them with GetN; a call waits  *)
(* for the semaphore, then takes what is cached and allocates the rest,    *)
(* and when an allocation fails gives everything back and sleeps.          *)
(***************************************************************************)
EXTENDS Integers, Sequences

CONSTANTS
  Client,      \* goroutines that call GetN
  Wants,       \* how many buffers each asks for
  Limit,       \* --max-buffer-memory
  PoolSize     \* buffers kept for later use

ASSUME PoolAssumption ==
  /\ Limit \in Nat /\ PoolSize \in Nat
  /\ Wants \in [Client -> 1..Limit]

VARIABLES
  cache,       \* buffers cached
  minFill,     \* least number cached since the last flush
  inUse,       \* buffers handed out
  alloced,     \* buffers allocated and not freed
  armed,       \* the timer of the flusher runs
  used,        \* memory the semaphore has given out
  queue,       \* calls waiting for the semaphore, in order
  getting,     \* where the GetN of each client is
  denials      \* allocations that have failed

poolVars == <<cache, minFill, inUse, alloced, armed, used, queue, getting, denials>>

AtMost(a, b) == IF a < b THEN a ELSE b

PoolInit ==
  /\ cache = 0 /\ minFill = 0 /\ inUse = 0 /\ alloced = 0
  /\ armed = TRUE
  /\ used = 0 /\ queue = <<>>
  /\ getting = [c \in Client |-> "no"]
  /\ denials = 0

-----------------------------------------------------------------------------
(* The weighted semaphore serves its callers in order. *)

\* What the first k of the waiting calls want.
Demand(k) ==
  LET sum[i \in 0..Len(queue)] == IF i = 0 THEN 0 ELSE sum[i - 1] + Wants[queue[i]]
  IN  sum[k]

\* How many of the waiting calls get their memory when u is used.
Served(u) ==
  CHOOSE k \in 0..Len(queue) :
    /\ u + Demand(k) <= Limit
    /\ k < Len(queue) => u + Demand(k + 1) > Limit

\* u is what remains used after a release, and at where the calls are by then.
Release(u, at) ==
  LET k == Served(u)
  IN  /\ used' = u + Demand(k)
      /\ queue' = SubSeq(queue, k + 1, Len(queue))
      /\ getting' = [c \in Client |->
                       IF \E i \in 1..k : queue[i] = c THEN "acquired" ELSE at[c]]

Acquire(c) ==
  /\ IF queue = <<>> /\ used + Wants[c] <= Limit
     THEN /\ used' = used + Wants[c]
          /\ getting' = [getting EXCEPT ![c] = "acquired"]
          /\ queue' = queue
     ELSE /\ queue' = Append(queue, c)
          /\ getting' = [getting EXCEPT ![c] = "queued"]
          /\ used' = used
  /\ UNCHANGED <<cache, minFill, inUse, alloced, armed, denials>>

-----------------------------------------------------------------------------
(* GetN *)

Have(c) == AtMost(cache, Wants[c])

Take(c) ==
  /\ getting[c] = "acquired"
  /\ cache' = cache - Have(c)
  /\ alloced' = alloced + (Wants[c] - Have(c))
  /\ inUse' = inUse + Wants[c]
  /\ minFill' = AtMost(minFill, cache')
  /\ getting' = [getting EXCEPT ![c] = "no"]
  /\ UNCHANGED <<armed, used, queue, denials>>

\* Mutant: the memory acquired is kept while the call sleeps.
UsedStill(c) == used

\* What is used when GetN has failed: it releases what it had acquired.
UsedAfterFail(c) == used - Wants[c]

\* The j buffers that were allocated before one failed go to the cache, with
\* the ones that came from it.
AllocFails(c) ==
  /\ getting[c] = "acquired"
  /\ \E j \in 0..(Wants[c] - Have(c) - 1) :
       /\ cache' = cache + j
       /\ alloced' = alloced + j
  /\ Release(UsedAfterFail(c), [getting EXCEPT ![c] = "asleep"])
  /\ denials' = denials + 1
  /\ UNCHANGED <<minFill, inUse, armed>>

Retry(c) ==
  /\ getting[c] = "asleep"
  /\ Acquire(c)

-----------------------------------------------------------------------------
(* Put and PutN *)

\* A buffer that does not fit in the cache is freed.
Kept(k) == IF cache < PoolSize THEN AtMost(k, PoolSize - cache) ELSE 0

Put(k) ==
  /\ cache' = cache + Kept(k)
  /\ alloced' = alloced - (k - Kept(k))
  /\ inUse' = inUse - k
  /\ minFill' = AtMost(minFill, cache')
  /\ armed' = TRUE
  /\ Release(used - k, getting)
  /\ UNCHANGED denials

-----------------------------------------------------------------------------
(* The flusher *)

\* Mutant: the flusher runs once for each Put.
NeverAgain(left) == FALSE

\* The flusher is started again while buffers are cached.
Again(left) == left # 0

\* The buffers nobody has needed since the last flush are freed.
FlushAged ==
  /\ armed
  /\ cache' = cache - minFill
  /\ alloced' = alloced - minFill
  /\ minFill' = cache'
  /\ armed' = Again(cache')
  /\ UNCHANGED <<inUse, used, queue, getting, denials>>

=============================================================================
