----------------------------- MODULE ReadHandle -----------------------------
(***************************************************************************)
(* A handle of the VFS that reads a file without the cache (vfs/read.go)   *)
(* over the account, the asynchronous reader and the pool.  Threads call   *)
(* ReadAt, which seeks within the buffers or reopens the source, reads,    *)
(* and starts over at a failure; Close gives the memory back.  fh.mu is    *)
(* held throughout, except by a call that waits for the one before it.     *)
(* Another client of the pool (lib/pool's RW) takes and returns memory.    *)
(***************************************************************************)
EXTENDS AsyncReader

CONSTANTS
  Thread,      \* callers of ReadAt
  Closer,      \* the caller of Close
  Free,        \* nobody: the lock is free
  Writer,      \* the other client of the pool
  Ask,         \* the requests: offsets and lengths
  Idle,        \* not in a call
  Retries,     \* --low-level-retries
  MaxCalls,    \* bound: calls of ReadAt
  MaxWrites    \* bound: times the other client takes memory

ASSUME HandleAssumption ==
  /\ Retries \in Nat \ {0} /\ MaxCalls \in Nat /\ MaxWrites \in Nat
  /\ Ask \subseteq [off : Nat, n : Nat \ {0}]
  /\ Writer \in Client \ {Filler}
  /\ Closer \notin Thread /\ Free \notin Thread \cup {Closer}
  /\ Idle \notin [off : Nat, n : Nat, since : Nat]

VARIABLES
  owner,       \* who holds fh.mu
  stage,       \* how far the owner is
  call,        \* the call of each thread, with the failures before it
  waiting,     \* threads in waitSequential
  got,         \* what the current call has read into p
  skip, dropped, \* SkipBytes: bytes to go, tokens to refill
  retries,     \* retries of the current call
  offset, opened, closed,   \* fields of the handle
  answer,      \* what the last call of each thread returned
  calls,       \* calls so far
  writer,      \* the other client: "idle", "get" or "has"
  writes       \* times it has taken memory

localVars == <<got, skip, dropped, retries>>
fieldVars == <<offset, opened, closed>>
writerVars == <<writer, writes>>
vars == <<poolVars, readerVars, owner, stage, call, waiting, localVars,
          fieldVars, answer, calls, writerVars>>

Nothing == [data |-> <<>>, err |-> "none"]

Init ==
  /\ PoolInit /\ ReaderInit
  /\ owner = Free /\ stage = "none"
  /\ call = [t \in Thread |-> Idle]
  /\ waiting = {}
  /\ got = <<>> /\ skip = 0 /\ dropped = 0 /\ retries = 0
  /\ offset = 0 /\ opened = FALSE /\ closed = FALSE
  /\ answer = [t \in Thread |-> Nothing]
  /\ calls = 0
  /\ writer = "idle" /\ writes = 0

Off == call[owner].off
Room == call[owner].n - Len(got)

-----------------------------------------------------------------------------
(* ReadAt, up to the first attempt *)

\* Callers stop reading before they close the handle.
Begin(t) ==
  /\ owner = Free /\ call[t] = Idle /\ calls < MaxCalls /\ ~closed
  /\ owner' = t
  /\ stage' = "open"
  /\ \E a \in Ask : call' = [call EXCEPT ![t] = [off |-> a.off, n |-> a.n, since |-> faults]]
  /\ answer' = [answer EXCEPT ![t] = Nothing]
  /\ calls' = calls + 1
  /\ got' = <<>> /\ skip' = 0 /\ dropped' = 0 /\ retries' = 0
  /\ UNCHANGED <<poolVars, readerVars, waiting, fieldVars, writerVars>>

\* The handle is unlocked and the call returns.
Return(data, e) ==
  /\ owner' = Free /\ stage' = "none"
  /\ call' = [call EXCEPT ![owner] = Idle]
  /\ answer' = [answer EXCEPT ![owner] = [data |-> data, err |-> e]]
  /\ got' = <<>> /\ skip' = 0 /\ dropped' = 0 /\ retries' = 0
  /\ UNCHANGED <<waiting, calls, writerVars>>

\* The call goes on, at another stage.
Goto(s) ==
  /\ stage' = s
  /\ UNCHANGED <<owner, call, waiting, answer, calls, writerVars>>

OpenPending ==
  /\ stage = "open" /\ ~opened
  /\ New(0)
  /\ opened' = TRUE
  /\ Goto("open")
  /\ UNCHANGED <<poolVars, faults, localVars, offset, closed>>

OpenFails ==
  /\ stage = "open" /\ ~opened /\ FaultsLeft > 0
  /\ faults' = faults + 1
  /\ Return(<<>>, "failed")
  /\ UNCHANGED <<poolVars, source, filler, size, tokens, ready, cur, err, exit, fieldVars>>

Gap == Off - offset

\* waitSequential: a call a little ahead lets go of the lock ...
Wait ==
  /\ stage = "open" /\ opened
  /\ Gap > 0 /\ Gap < 8 * call[owner].n
  /\ waiting' = waiting \cup {owner}
  /\ owner' = Free /\ stage' = "none"
  /\ UNCHANGED <<poolVars, readerVars, call, localVars, fieldVars, answer, calls, writerVars>>

\* Mutant: the call that has waited takes it that its turn has come.
FirstStageTurn(t) == IF t \in waiting THEN "full" ELSE IF call[t].off = offset THEN "full" ELSE "seek"

\* The call seeks unless the handle is where it wants to read.
FirstStage(t) == IF call[t].off = offset THEN "full" ELSE "seek"

\* ... until the offset has come up to it, or the timer expires.
Resume(t) ==
  /\ t \in waiting /\ owner = Free
  /\ waiting' = waiting \ {t}
  /\ owner' = t
  /\ stage' = FirstStage(t)
  /\ UNCHANGED <<poolVars, readerVars, call, localVars, fieldVars, answer, calls, writerVars>>

NoWait ==
  /\ stage = "open" /\ opened
  /\ ~(Gap > 0 /\ Gap < 8 * call[owner].n)
  /\ Goto(FirstStage(owner))
  /\ UNCHANGED <<poolVars, readerVars, localVars, fieldVars>>

-----------------------------------------------------------------------------
(* seek *)

BeyondEnd ==
  /\ stage = "seek" /\ Off >= Size
  /\ Return(<<>>, "eof")
  /\ UNCHANGED <<poolVars, readerVars, fieldVars>>

\* The first attempt tries to skip to the offset, a retry reopens the source.
Reopens == retries > 0

Seeks == stage = "seek" /\ Off < Size

\* The seek has succeeded, and ReadFull fills p from its start.
ReadFrom(off) ==
  /\ offset' = off
  /\ got' = <<>>
  /\ Goto("full")
  /\ UNCHANGED <<opened, closed>>

SeekBack ==
  /\ Seeks /\ ~Reopens /\ err = "none" /\ SkipsBack(Gap)
  /\ SkipBack(Gap)
  /\ ReadFrom(Off)
  /\ UNCHANGED <<skip, dropped, retries>>

SeekRefused ==
  /\ Seeks /\ ~Reopens /\ SkipRefused(Gap)
  /\ StopBuffering
  /\ Goto("abandon")
  /\ UNCHANGED <<localVars, fieldVars>>

SeekSkips ==
  /\ Seeks /\ ~Reopens /\ Gap > 0 /\ ~SkipRefused(Gap)
  /\ skip' = Gap /\ dropped' = 0
  /\ Goto("skip")
  /\ UNCHANGED <<poolVars, readerVars, got, retries, fieldVars>>

Drop ==
  /\ stage = "skip"
  /\ SkipDrop
  /\ dropped' = dropped + 1
  /\ Goto("skip")
  /\ UNCHANGED <<got, skip, retries, fieldVars>>

Over ==
  /\ stage = "skip" /\ CanServe /\ ~SkipFails(skip)
  /\ SkipOver(skip, dropped)
  /\ exit' = exit
  /\ skip' = skip - SkipLen(skip)
  /\ IF skip' = 0
     THEN dropped' = 0 /\ ReadFrom(Off)
     ELSE Goto("skip") /\ UNCHANGED <<got, dropped, fieldVars>>
  /\ UNCHANGED retries

\* SkipBytes returns false: it abandons the reader.
OverFails ==
  /\ stage = "skip" /\ CanServe /\ SkipFails(skip)
  /\ SkipOver(skip, dropped)
  /\ exit' = TRUE
  /\ skip' = 0 /\ dropped' = 0
  /\ Goto("abandon")
  /\ UNCHANGED <<got, retries, fieldVars>>

OverStuck ==
  /\ stage = "skip" /\ SkipStuck
  /\ StopBuffering
  /\ skip' = 0 /\ dropped' = 0
  /\ Goto("abandon")
  /\ UNCHANGED <<got, retries, fieldVars>>

AbandonSkipped ==
  /\ stage = "abandon"
  /\ Abandon
  /\ Goto("range")
  /\ UNCHANGED <<localVars, fieldVars>>

\* A failed attempt is followed by a retry, until there have been enough.
Failed(data) ==
  IF retries < Retries
  THEN /\ retries' = retries + 1
       /\ got' = data
       /\ Goto("seek")
       /\ UNCHANGED <<skip, dropped>>
  ELSE Return(data, "failed")

\* RangeSeek on the source, which a failed attempt to reopen has closed.
RangeSeek ==
  /\ stage = "range" /\ source.open
  /\ New(Off)
  /\ ReadFrom(Off)
  /\ UNCHANGED <<poolVars, faults, skip, dropped, retries>>

RangeSeekFails ==
  /\ stage = "range" /\ ~source.open
  /\ Failed(got)
  /\ UNCHANGED <<poolVars, readerVars, fieldVars>>

\* The reader is stopped before the source is closed and opened again.
StopReading ==
  /\ Seeks /\ Reopens
  /\ StopBuffering
  /\ Goto("reopen")
  /\ UNCHANGED <<localVars, fieldVars>>

Reopen ==
  /\ stage = "reopen" /\ filler = "exited"
  /\ PutHeld
  /\ New(Off)
  /\ ReadFrom(Off)
  /\ UNCHANGED <<faults, skip, dropped, retries>>

ReopenFails ==
  /\ stage = "reopen" /\ filler = "exited" /\ FaultsLeft > 0
  /\ faults' = faults + 1
  /\ source' = [source EXCEPT !.open = FALSE]
  /\ Failed(got)
  /\ UNCHANGED <<poolVars, filler, size, tokens, ready, cur, err, exit, fieldVars>>

-----------------------------------------------------------------------------
(* ReadFull *)

DiscardCur ==
  /\ stage = "full"
  /\ Discard
  /\ Goto("full")
  /\ UNCHANGED <<localVars, fieldVars>>

\* The source ends where the file does.
AtEnd(e, end) == e = "eof" /\ end = Size

\* The attempt has read data and ends with the error e.
Attempted(data, e) ==
  IF e = "none" \/ AtEnd(e, offset + Len(data))
  THEN /\ offset' = offset + Len(data)
       /\ Return(data, IF Len(data) = call[owner].n THEN "none" ELSE "eof")
  ELSE /\ offset' = offset
       /\ Failed(data)

ReadSome ==
  /\ stage = "full"
  /\ Copy(Room)
  /\ LET data == got \o CopyData(Room)
         full == Len(data) = call[owner].n
     IN  IF full \/ CopyErr(Room) # "none"
         THEN Attempted(data, IF full THEN "none" ELSE CopyErr(Room))
         ELSE /\ got' = data
              /\ Goto("full")
              /\ UNCHANGED <<skip, dropped, retries, offset>>
  /\ UNCHANGED <<opened, closed>>

ReadEnded ==
  /\ stage = "full" /\ Ended
  /\ Attempted(got, EndedErr)
  /\ UNCHANGED <<poolVars, readerVars, opened, closed>>

-----------------------------------------------------------------------------
(* Close, the other client, and the goroutines *)

Close ==
  /\ owner = Free /\ ~closed /\ \A t \in Thread : call[t] = Idle
  /\ closed' = TRUE
  /\ owner' = IF opened THEN Closer ELSE Free
  /\ stage' = IF opened THEN "close" ELSE "none"
  /\ exit' = TRUE
  /\ UNCHANGED <<poolVars, source, filler, size, tokens, ready, cur, err, faults, call,
                 waiting, localVars, offset, opened, answer, calls, writerVars>>

CloseDone ==
  /\ stage = "close" /\ filler = "exited"
  /\ PutHeld
  /\ cur' = Nil /\ ready' = <<>>
  /\ source' = [source EXCEPT !.open = FALSE]
  /\ owner' = Free /\ stage' = "none"
  /\ UNCHANGED <<filler, size, tokens, err, exit, faults, call, waiting, localVars,
                 fieldVars, answer, calls, writerVars>>

handleVars == <<owner, stage, call, waiting, localVars, fieldVars, answer, calls>>

Reserve ==
  /\ writer = "idle" /\ writes < MaxWrites
  /\ Acquire(Writer)
  /\ writer' = "get" /\ writes' = writes + 1
  /\ UNCHANGED <<readerVars, handleVars>>

Reserved ==
  /\ writer = "get"
  /\ Take(Writer)
  /\ writer' = "has"
  /\ UNCHANGED <<readerVars, handleVars, writes>>

CloseWriter ==
  /\ writer = "has"
  /\ Put(Wants[Writer])
  /\ writer' = "idle"
  /\ UNCHANGED <<readerVars, handleVars, writes>>

FillerStep ==
  /\ TakeToken \/ Exit \/ GetBuffer \/ Fill
  /\ UNCHANGED <<handleVars, writerVars>>

RetryGet(c) == Retry(c) /\ UNCHANGED <<readerVars, handleVars, writerVars>>
NoMemory(c) == FaultsLeft > 0 /\ AllocFails(c) /\ UNCHANGED <<readerVars, handleVars, writerVars>>
Flush == FlushAged /\ UNCHANGED <<readerVars, handleVars, writerVars>>

ReadStep ==
  \/ OpenPending \/ Wait \/ NoWait
  \/ BeyondEnd \/ SeekBack \/ SeekRefused \/ SeekSkips \/ Drop \/ Over \/ OverFails \/ OverStuck
  \/ AbandonSkipped \/ RangeSeek \/ RangeSeekFails \/ StopReading \/ Reopen
  \/ DiscardCur \/ ReadSome \/ ReadEnded

Next ==
  \/ \E t \in Thread : Begin(t) \/ Resume(t)
  \/ ReadStep \/ OpenFails \/ ReopenFails
  \/ Close \/ CloseDone
  \/ Reserve \/ Reserved \/ CloseWriter
  \/ FillerStep \/ Flush
  \/ \E c \in Client : RetryGet(c) \/ NoMemory(c)

Spec == Init /\ [][Next]_vars

\* Goroutines run, sleeps and timers end, and the other client returns what it took.
FairSpec ==
  /\ Spec
  /\ WF_vars(ReadStep) /\ WF_vars(CloseDone)
  /\ \A t \in Thread : WF_vars(Resume(t))
  /\ WF_vars(FillerStep) /\ WF_vars(Flush)
  /\ WF_vars(Reserved) /\ WF_vars(CloseWriter)
  /\ \A c \in Client : WF_vars(RetryGet(c))

-----------------------------------------------------------------------------

\* A buffer of the handle: with the reader, or with the goroutine.
Buffered == Held + (IF filler = "read" THEN 1 ELSE 0)

\* Memory that calls of GetN have acquired and not taken yet.
Acquired == {c \in Client : getting[c] = "acquired"}

\* The pool's counters agree with each other and with who holds buffers: none is
\* lost or returned twice however often a reader is abandoned, reopened or closed
\* and an allocation fails, and the memory in use never passes its limit.
MemoryCounted ==
  /\ inUse = Buffered + (IF writer = "has" THEN Wants[Writer] ELSE 0)
  /\ alloced = cache + inUse
  /\ minFill <= cache
  /\ used = inUse + (IF Filler \in Acquired THEN 1 ELSE 0)
                  + (IF Writer \in Acquired THEN Wants[Writer] ELSE 0)
  /\ used <= Limit

File == INSTANCE FileRead WITH failures <- faults

\* Every ReadAt returns the bytes of the file at its offset, whatever was skipped,
\* read ahead, abandoned, reopened or read by another call while it waited; it ends
\* early only at the end of the file and fails only if the source failed meanwhile.
ReadsFile == File!Spec

\* Every ReadAt returns.
ReadReturns == \A t \in Thread : (call[t] # Idle) ~> (call[t] = Idle)

\* Once the handle is closed its reader stops and all memory is given back to the system.
ClosedFrees == closed ~> (inUse = 0 /\ alloced = 0)

=============================================================================
