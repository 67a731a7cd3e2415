----------------------------- MODULE AsyncReader -----------------------------
(***************************************************************************)
(* The reader that reads ahead (fs/asyncreader): a goroutine fills buffers *)
(* of the pool from the source and sends them to the reader, which sends a *)
(* token back for each one it has used up.  The content of the source at   *)
(* position i is i, so a buffer is the position it starts at and a length. *)
(* The reader is restarted over another source or position with New.       *)
(***************************************************************************)
EXTENDS Pool

CONSTANTS
  Filler,       \* the goroutine, a client of the pool
  Nil,          \* no buffer
  Size,         \* length of the file
  Buffers,      \* --buffer-size, in buffers
  BufferSize,   \* length of a full buffer; the first ones are shorter
  MaxFaults     \* bound: failures of the source and of allocations

ASSUME ReaderAssumption ==
  /\ Filler \in Client /\ Wants[Filler] = 1
  /\ Size \in Nat /\ Buffers \in Nat \ {0} /\ BufferSize \in Nat \ {0}
  /\ MaxFaults \in Nat
  /\ Nil \notin [base : Nat, len : Nat, off : Nat, e : {"none", "eof", "io"}]

VARIABLES
  source,       \* the source: its position, and whether it is open
  filler,       \* where the goroutine is: "select", "get", "read", "exited"
  size,         \* length of the next buffer while it grows
  tokens,       \* tokens in the channel
  ready,        \* buffers in the channel, closed when the goroutine exits
  cur,          \* the buffer being read
  err,          \* the error the reader has met: "none", "eof" or "io"
  exit,         \* the exit channel is closed
  faults        \* failures of the source so far

readerVars == <<source, filler, size, tokens, ready, cur, err, exit, faults>>

\* No reader has been made.
ReaderInit ==
  /\ source = [open |-> FALSE, pos |-> 0]
  /\ filler = "exited"
  /\ size = 1
  /\ tokens = 0
  /\ ready = <<>>
  /\ cur = Nil
  /\ err = "none"
  /\ exit = TRUE
  /\ faults = 0

\* A reader over a source opened at pos; the one before it has been abandoned.
New(pos) ==
  /\ source' = [open |-> TRUE, pos |-> pos]
  /\ filler' = "select"
  /\ size' = 1
  /\ tokens' = Buffers
  /\ ready' = <<>>
  /\ cur' = Nil
  /\ err' = "none"
  /\ exit' = FALSE

-----------------------------------------------------------------------------
(* The goroutine *)

TakeToken ==
  /\ filler = "select" /\ tokens > 0
  /\ tokens' = tokens - 1
  /\ filler' = "get"
  /\ Acquire(Filler)
  /\ UNCHANGED <<source, size, ready, cur, err, exit, faults>>

\* select takes either case when a token is there as well.
Exit ==
  /\ filler = "select" /\ exit
  /\ filler' = "exited"
  /\ UNCHANGED poolVars
  /\ UNCHANGED <<source, size, tokens, ready, cur, err, exit, faults>>

GetBuffer ==
  /\ filler = "get"
  /\ Take(Filler)
  /\ filler' = "read"
  /\ UNCHANGED <<source, size, tokens, ready, cur, err, exit, faults>>

FaultsLeft == MaxFaults - faults - denials

Rest == Size - source.pos

\* What ReadFill may bring back: a full buffer, the end of the file (with the
\* last bytes or after them), or after any number of bytes an error or an end
\* that comes too early.
Fills ==
       [n : {size} \cap 0..Rest, e : {"none"}, fault : {0}]
  \cup [n : {Rest} \cap 0..size, e : {"eof"}, fault : {0}]
  \cup [n : 0..AtMost(size, Rest), e : {"eof", "io"}, fault : {1}]

Fill ==
  /\ filler = "read" /\ Len(ready) < Buffers
  /\ \E f \in Fills :
       /\ f.fault <= FaultsLeft
       /\ faults' = faults + f.fault
       /\ source' = [source EXCEPT !.pos = @ + f.n]
       /\ ready' = Append(ready, [base |-> source.pos, len |-> f.n, off |-> 0, e |-> f.e])
       /\ filler' = IF f.e = "none" THEN "select" ELSE "exited"
  /\ size' = AtMost(2 * size, BufferSize)
  /\ UNCHANGED poolVars
  /\ UNCHANGED <<tokens, cur, err, exit>>

-----------------------------------------------------------------------------
(* Read *)

IsEmpty(b) == b = Nil \/ b.off >= b.len

\* fill returns a buffer that has been read to its end.
Discard ==
  /\ cur # Nil /\ IsEmpty(cur)
  /\ cur' = Nil
  /\ tokens' = tokens + 1
  /\ Put(1)
  /\ UNCHANGED <<source, filler, size, ready, err, exit, faults>>

\* The buffer fill has for Read: the current one, or the next one.
Serving == IF cur = Nil THEN Head(ready) ELSE cur

CanServe == (cur # Nil /\ ~IsEmpty(cur)) \/ (cur = Nil /\ ready # <<>>)

\* The bytes of Read(p) with room for n, and the buffer after it.
CopyLen(n) == AtMost(n, Serving.len - Serving.off)

CopyData(n) == [i \in 1..CopyLen(n) |-> Serving.base + Serving.off + i - 1]

\* The error that Read returns along with the bytes.
CopyErr(n) == IF Serving.off + CopyLen(n) >= Serving.len THEN Serving.e ELSE "none"

Copy(n) ==
  /\ CanServe
  /\ cur' = [Serving EXCEPT !.off = @ + CopyLen(n)]
  /\ ready' = IF cur = Nil THEN Tail(ready) ELSE ready
  /\ err' = IF IsEmpty(cur') THEN CopyErr(n) ELSE err
  /\ UNCHANGED poolVars
  /\ UNCHANGED <<source, filler, size, tokens, exit, faults>>

\* fill finds the channel closed.
Ended == cur = Nil /\ ready = <<>> /\ filler = "exited"

EndedErr == IF err = "none" THEN "abandoned" ELSE err

-----------------------------------------------------------------------------
(* SkipBytes *)

SkipsBack(skip) == skip < 0 /\ cur # Nil /\ cur.off + skip >= 0

SkipBack(skip) ==
  /\ cur' = [cur EXCEPT !.off = @ + skip]
  /\ UNCHANGED poolVars
  /\ UNCHANGED <<source, filler, size, tokens, ready, err, exit, faults>>

SkipRefused(skip) ==
  \/ err # "none"
  \/ skip < 0 /\ ~SkipsBack(skip)
  \/ skip >= (Len(ready) + 1) * BufferSize

\* One turn of the loop puts an empty buffer back and takes the next one, ...
SkipDrop ==
  /\ cur # Nil /\ IsEmpty(cur)
  /\ cur' = Nil
  /\ Put(1)
  /\ UNCHANGED <<source, filler, size, tokens, ready, err, exit, faults>>

SkipStuck == cur = Nil /\ ready = <<>>

SkipLen(skip) == AtMost(skip, Serving.len - Serving.off)

\* ... or skips bytes of a buffer.  The tokens of the buffers put back are sent
\* when the skip has come to its end.
SkipOver(skip, dropped) ==
  LET n == SkipLen(skip)
      b == [Serving EXCEPT !.off = @ + n]
  IN  /\ CanServe
      /\ cur' = b
      /\ ready' = IF cur = Nil THEN Tail(ready) ELSE ready
      /\ tokens' = IF n = skip THEN tokens + dropped ELSE tokens
      /\ err' = IF IsEmpty(b) THEN b.e ELSE err
      /\ UNCHANGED poolVars
      /\ UNCHANGED <<source, filler, size, faults>>

SkipFails(skip) == SkipLen(skip) < skip /\ Serving.e # "none"

-----------------------------------------------------------------------------
(* StopBuffering and Abandon *)

\* Mutant: the goroutine is not told to exit.
TellsNone == exit

\* The exit channel is closed.
Tells == TRUE

StopBuffering ==
  /\ exit' = Tells
  /\ UNCHANGED poolVars
  /\ UNCHANGED <<source, filler, size, tokens, ready, cur, err, faults>>

\* The buffers Abandon puts back.
Held == Len(ready) + (IF cur = Nil THEN 0 ELSE 1)

PutHeld == IF Held = 0 THEN UNCHANGED poolVars ELSE Put(Held)

Abandon ==
  /\ filler = "exited"
  /\ PutHeld
  /\ cur' = Nil
  /\ ready' = <<>>
  /\ UNCHANGED <<source, filler, size, tokens, err, exit, faults>>

=============================================================================
