----------------------------- MODULE Downloaders -----------------------------
(***************************************************************************)
(* The downloaders of one open file of the VFS cache                       *)
(* (vfs/vfscache/downloaders, with the part of vfs/vfscache/item.go that   *)
(* calls them and that they call).  A read of bytes that are not in the    *)
(* cache file becomes a waiter; goroutines fetch the remote object from    *)
(* some offset on and write to the cache file what is not there yet; after *)
(* each write the waiters are looked at.  Meanwhile the file is written to *)
(* and truncated, the cleaner resets it to free space and it is closed.    *)
(***************************************************************************)
EXTENDS Ranges

CONSTANTS
  Reader,          \* threads that read
  Closer,          \* the thread that closes the file
  Size,            \* size of the remote object
  Asks,            \* the ranges each reader reads
  Puts,            \* the ranges that are written
  Cuts,            \* the sizes the file is truncated to
  Chunk,           \* bound: bytes of a write of a downloader
  Window,          \* --buffer-size
  MinWindow,       \* minWindow
  MaxSkip,         \* maxSkipBytes
  ReadAhead,       \* --vfs-read-ahead
  MaxErrorCount,   \* maxErrorCount
  Retries,         \* --low-level-retries
  MaxDownloaders,  \* bound: goroutines at a time
  MaxReads,        \* bound: reads
  MaxChanges,      \* bound: writes and truncates
  MaxEvents        \* bound: those, resets, failures of the cache file and times
                   \* the remote object ends early

ASSUME DownloadersAssumption ==
  /\ Closer \notin Reader
  /\ \A p \in Reader : Asks[p] \subseteq [pos : Nat, size : Nat]
  /\ Puts \subseteq [pos : Nat, size : Nat \ {0}]
  /\ Size \in Nat /\ Cuts \subseteq Nat /\ Chunk \in Nat \ {0}
  /\ Window \in Nat /\ MinWindow \in Nat \ {0} /\ MaxSkip \in Nat /\ ReadAhead \in Nat
  /\ MaxErrorCount \in Nat /\ Retries \in Nat \ {0} /\ MaxDownloaders \in Nat \ {0}
  /\ MaxReads \in Nat /\ MaxChanges \in Nat /\ MaxEvents \in Nat

VARIABLES
  item,    \* the Item and its cache file: rs and size are info.Rs and info.Size,
           \* length the size of the cache file, beingReset, dirty, fd; tail is the
           \* range of a WriteAt that has yet to look at the size, empty if none; kept
           \* is what the code does not know, how many of the first bytes of the
           \* remote object no truncate has cut off since the cache file was made
  held,    \* the positions of the cache file that were written, extended or downloaded
  reads,   \* the call of ReadAt, or of Close, each thread is in
  dls,     \* the Downloaders of the item
  write,   \* the range WriteAt has written and not marked yet, empty if none
  close,   \* the Close or Reset that is under way
  count    \* how often each bounded event has happened

vars == <<item, held, reads, dls, write, close, count>>

Thread == Reader \cup {Closer}
Empty == Span(0, 0)
Idle == [pc |-> "idle", ask |-> Empty, r |-> Empty, present |-> FALSE, tries |-> 0, err |-> "none"]

\* A goroutine that has only its last kick to give.
Ended == [pc |-> "last", start |-> 0, offset |-> 0, max |-> 0, skipped |-> 0, stop |-> FALSE,
          err |-> "none", old |-> FALSE]

\* downloaders.New.  What is left of goroutines of an earlier one is kept in
\* dl, marked old.
New(open, dl) == [open |-> open, list |-> <<>>, waiters |-> <<>>, errors |-> 0, lastErr |-> "none", dl |-> dl]

\* The Item when its cache file is new and nothing is in it.
NewItem == [rs |-> <<>>, size |-> Size, length |-> Size, tail |-> Empty, kept |-> Size,
            beingReset |-> FALSE, dirty |-> FALSE, fd |-> TRUE]

Init ==
  /\ item = NewItem
  /\ held = {}
  /\ reads = [p \in Thread |-> Idle]
  /\ dls = New(TRUE, <<>>)
  /\ write = Empty
  /\ close = [pc |-> "open", reset |-> FALSE, todo |-> <<>>]
  /\ count = [reads |-> 0, changes |-> 0, events |-> 0]

\* The elements of s that are in T, in the order they have in s.
Select(s, T) ==
  SeqExt!FoldLeft(LAMBDA acc, x : IF x \in T THEN Append(acc, x) ELSE acc, <<>>, s)

Counts(r, c, e) ==
  LET n == [reads |-> count.reads + r, changes |-> count.changes + c, events |-> count.events + e]
  IN /\ n.reads <= MaxReads /\ n.changes <= MaxChanges /\ n.events <= MaxEvents
     /\ count' = n

\* item.pendingAccesses, as a set.
Accesses == {p \in Thread : reads[p].pc \notin {"idle", "retry"}}

-----------------------------------------------------------------------------
(* Downloaders, with dls.mu held *)

\* Item.FindMissing, which does not look past the end of the file.
Missing(r) == Clip(FindMissing(item.rs, r), item.size)

\* The smallest number that is not that of a running goroutine.
Unused(dl) == CHOOSE n \in 1 .. Cardinality(DOMAIN dl) + 1 :
                n \notin DOMAIN dl /\ 1 .. n - 1 \subseteq DOMAIN dl

NewDownloader(D, r) ==
  LET k == Unused(D.dl)
      started == [Ended EXCEPT !.pc = "run", !.start = r.pos, !.offset = r.pos, !.max = End(r)]
  IN [D EXCEPT !.list = Append(@, k),
               !.dl = [n \in DOMAIN @ \cup {k} |-> IF n = k THEN started ELSE @[n]]]

\* What is to be downloaded when r is what is missing: r, or if that is empty
\* the place where the first byte of the window is missing, or where it ends.
Goal(r, window) ==
  IF ~IsEmpty(r) THEN r
  ELSE LET rest == Missing(window)
       IN Span(IF IsEmpty(rest) THEN End(window) ELSE rest.pos, 0)

\* The first downloader that will soon be at r goes on as far as r reaches; if
\* there is none one is started, except for an empty range (for which startNew
\* makes no difference).
ExtendOrStart(D, r) ==
  LET InRange(k) == r.pos >= D.dl[k].start /\ r.pos < D.dl[k].offset + Larger(Window, MinWindow)
      near == Select(D.list, {k \in DOMAIN D.dl : InRange(k)})
  IN IF near # <<>> THEN [D EXCEPT !.dl[Head(near)].max = Larger(@, End(r))]
     ELSE IF r.size = 0 THEN D
     ELSE NewDownloader(D, r)

\* _ensureDownloader, where r is what is missing of what is wanted.
EnsureMissing(D, r) == ExtendOrStart(D, Goal(r, [r EXCEPT !.size = @ + Window]))

EnsureDownloader(D, wanted) == EnsureMissing(D, Missing([wanted EXCEPT !.size = @ + ReadAhead]))

\* Mutant: a waiter is told only when all of its range is present.
ArrivedOnly(p) == Present(item.rs, Clip(reads[p].r, Size))

\* A waiter is told when its bytes have arrived, or no bytes of it are missing
\* because the file has shrunk.
Arrived(p) ==
  \/ Present(item.rs, Clip(reads[p].r, Size))
  \/ IsEmpty(Missing(reads[p].r))

Told(p, err) == [Idle EXCEPT !.pc = IF err = "none" THEN "read" ELSE "failed", !.err = err,
                             !.ask = reads[p].ask, !.tries = reads[p].tries]

\* Mutant: errors are counted and never looked at.
NeverGivesUp(D) == D.lastErr = "nospace"

\* kickWaiters gives up on all waiters.
GivesUp(D) == D.lastErr = "nospace" \/ D.errors > MaxErrorCount

\* _dispatchWaiters leaves those whose bytes have not arrived ...
Dispatch(D) == [D EXCEPT !.waiters = Select(@, {p \in Thread : ~Arrived(p)})]

\* ... each of which has a downloader then.
EnsureEach(D, waiters) ==
  SeqExt!FoldLeft(LAMBDA acc, p : EnsureDownloader(acc, reads[p].r), D, waiters)

EnsureAll(D) == EnsureEach(D, D.waiters)

\* The waiters are told that their bytes have arrived, or the last error.
Tell(waiters, D) ==
  LET fail == D.waiters # <<>> /\ GivesUp(D)
  IN /\ dls' = IF fail THEN [D EXCEPT !.waiters = <<>>] ELSE D
     /\ Cardinality(DOMAIN D.dl) <= MaxDownloaders
     /\ reads' = [p \in Thread |->
                   IF p \notin SeqExt!ToSet(waiters) THEN reads[p]
                   ELSE IF Arrived(p) THEN Told(p, "none")
                   ELSE IF fail THEN Told(p, D.lastErr)
                   ELSE reads[p]]

KickWaiters(D) == Tell(D.waiters, EnsureAll(Dispatch(D)))

\* The ticker of New.
BackgroundKick ==
  /\ dls.open /\ dls.waiters # <<>>
  /\ KickWaiters(dls)
  /\ UNCHANGED <<item, held, write, close, count>>

-----------------------------------------------------------------------------
(* Reads *)

\* What _ensure asks for: not more than the file or the remote object has.
Needed(ask) == Span(ask.pos, Smaller(Smaller(ask.size, item.size - ask.pos), Size - ask.pos))

\* readAt up to the place where _ensure gives item.mu up.
Call(p, ask, tries) ==
  LET r == Needed(ask)
      pc == IF ~item.fd THEN "failed" ELSE IF IsEmpty(r) THEN "read" ELSE "ensure"
  IN reads' = [reads EXCEPT ![p] =
                [pc |-> pc, ask |-> ask, r |-> r, present |-> Present(item.rs, r),
                 tries |-> tries, err |-> IF item.fd THEN "none" ELSE "io"]]

\* ReadAt, once preAccess has seen that the file is not being reset.
ReadAt(p) ==
  /\ reads[p].pc = "idle" /\ close.pc = "open" /\ ~item.beingReset
  /\ Counts(1, 0, 0)
  /\ \E ask \in Asks[p] : Call(p, ask, 1)
  /\ UNCHANGED <<item, held, dls, write, close>>

\* The rest of _ensure: EnsureDownloader for what was present, Download for
\* what was not.
Ensured(p, D) ==
  /\ Cardinality(DOMAIN D.dl) <= MaxDownloaders
  /\ IF reads[p].present
     THEN dls' = D /\ reads' = [reads EXCEPT ![p] = Told(p, "none")]
     ELSE /\ dls' = [D EXCEPT !.waiters = Append(@, p)]
          /\ reads' = [reads EXCEPT ![p].pc = "waiting"]

Ensure(p) ==
  /\ reads[p].pc = "ensure"
  /\ Ensured(p, EnsureDownloader(dls, reads[p].r))
  /\ UNCHANGED <<item, held, write, close, count>>

\* readAt reads the cache file and returns.  ReadAt sleeps and tries again when
\* the cache is out of space.
ReadEnd(p) ==
  /\ reads[p].pc \in {"read", "failed"}
  /\ reads' = [reads EXCEPT ![p] =
                IF @.err = "nospace" /\ @.tries < Retries THEN [@ EXCEPT !.pc = "retry"] ELSE Idle]
  /\ UNCHANGED <<item, held, dls, write, close, count>>

Retry(p) ==
  /\ reads[p].pc = "retry" /\ ~item.beingReset
  /\ Call(p, reads[p].ask, reads[p].tries + 1)
  /\ UNCHANGED <<item, held, dls, write, close, count>>

-----------------------------------------------------------------------------
(* A downloader: dl.in.WriteTo(dl) calls Write with what the source yields *)

PutPart(it, part) ==
  IF part.present THEN it
  ELSE [it EXCEPT !.rs = Insert(@, part.r), !.length = Larger(@, End(part.r))]

PutParts(it, parts) == SeqExt!FoldLeft(PutPart, it, parts)

\* WriteAtNoOverwrite of the first n bytes: the parts that are not present.
WriteParts(off, n) ==
  LET parts == FindAll(item.rs, Span(off, n))
      gaps == {i \in DOMAIN parts : ~parts[i].present}
  IN /\ item' = PutParts(item, parts)
     /\ held' = held \cup UNION {Bytes(parts[i].r) : i \in gaps}

\* The downloader d after n more bytes, all of which it skipped or not.
Skipped(d, n) == IF Present(item.rs, Span(d.offset, n)) THEN d.skipped + n ELSE 0
Wrote(d, n) ==
  [d EXCEPT !.pc = "kick", !.offset = @ + n, !.skipped = Skipped(d, n),
            !.stop = @ \/ d.offset >= d.max \/ Skipped(d, n) > MaxSkip]

\* Write waits while the downloader is as far as anybody wants; it goes on when
\* it is asked for more, stopped, or idle for too long, which stops it.  One that
\* is stopped writes what is left in its buffer; without a buffer Write returns
\* ErrorStreamAbandoned and the stream ends (SourceEnds).
Write(k) ==
  \E n \in 1 .. Chunk :
    /\ dls.dl[k].pc = "run" /\ dls.dl[k].offset + n <= Size
    /\ WriteParts(dls.dl[k].offset, n)
    /\ dls' = [dls EXCEPT !.dl[k] = Wrote(@, n)]
    /\ UNCHANGED <<reads, write, close, count>>

WroteBefore(d, n, err) ==
  [d EXCEPT !.pc = IF n > 0 THEN "kick" ELSE "end", !.offset = @ + n, !.err = err,
            !.stop = @ \/ d.offset >= d.max]

\* Without a buffer the error of a downloader that was stopped, or stops now, is
\* replaced by ErrorStreamAbandoned, which is none.
Overridden(d, err) == err = "none" => d.stop \/ d.offset >= d.max

\* The cache file cannot be written to at byte n of the chunk.
WriteFails(k) ==
  \E n \in 0 .. Chunk - 1, err \in {"none", "io", "nospace"} :
    /\ dls.dl[k].pc = "run" /\ Overridden(dls.dl[k], err) /\ dls.dl[k].offset + n < Size
    /\ ~Present(item.rs, Span(dls.dl[k].offset + n, 1))
    /\ Counts(0, 0, 1)
    /\ WriteParts(dls.dl[k].offset, n)
    /\ dls' = [dls EXCEPT !.dl[k] = WroteBefore(@, n, err)]
    /\ UNCHANGED <<reads, write, close>>

\* The deferred kickWaiters of Write.
Kick(k) ==
  /\ dls.dl[k].pc = "kick"
  /\ KickWaiters([dls EXCEPT !.dl[k].pc = IF dls.dl[k].err = "none" THEN "run" ELSE "end"])
  /\ UNCHANGED <<item, held, write, close, count>>

StreamEnds(k, err) ==
  /\ dls.dl[k].pc = "run"
  /\ dls' = [dls EXCEPT !.dl[k].pc = "end", !.dl[k].err = err]
  /\ UNCHANGED <<item, held, reads, write, close>>

\* The whole object was read, or what was in the buffer of a stopped downloader.
SourceEnds(k) ==
  /\ dls.dl[k].offset = Size \/ dls.dl[k].stop
  /\ StreamEnds(k, "none")
  /\ UNCHANGED count

SourceFails(k) ==
  /\ StreamEnds(k, "io")
  /\ UNCHANGED count

\* The object has become shorter: the chunked reader returns io.EOF.
SourceShort(k) ==
  /\ dls.dl[k].offset < Size
  /\ Counts(0, 0, 1)
  /\ StreamEnds(k, "none")

\* What is left of a downloader that is closed: the bytes it got and its error.
Closed(d) == [Ended EXCEPT !.pc = "closed", !.offset = d.offset - d.start, !.err = d.err, !.old = d.old]

\* dl.close.  A closed downloader is in the list no longer, since whoever looks
\* at the list calls _removeClosed first ...
CloseDownloader(k) ==
  /\ dls.dl[k].pc = "end"
  /\ dls' = [dls EXCEPT !.list = Select(@, DOMAIN dls.dl \ {k}), !.dl[k] = Closed(@)]
  /\ UNCHANGED <<item, held, reads, write, close, count>>

\* ... before countErrors.  The count stops where it makes no difference any more.
CountErrors(k) ==
  LET d == dls.dl[k]
      counted == [dls EXCEPT !.dl[k] = [Ended EXCEPT !.old = d.old]]
  IN /\ d.pc = "closed"
     /\ dls' = IF d.old THEN counted
               ELSE IF d.err # "none"
               THEN [counted EXCEPT !.errors = Smaller(@ + 1, MaxErrorCount + 1), !.lastErr = d.err]
               ELSE IF d.offset # 0 /\ dls.errors # 0
               THEN [counted EXCEPT !.errors = 0, !.lastErr = "none"]
               ELSE counted
     /\ UNCHANGED <<item, held, reads, write, close, count>>

Without(dl, k) == [n \in DOMAIN dl \ {k} |-> dl[n]]

\* The last kickWaiters of the goroutine, which ends.
LastKick(k) ==
  /\ dls.dl[k].pc = "last"
  /\ IF dls.dl[k].old
     THEN dls' = [dls EXCEPT !.dl = Without(@, k)] /\ UNCHANGED reads
     ELSE KickWaiters([dls EXCEPT !.dl = Without(@, k)])
  /\ UNCHANGED <<item, held, write, close, count>>

-----------------------------------------------------------------------------
(* Changes of the file *)

NoWrite == write = Empty /\ item.tail = Empty

\* WriteAt writes to the cache file without item.mu ...
WriteAt ==
  /\ NoWrite /\ close.pc = "open" /\ ~item.beingReset /\ item.fd
  /\ Counts(0, 1, 1)
  /\ \E r \in Puts :
       /\ write' = r
       /\ held' = held \cup Bytes(r)
       /\ item' = [item EXCEPT !.length = Larger(@, End(r))]
  /\ UNCHANGED <<reads, dls, close>>

\* ... marks the range afterwards ...
Marked(it, r) == [it EXCEPT !.rs = Insert(@, r)]

\* ... and then the gap before it, if it begins beyond the end of the file.
Gap(r) == Span(item.size, r.pos - item.size)
Extended(it, r) ==
  [it EXCEPT !.dirty = TRUE, !.tail = Empty, !.size = Larger(@, End(r)),
             !.rs = IF IsEmpty(Gap(r)) THEN @ ELSE Insert(@, Gap(r))]

\* In between _dirty gives item.mu up when it is the first change.
WriteMarks ==
  /\ write # Empty
  /\ IF item.dirty
     THEN item' = Extended(Marked(item, write), write) /\ held' = held \cup Bytes(Gap(write))
     ELSE item' = [Marked(item, write) EXCEPT !.tail = write] /\ UNCHANGED held
  /\ write' = Empty
  /\ UNCHANGED <<reads, dls, close, count>>

WriteExtends ==
  /\ item.tail # Empty
  /\ item' = Extended(item, item.tail)
  /\ held' = held \cup Bytes(Gap(item.tail))
  /\ UNCHANGED <<reads, dls, write, close, count>>

\* Truncate marks the range it adds as written, as a range that starts at the
\* old size and is as long as the new size.
Truncate ==
  /\ close.pc = "open" /\ ~item.beingReset /\ item.fd
  /\ Counts(0, 1, 1)
  /\ \E size \in Cuts :
       LET old == item.length
       IN /\ item' = [item EXCEPT !.size = size, !.length = size, !.kept = Smaller(@, size),
                        !.dirty = @ \/ size # old,
                        !.rs = IF size > old THEN Insert(@, Span(old, size))
                               ELSE IF size < old THEN Intersection(@, Span(0, size))
                               ELSE @]
          /\ held' = IF size > old THEN held \cup old .. size - 1 ELSE held \cap 0 .. size - 1
  /\ UNCHANGED <<reads, dls, write, close>>

-----------------------------------------------------------------------------
(* Reset by the cleaner, and the last Close *)

\* Mutant: the cleaner does not look for threads that use the file.
NotInUseUnchecked == TRUE

NotInUse == Accesses = {} /\ NoWrite

Reset ==
  /\ close.pc = "open" /\ ~item.dirty
  /\ NotInUse
  /\ item.rs # <<>> \/ item.beingReset
  /\ item' = [item EXCEPT !.beingReset = TRUE]
  /\ close' = [pc |-> "stop", reset |-> TRUE, todo |-> dls.list]
  /\ UNCHANGED <<held, reads, dls, write, count>>

\* Close of the last handle: a dirty file is fetched whole first.
Close ==
  LET size == item.length
      r == Span(0, Smaller(size, Size))
  IN /\ close.pc = "open" /\ ~item.beingReset /\ NoWrite
     /\ \A p \in Reader : reads[p].pc = "idle"
     /\ item' = [item EXCEPT !.size = size]
     /\ IF item.dirty /\ ~IsEmpty(r)
        THEN /\ reads' = [reads EXCEPT ![Closer] = [Idle EXCEPT !.pc = "ensure", !.ask = r, !.r = r,
                                                     !.present = Present(item.rs, r)]]
             /\ close' = [close EXCEPT !.pc = "fetch"]
        ELSE /\ close' = [pc |-> "stop", reset |-> FALSE, todo |-> dls.list]
             /\ UNCHANGED reads
     /\ UNCHANGED <<held, dls, write, count>>

\* What was missing is there, or Close returns an error and leaves the file as
\* it is.
CloseFetched ==
  /\ close.pc = "fetch" /\ reads[Closer].pc \in {"read", "failed"}
  /\ close' = IF reads[Closer].pc = "read" THEN [pc |-> "stop", reset |-> FALSE, todo |-> dls.list]
              ELSE [close EXCEPT !.pc = "failed"]
  /\ reads' = [reads EXCEPT ![Closer] = Idle]
  /\ UNCHANGED <<item, held, dls, write, count>>

\* Downloaders.Close stops one downloader after the other ...
StopNext ==
  LET k == Head(close.todo)
  IN /\ close.pc = "stop" /\ close.todo # <<>>
     /\ dls' = IF k \in DOMAIN dls.dl THEN [dls EXCEPT !.dl[k].stop = TRUE] ELSE dls
     /\ close' = [close EXCEPT !.pc = "join"]
     /\ UNCHANGED <<item, held, reads, write, count>>

\* Mutant: stopAndClose does not wait for the goroutine.
GoneUnchecked(k) == TRUE

Gone(k) == k \notin DOMAIN dls.dl

\* ... and waits for its goroutine.
Join ==
  /\ close.pc = "join"
  /\ Gone(Head(close.todo))
  /\ close' = [close EXCEPT !.pc = "stop", !.todo = Tail(@)]
  /\ UNCHANGED <<item, held, reads, dls, write, count>>

\* The end of Downloaders.Close: no waiter is left behind, and goroutines that
\* have closed themselves may still be about to end.
Stopped == close.pc = "stop" /\ close.todo = <<>>
Left == [k \in DOMAIN dls.dl |-> [dls.dl[k] EXCEPT !.old = TRUE]]
ReturnWaiters == reads' = [p \in Thread |-> IF reads[p].pc = "waiting" THEN Told(p, "none") ELSE reads[p]]

\* The rest of _actualClose.
CloseEnd ==
  /\ Stopped /\ ~close.reset
  /\ ReturnWaiters
  /\ dls' = New(FALSE, Left)
  /\ item' = [item EXCEPT !.fd = FALSE]
  /\ close' = [close EXCEPT !.pc = "closed"]
  /\ UNCHANGED <<held, write, count>>

\* The rest of Reset: the file is made anew, empty.
ResetEnd ==
  /\ Stopped /\ close.reset
  /\ ReturnWaiters
  /\ dls' = New(TRUE, Left)
  /\ item' = NewItem
  /\ held' = {}
  /\ close' = [pc |-> "open", reset |-> FALSE, todo |-> <<>>]
  /\ UNCHANGED <<write, count>>

\* The file cannot be made.  Out of space, it stays marked so that the cleaner
\* tries again.
ResetFails ==
  /\ Stopped /\ close.reset
  /\ Counts(0, 0, 1)
  /\ ReturnWaiters
  /\ dls' = New(FALSE, Left)
  /\ \E retry \in BOOLEAN :
       item' = [NewItem EXCEPT !.length = 0, !.kept = 0, !.beingReset = retry, !.fd = FALSE]
  /\ held' = {}
  /\ close' = [pc |-> "open", reset |-> FALSE, todo |-> <<>>]
  /\ UNCHANGED write

-----------------------------------------------------------------------------
(* Specification *)

\* What a downloader does by itself, and what may happen to it.
Runs(k) ==
  /\ k \in DOMAIN dls.dl
  /\ \/ Write(k) \/ Kick(k) \/ SourceEnds(k)
     \/ CloseDownloader(k) \/ CountErrors(k) \/ LastKick(k)

Breaks(k) ==
  /\ k \in DOMAIN dls.dl
  /\ WriteFails(k) \/ SourceFails(k) \/ SourceShort(k)

Closes == CloseFetched \/ StopNext \/ Join \/ CloseEnd \/ ResetEnd

Next ==
  \/ \E k \in DOMAIN dls.dl : Runs(k) \/ Breaks(k)
  \/ \E p \in Reader : ReadAt(p)
  \/ \E p \in Reader : Ensure(p) \/ ReadEnd(p) \/ Retry(p)
  \/ Ensure(Closer)
  \/ BackgroundKick
  \/ WriteAt \/ WriteMarks \/ WriteExtends \/ Truncate
  \/ Reset \/ Close \/ Closes \/ ResetFails

Spec == Init /\ [][Next]_vars

\* Where a downloader and a thread can go on.
At(k, pc) == k \in DOMAIN dls.dl /\ dls.dl[k].pc = pc
Ready(p) == reads[p].pc \in {"ensure", "read", "failed"} \/ (reads[p].pc = "retry" /\ ~item.beingReset)

\* The ticker would tell a waiter or start a downloader.
KickIsDue ==
  /\ dls.open
  /\ \E p \in SeqExt!ToSet(dls.waiters) :
       Arrived(p) \/ (dls.list = <<>> /\ ~IsEmpty(Missing(reads[p].r)))

\* Weak fairness: goroutines that can go on do, timers and the ticker fire, and
\* the cleaner comes back for a file it could not reset.  It is written out where
\* a step always leaves the place it is taken from, since ENABLED is costly.
FairSpec ==
  /\ Spec
  /\ \A k \in 1 .. MaxDownloaders : \A pc \in {"run", "kick", "end", "closed", "last"} : []<>~At(k, pc)
  /\ \A p \in Thread : []<>~Ready(p)
  /\ []<>~KickIsDue /\ []<>NoWrite
  /\ WF_vars(Closes)
  /\ WF_vars(item.beingReset /\ Reset)

-----------------------------------------------------------------------------
(* Properties *)

\* Type invariant.  A thread waits just when it is in the queue, once, and has
\* bytes to wait for; the downloaders in the list are those that may still write.
TypeOK ==
  /\ item \in [rs : Seq([pos : Nat, size : Nat \ {0}]), size : Nat, length : Nat,
               tail : [pos : Nat, size : Nat], kept : Nat, beingReset : BOOLEAN, dirty : BOOLEAN, fd : BOOLEAN]
  /\ held \subseteq Nat /\ write \in [pos : Nat, size : Nat]
  /\ reads \in [Thread -> [pc : {"idle", "ensure", "waiting", "read", "failed", "retry"},
                           ask : [pos : Nat, size : Nat], r : [pos : Nat, size : Int],
                           present : BOOLEAN, tries : Nat, err : {"none", "io", "nospace"}]]
  /\ \A p \in Thread : reads[p].pc \in {"ensure", "waiting"} => ~IsEmpty(reads[p].r)
  /\ dls \in [open : BOOLEAN, list : Seq(Nat), waiters : Seq(Thread), errors : Nat,
              lastErr : {"none", "io", "nospace"},
              dl : [DOMAIN dls.dl -> [pc : {"run", "kick", "end", "closed", "last"}, start : Nat, offset : Nat,
                                      max : Nat, skipped : Nat, stop : BOOLEAN,
                                      err : {"none", "io", "nospace"}, old : BOOLEAN]]]
  /\ DOMAIN dls.dl \subseteq Nat /\ IsFiniteSet(DOMAIN dls.dl)
  /\ SeqExt!ToSet(dls.waiters) = {p \in Thread : reads[p].pc = "waiting"}
  /\ \A i, j \in DOMAIN dls.waiters : i # j => dls.waiters[i] # dls.waiters[j]
  /\ SeqExt!ToSet(dls.list) = {k \in DOMAIN dls.dl : dls.dl[k].pc \notin {"closed", "last"}}
  /\ \A k \in DOMAIN dls.dl : dls.dl[k].start <= dls.dl[k].offset
  /\ close \in [pc : {"open", "fetch", "stop", "join", "closed", "failed"}, reset : BOOLEAN,
                todo : Seq(Nat)]

\* The ranges are sorted and coalesced, nothing that was written is missing from
\* them, except what a WriteAt has not marked yet, and Present and FindMissing
\* answer as the set of positions does.
RangesExact ==
  /\ Canonical(item.rs)
  /\ held \ Bytes(write) \subseteq Positions(item.rs)
  /\ QueriesExact(item.rs, Positions(item.rs), Size)

\* The comment on Ranges.FindMissing: "If r is not present in rs then the block
\* returned will have IsEmpty return true", here of a file that has some bytes.
AbsentIsEmpty ==
  \A pos \in 0 .. Size : \A last \in pos .. Size :
    LET r == Span(pos, last - pos + 1)
    IN item.rs # <<>> /\ Bytes(r) \cap Positions(item.rs) = {} => IsEmpty(FindMissing(item.rs, r))

\* Where the bytes of the remote object are still due, what the ranges say is
\* present has been written to the file, and a read that was told that its bytes
\* are there finds them: nobody takes them away between the answer and the read,
\* and nobody is told so because the file was short for a while or a download
\* failed.  (Beyond the first cut a hole reads as the zeros it should.)
ReadsNoHole ==
  LET due == 0 .. item.kept - 1
  IN /\ Positions(item.rs) \cap due \subseteq held
     /\ \A p \in Thread : reads[p].pc = "read" => Bytes(reads[p].ask) \cap due \subseteq held

\* When Close has returned no downloader can write any more.
ClosedIsStill ==
  close.pc = "closed" => \A k \in DOMAIN dls.dl : dls.dl[k].pc \in {"closed", "last"}

\* While a write has not been marked nobody else writes to its bytes.
WritesSurvive ==
  [][write' = write => Positions(item'.rs) \cap Bytes(write) \subseteq Positions(item.rs)]_vars

\* Every read returns, with bytes or an error, however often downloads fail.
ReadsReturn == \A p \in Reader : reads[p].pc # "idle" ~> reads[p].pc = "idle"

\* Close returns, with the file closed or an error, and so does Reset.
CloseReturns == close.pc # "open" ~> close.pc \in {"open", "closed", "failed"}

=============================================================================
