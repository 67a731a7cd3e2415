# Verification of zClone

TLA+ specifications of the parts of zClone in which several goroutines, processes or machines
work on the same files, the TLC configurations that check them, and proofs that TLAPS checks.
`PROJECT.json` lists components, runs, mutants, the source lines behind every definition,
findings, hazards and theorems.

To repeat a run: `tlc -workers 2 -config MCSync.cfg MCSync`. To repeat the proofs: `tlapm M.tla`
for each module whose name ends in `Proofs`.

## 1. The system

zClone copies files between storage services. It is a Go program with one helper in Python.

| Part | State it keeps | Operations | What is hard | What makes it correct |
|---|---|---|---|---|
| Recovery helper, `bin/zclone-recover.py` | journal file, staging directory, objects on the remote, output image | `upload`, `restore` | crashes between any two steps, a second process, corrupted or late transfers, a source that changes or fails | a rerun always gets on; what is called verified is stored; what is restored is one version of the source |
| Sync engine, `fs/sync` | three pipes, the goroutines of each stage, files to delete, three errors, two contexts | `run`, the callbacks of the march, checker, renamer, transfer, deleters | stages that feed each other and have to stop in order; limits, deadlines, cancellation, failed listings | success means that the trees agree; nothing is deleted or lost that should not be; it returns |
| March, `fs/march` | jobs, two sorted listings for each directory | list, merge, recurse | a listing that fails looks like an empty directory | every name is called back for once, with the right callback |
| Operations, `fs/operations` | the objects at both sides | copy, move, delete, backup | failure half way | the old or the new content survives |
| Writeback queue, `vfs/vfscache/writeback` | heap, lookup map, timer, running uploads | `Add`, `Remove`, `Rename`, `SetExpiry`, `processItems`, `upload` | waits inside calls that give the lock up, retries, wakeups | nothing is forgotten, uploads are bounded, the queue drains |
| Cache items, `vfs/vfscache/item.go` | cached file, `Dirty` and `modified`, handles, ranges present | open, read, write, close, store, reload, reset | an upload that ends while the file is written to; restarts | what was closed reaches the remote or is found by the next start |
| Downloaders and ranges, `vfs/vfscache/downloaders`, `lib/ranges` | downloaders, waiters, count of errors, set of ranges | download, skip, restart, kick, close | waiters whose downloader fails or whose bytes go away; closing while goroutines write | a reader gets its range or an error; the ranges say what is in the file; nothing writes after close |
| Read handle, `vfs/read.go`, over the account and `fs/asyncreader` | offset, open source, goroutine that reads ahead, buffers, tokens | `ReadAt`, seek, skip, reopen, `Close` | calls out of sequence, retries half way, stopping a goroutine that waits | the bytes of the file at the offset, or an error; the memory comes back |
| VFS tree, `vfs` | directories, files, handles, pending renames | open, rename, remove, truncate | renames of open files | the tree agrees with the remote after a refresh |
| Batcher, `lib/batcher` | bounded channel, batch, response channels, admission lock | `Commit`, the loop, `Shutdown` | shutdown racing commits | every accepted item is committed once and answered once |
| Jobs, `fs/rc/jobs` | map of jobs, listeners, expiry timer | start, finish, stop, expire | finishing while being listened to, stopped or expired | a listener is called once; a running job does not expire |
| Pool, `lib/pool` | cached buffers, counters, memory semaphore, flusher | `GetN`, `Put`, flush | an allocation that fails half way; memory that several users share | counters agree with who holds what; memory goes back to the system |
| Pacer, token bucket, `lib/cache` | tokens, entries | call/retry, pin/expire | limits that several users share | nothing leaks, nobody waits for ever |
| Bisync, `cmd/bisync` | lock file, two listings | run, recover, resync | interrupted runs, two runs at once | no deletion is inferred from a run that failed |
| Backends, commands, mount and serve front ends, configuration, filters | – | – | external services and libraries | outcomes are left open in the models |

How they interact: a mount turns system calls into VFS operations on cache items; closing a
dirty item adds it to the writeback queue, whose uploads call `operations.Copy`; sync, copy and
move start a march whose callbacks fill the pipes, and its workers call `fs/operations`, which
calls a backend; some backends hand finished uploads to a batcher, whose `Shutdown` runs at
exit. A read of a cached file that is not all there waits for a downloader, which, like a read handle
without the cache, reads through an account and an asynchronous reader whose buffers are the pool's.
The recovery helper starts `zclone copyto` and `zclone cat` as child processes.
Locks (`wb.mu`, `item.mu`, `dls.mu`, `fh.mu`, `admitMu`, the flock on the journal), bounded channels (pipes,
deleters, batcher, buffers and tokens of a reader), the memory semaphore and contexts are the only synchronisation.

## 2. Modules

| Module | Models | Runs |
|---|---|---|
| `Recover` | upload half of the helper with journal, staging, remote and source | `recover` |
| `RecoverRestore` | extends `Recover`: restorers on another machine | `recover`, `restore` |
| `RecoverProofs` | theorems about `Recover` | – |
| `RecoverRestoreProofs` | theorems about `RecoverRestore`, over those | – |
| `Sync` | a run of sync, copy or move with its march, pipes, stages and deleters | `sync`, `sync_live`, `sync_during` |
| `SyncProofs` | theorems about `Sync` | – |
| `WriteBack` | the queue of uploads | `writeback` |
| `WriteBackCache` | extends `WriteBack`: cached files above the queue | `cache`, `cache_rename` |
| `WriteBackProofs` | theorems about `WriteBack` and, over them, about `WriteBackCache` | – |
| `Batcher` | commits, loop and shutdown | `batcher` |
| `BatcherProofs` | theorems about `Batcher` | – |
| `Ranges` | the set of ranges as pure operators, with the reference definition | `downloads` |
| `Downloaders` | extends `Ranges`: a cached file that is read, written, truncated, reset and closed while it is downloaded | `downloads` |
| `RangesProofs` | theorems about the operators of `Ranges`, and what a fold computes | – |
| `DownloadersProofs` | theorems about `Downloaders`, over those | – |
| `Pool` | buffers, memory semaphore, flusher | `handle`, `handle_memory` |
| `AsyncReader` | extends `Pool`: the reader that reads ahead | `handle`, `handle_memory` |
| `ReadHandle` | extends `AsyncReader`: a read handle, with another client of the pool | `handle`, `handle_memory` |
| `FileRead` | abstract: what reading from a file promises; `ReadHandle` implements it | `handle` |
| `ReadHandleProofs` | the proof that `ReadHandle` implements `FileRead`, and a theorem about the memory of `Pool` | – |
| `MC...` | instances of the above: images, option sets, symmetries | – |

### Recover and RecoverRestore

A process runs `upload()` as a program counter with its local variables; each system call,
each journal line and each transfer is a step, so that a kill or a power loss may come between
any two. `journal`, `durable` and `torn` are the file: complete lines, how many of them are
fsynced, and whether half a line follows. `Write` leaves a line that is not durable, `Fsync`
makes it so, `PowerLoss` keeps any number of the lines after the durable ones, `Open` cuts a
torn line off (`CutTorn`); a line written behind one that is still there would become part of it (`Garbled`), and
no later run could read the journal. Killing a process orphans the upload it had started (`Kill`, `OrphanEnds`).
`Transfer` may store other bytes than were sent, with success reported (`Damaged`), and so may an orphan, at any later
time (`Spoilt`). To the program the two are the same; they have different names because a chunk that was verified
before an orphan spoilt it is not looked at again, which `Secured` has to except. `SourceWrite` is somebody
who writes to the image being recovered. SHA-256 is the bytes it is taken of and gzip the bytes it
compresses, so equal digests mean equal bytes; that is an assumption.

A restorer reads a manifest, checks its layout, appends verified chunks to a temporary file and
publishes it by `link`, which fails when the name exists. Temporary files of killed restorers
stay behind (`litter`), the directory entry is durable only after `SyncDir`, objects may rot after they were
verified and another program may create the output (`OutputTaken`).

### Sync

`opt` is the combination of options a run has; `Options` says which may occur. The march has a
job for each directory: `List` lists both sides, `SrcOnly`, `Match` and `DstOnly` are the
callbacks, one for each name, and `JobDone` returns the error of a listing only then. A pipe is a
set of pairs and a number of tokens: `Put` adds the pair and blocks its caller until `Sent`
finds room in the channel or `Unsent` sees the context done; a reader takes a token and a pair. Goroutines of
the stages exit when the context is done or the pipe is closed and drained. `Marched`,
`Checked`, `Renamed`, `TransfersDone` and `DeletersDone` are the order in which `run` closes the
pipes and waits. `Report` is `processError` with its three classes of errors and two contexts:
`ctx`, which the transfers use, and its child `inCtx`, which the march and the pipes use.
`SecondPass` is the second `syncCopyMove` of `--delete-before`.

A move that the server does not make is two steps, `TransferCopied` and then the deletion of the source, which can fail
or never come. `NeedTransfer` says when a file that both sides have may be copied and `NoNeed` when it may be skipped, with
`--ignore-existing`, `--ignore-times` and `--update`; `Skipped` are the files that the first and the last of these may leave different.

Abstractions: a file is a name and a content, which is what `Equal` compares; whether the destination is newer, and
what a comparison by size says of it, is left open under `--update`. Taking a token and
taking the pair are one step, for under `--order-by` any pair may be next. A check, which nobody
else can disturb, is one step; a transfer is two. What a failed transfer leaves at the
destination is chosen from what `operations.move` and `copy` may leave. A listing that fails
delivers nothing. The names of a directory are called back for in any order: the merge of the two sorted listings is not
translated (plan, item 1). Nor is the early end of the destination's listing in a copy or a move (`march.go:337`): what it
leaves out would only be passed to a `DstOnly` that does nothing. The caller cancels only a context that is live. Not in the model: directories as objects (times,
metadata, removal when empty), `--compare-dest`, `--copy-dest`, `--fix-case`,
updates of the time of a file that is otherwise the same, objects that cannot be stored, and the accounting of queue sizes.

### WriteBack and WriteBackCache

`wb.mu` is held except in `_cancelUpload`, which waits for the upload's done channel, and while
an upload runs. So a call is one action, or two around a wait (`AddResume`, `RemoveResume`,
`RenameResume`, `ClashResume`); in between, `ReadDone` reads the channel that the item has
*then*, which may be that of a later upload. Items are never reused: `items` keeps all of them
and `lookup` says which one a handle finds. Time is relative to now: `Tick` lowers every
expiry and the timer.

In `WriteBackCache` the version of a file is its number of writes. A thread opens, writes and
closes; a first write gives `item.mu` up to take the file off the queue (`DirtyFirst`, `Unqueue`,
`MarkDirty`), and `WriteAt` itself does not hold it. An upload reads a version (`CopyRead`), puts
it on the remote (`CopyDone`), clears `Dirty` (`StoreClean`) and returns.

`dirty` is in memory and `meta` is what the file of metadata says. `_save` truncates that file and then writes it, so its
failure, which is only logged in most places, leaves the old metadata or none that can be read (`TrySave`, `unsaved`), and a process that
dies in the middle leaves it torn. `Crash` loses everything but the cached files and the metadata; the metadata of any file may be torn then,
because `Open`, `Sync`, `SetModTime`, `Close`, a first change and the end of an upload all write it.
At the next start `newItem` removes the cached file whose metadata it cannot read, and `reload` queues the dirty ones. Two paths of the code leave a dirty file out of the queue, and
`skipped` has the files that took them: an empty file that the remote refuses (`StoreEmpty`) and a close that cannot
fetch missing parts (`CloseFails`), after which the file is still open and the next `Open` fails and removes it (`OpenFails`, `Discard`, `Discarded`). What was removed in one of these ways is
no longer promised (`saved`). `Faults` says which of these happen in an instance.

`overtaken` becomes true when time passes while a caller that waited for an upload has not got the lock yet although the upload is over (`Prompt` is false), so that the
write-back delay (5 s by default) may run out first. `ClosedSurvives` and `DirtyIsQueued` speak about behaviours in which this has not happened; what happens otherwise
is in section 5. Not modelled: the upload that `_actualClose` makes itself when there is no write-back delay, and metadata that cannot be written
during the `Open` that `reload` makes.

### Batcher

`in` is the bounded channel, `mu` the admission lock, which both `Commit` and `Shutdown` keep
while they send. `CommitBatch` is the backend, which answers for each item or fails as a whole, and fixes who is to be
told what; the answers are then sent one by one (`Tell`) to response channels that have room for one, from which the clients receive
on their own, and `CommitEnds` is the return of `commitBatch`. `Signalled` keeps the deferred function from telling a client a second time.

### Ranges and Downloaders

`Ranges` translates the operations of `lib/ranges` one by one; `Positions`, `Canonical` and
`QueriesExact` are the reference, sets of positions. The loops of the code are folds (`AbsorbAll` the one of `coalesce`,
`NextParts` that of `FindAll`, `InsertAllPresent` that of `Intersection`; in `Downloaders` `PutParts` that of `WriteAtNoOverwrite` and
`EnsureEach` that of `kickWaiters`), so that they can be reasoned about. `Downloaders` is one open file. `item` is the
`Item` (ranges, size, the length of the cache file, `beingReset`). Two things are kept that the code does not know: `held`, the positions that really
have been written to the cache file since it was made, and `item.kept`, how many of the first bytes of the remote object no truncate
has cut off. A read is
`ReadAt` up to the unlock in `_ensure`, `Ensure` (which makes it a waiter or not), and after it
was told, `ReadEnd`, with `Retry` when the cache is out of space. A downloader is a goroutine:
`Write` of a few bytes with its deferred `Kick`, the end or failure of the source,
`CloseDownloader`, the count of errors (`CountErrors`), `LastKick`. A write of the file by a thread is three steps: `WriteAt` writes
without the lock, `WriteMarks` marks the range, and, where `_dirty` gave the lock up for a first change, `WriteExtends` looks at
the size and marks the gap before it; a truncate, a read and downloads may come in between. `dls.mu` is held by each of these steps, so `KickWaiters`
and `EnsureDownloader` are operators on the whole structure. Reset and the last close share
`StopNext` and `Join`, which stop one goroutine after the other with both locks released.

Abstractions: the size of the remote object is fixed and known. A new downloader can be opened: opening makes no request, it only seeks, and
that fails for an object of unknown size or an offset at or beyond its end (`chunkedreader/sequential.go:155`), which takes a gap that a truncate has left there
unmarked; here such a downloader has a source that can only end or fail. An error of the first read is `SourceFails`. A downloader that is idle at its limit may
write on at any time, which stops it: that is the idle timer (5 s), a kick only comes earlier. A
closed downloader leaves the list at once, since everybody who looks at the list removes closed ones first. Goroutines
that have only their last kick to give when the file is closed are kept, marked `old`. Readers return
before the file is closed. A close may fail, and `CloseReturns` counts that as a return: that the cached file is then
lost is not its business (see the hazards). One open session: a close that fails ends the behaviour at `"failed"`. A rename, which closes the
downloaders under readers, is left out.

### Pool, AsyncReader, ReadHandle and FileRead

Memory is counted in buffers. A call of `GetN` acquires from the semaphore (a queue in order, as
in the library), then takes cached buffers and allocates, or fails, gives all back and sleeps. The
content of the file at position i is i, so that data that was read says where it came from.
The goroutine takes a token, gets a buffer, fills it and sends it; the first buffers are shorter,
as in the code. `fh.mu` is `owner`: one call of `ReadAt` goes through its stages (open, seek,
skip, abandon, range or reopen, full) while the goroutine and the other client run; only `Wait`
gives the lock up. Every turn of the loops of `SkipBytes` and `io.ReadFull` is a step.

`FileRead` has two steps for each call: it is made, and it returns all the bytes from its offset
to its end or the end of the file, or fails, having delivered a part, if the source has failed
since it was made. `File == INSTANCE FileRead WITH failures <- faults` and `ReadsFile == File!Spec`:
skipping, reading ahead, abandoning, reopening and waiting all are stutters.

Assumptions: the file is larger than one buffer, so that it is buffered, its size is known and does not change, the source can seek (`noSeek` is not set, `read.go:117`, so there is no
`ESPIPE`), writing to the running hash (`read.go:331`), which is arithmetic in memory, does not fail, and
threads have returned from `ReadAt` before the handle is closed (see section 5 for what happens otherwise). `Put` of several
buffers is one step.

## 3. Runs

Every run with `pass` explores its whole state space. Sizes are distinct states.

| Run | Size | Instance | Shows |
|---|---|---|---|
| `recover` | 287k | two uploaders, one restorer, three units in chunks of two, two versions of a regular file, two faults, staging on disk | one writer; a journal that any rerun accepts; verified chunks are stored; journaled bytes survive; accepted chunks are of the snapshot; announced manifests cover the image and their chunks are stored, unless a power loss took the unsynced line that says so or an orphan spoilt the chunk later; staging is clean at the end; rerun after failures, both commands complete if the source stays as it is |
| `restore` | 1.5M | one uploader staging in RAM, two chunk sizes, two restorers to one path, rotting objects | what is published is a version of the source and is never replaced |
| `sync` | 2.6M | two files in two directories, two contents, two checkers, one renamer, one transfer, backlog one, ten combinations of options, one failure of ten kinds besides deadlines | see the properties below |
| `sync_live` | 141k | one goroutine for each stage, three combinations of options | the run returns |
| `writeback` | 525k | two handles, one name, two threads, three calls, one failed upload, one cancellation, one transfer | counters, nothing forgotten, no lost wakeup; calls return, the queue drains |
| `cache` | 1.5M | one file, two threads, three writes, three opens, one crash, one failed upload, torn or unwritten metadata, parts that cannot be fetched, refused empty files | what was closed is on the remote or marked dirty; what is dirty is queued, but for the two paths above |
| `batcher` | 137k | four items, two shutdowns, batches of two, both modes | once and answered once, flushed at exit, everybody returns |
| `downloads` | 687k | two readers of one byte each of a file of two, two goroutines at a time, one of: write, truncation, reset that fails, full disk, object that ends early; any number of resets that succeed and of failed downloads | the ranges are exact, no read meets a hole where bytes of the object are due, nothing writes after close, reads, resets and closes return |
| `handle` | 311k | a file of four bytes, two buffers of two, memory for three, two threads, two calls, another client, two failures of the source or of allocations, one retry | `ReadHandle` implements `FileRead`, calls return, counters agree, memory is freed |
| `handle_memory` | – | the same with memory for two | violation, finding 3 |
| `sync_during` | – | one failed listing of the source | violation, finding 1 |
| `cache_rename` | – | one file that is also renamed | violation, finding 2 |

The properties of `sync`: `PipesSafe`, no pipe is written after it was closed and a token always
has its pair; `Synced`, a run that was not cancelled and reports success has made the trees
alike but for what `--ignore-existing` and `--update` skip, so no pair is stuck in a stage that was stopped too early; `DeletesOnlyAbsent` and
`DeletesLast`, what `--delete-after` may delete and when; `NothingLost`, the content of a moved
file is always on one side, unless `--update` has found a newer one; `BackedUp`, `--backup-dir` keeps what was at the destination if that
could be listed, or `--track-renames`, which one of the combinations adds to it, has given it another name.

Bounds. Three units in chunks of two give a full and a short last chunk, and in
`restore`, where a chunk of three is read in blocks of two, the source is written to between two reads of one chunk. Two processes are enough for every race on the flock,
since the third would meet the same lock. A backlog of one makes every producer block; two
directories and two checkers let two listings interleave, one of them failing; two files are a
rename from one to the other. Two handles let `Rename` meet another item of the
same name, three calls let two threads wait for one upload while a third call starts. Four
items fill one batch, begin another and fill the channel while `Shutdown` wants to send.
Two bytes and reads of one let a downloader be ahead of, at, or behind each waiter, and be reused or not;
a write replaces the last byte and adds another, a truncation shortens the file or makes it longer, one for each behaviour:
it interleaves with every step of the reads and downloads, but two changes, or a change and a full disk, do not meet in this run, and no write leaves a gap (`RangesStayExact`, `ClosedStaysStill` and `ReadsFindTheirBytes` are for any number). Failed downloads have no bound: the count of errors in the code ends them. The requests of
`handle` are at the start, further on, across the end and beyond it; two buffers of up to two bytes, the first
of one, make a skip cross a buffer and a seek fall outside. Counters of failures, calls, writes, opens
and crashes are constants whose names begin with `Max`; liveness is checked with the bounds of
the run, after which no more failures happen. Every property has a mutant of the
code, named in `PROJECT.json`, that TLC refutes under the same configuration.

Deadlock is checked except where a system may stop because its bounded callers have no more to
do (`WriteBack`, `WriteBackCache`, `Batcher`, `Downloaders`, `ReadHandle`) and in `sync_live`, whose property is stronger.
Symmetry is used for interchangeable threads, names, goroutines, contents and restorers, and only in
runs without liveness properties.

Fairness. Weak fairness of each goroutine's own steps, because the Go scheduler runs every
runnable goroutine, timers fire and calls of a backend end (they have timeouts). In
`recover` also of starting the commands: the operator reruns them, as `recovery.md` says. `Downloaders` writes most of it out as
"infinitely often not at this place", which is weak fairness where every step leaves the place it is taken from
(a kick that would pass `MaxDownloaders` is supposed to get its turn when another goroutine has ended),
and the ticker is fair only where its kick would do something.
In `ReadHandle` the other client returns what it took. There is no fairness
for failures of any kind, cancellations, resets by the cleaner (other than repeating one that failed), deadlines, new calls, writes to the source or `Shutdown`.

## 4. Proofs

Every theorem holds for every value of the constants under the assumption that its specification names: for `Recover` every image,
chunk size, block size, number of processes and of faults; for `Sync` every set of files and directories, every set of options,
backlog, number of goroutines and of failures; for `WriteBack` and `Batcher` every number of handles, threads, items, calls and transfers; for `ReadHandle` every
file, set of requests, number of threads, retries and failures, size and number of buffers, limit of memory and demand of the other client;
for `Downloaders` every size of the object, every set of reads, writes and truncates, every window, chunk, read-ahead and limit of errors, and any number of readers, goroutines and
events.
`SyncAssumption` asks for at least one checker, renamer and transfer, which the configuration guarantees
(`nonZero`, `fs/config.go:749`), and for disjoint, finite sets of goroutines.

| Module | Theorems (the invariant or property each states) | Inductive invariant |
|---|---|---|
| `RecoverProofs` | `Typed` (`TypeOK`), `OneWriter` (`SingleWriter`), `VerifiedStays` (`VerifiedIsStored`), `AlwaysResumable` (`Resumable`), `JournalTrue` (`JournalIsSnapshot`), `StagingCleaned` (`StagingIsClean`), `BytesKept` (`BytesSurvive`), `AnnouncementsHold` (`ReportedIsComplete`) | `CInv`, `SInv`, `JInv`, `StInv`, `RepInv` |
| `RecoverRestoreProofs` | `RestoredImage` (`RestoredIsSnapshot`), `OutputKept` (`NeverReplaced`), `RestorerTyped` (`RTypeOK`) | with `RInv` |
| `SyncProofs` | `SyncTyped` (`TypeOK`), `OnlyAbsentAreDeleted` (`DeletesOnlyAbsent`), `PipesAreSafe` (`PipesSafe`), `NothingIsLost` (`NothingLost`), `BackupsAreKept` (`BackedUp`), `SuccessMeansSynced` (`Synced`), `DeletesComeLast` (`DeletesLast`) | `DInv`, `PInv`, `QInv`, `LInv` and `BInv` over it, and `EInv` over `LInv` |
| `WriteBackProofs` | `QueueTyped` (`TypeOK`), `UploadsAreCounted` (`UploadsCounted`), `NothingForgotten` (`NoneForgotten`), `QueueAwake` (`Awake`); of `WriteBackCache`: `CacheTyped` (`CacheTypeOK`), `ClosedIsNeverLost` (`ClosedSurvives`), `DirtyStaysQueued` (`DirtyIsQueued`), `ChannelClosedOnce` (no second `close` of a done channel), all four until a thread is overtaken | `IInv`, `CInv` over it, and `OInv` |
| `BatcherProofs` | `BatcherTyped` (`TypeOK`), `ItemsOncePlaced` (`OncePlaced`), `ClientsOwnAnswer` (`OwnAnswer`), `ShutdownFlushes` (`FlushedAtExit`) | `IInv` |
| `ReadHandleProofs` | `ReadImplementsFile` (`ReadsFile`, a refinement), `MemoryIsCounted` (`MemoryCounted`) | `HInv`, `MInv` |
| `RangesProofs` | `InsertExact`, `QueriesAreExact`, `FindAllExact`, `IntersectionExact` (what the operations compute, as sets of positions) | – |
| `DownloadersProofs` | `DownloadersTyped` (`TypeOK`), `RangesStayExact` (`RangesExact`), `ClosedStaysStill` (`ClosedIsStill`), `ReadsFindTheirBytes` (`ReadsNoHole`) | `DownInv`, and `HoleInv` over it |

None of the properties is inductive as it stands. What each needs, and why:

**Recover, stored chunks.** `CInv` is the type invariant, the single writer, `Uncut` (no torn line is in the journal while a process works on it, so what it writes is a line of its own), `Shape` (the header is the first line, the lines of
a chunk agree on the chunk and their states go up, so a prefix that a power loss leaves has the same shape) and `Knows` (at each place of `upload()`, what the
process knows of the journal: a chunk being uploaded is not verified). `SInv` adds `Honest` (an orphaned upload of a chunk was given the
bytes its name was made from) and `ReadBack` (the object has been seen intact when `verified` is about to be written). The argument:
the only steps that change the remote are transfers of the chunk at hand, which is not verified, and orphans, which under a verified chunk's name
store the verified bytes or, if they arrive corrupted, `Spoilt`, the exception that `Secured` makes; the only step that adds a `verified` line has just read the object.

**Recover, journal.** `JInv`: the header is of this world (`Headed`); a line comes after the `verified` lines of all chunks before its own (`InOrder`); a replay meets no
illegal transition; a chunk lies where its index and the header's chunk size put it (`Laid`) and has the bytes of the session's version. At each place of `upload()` the chunks before the one at
hand are verified (`Placed`), and what `prepare()` has read is from the session's version unless the image has another one by now, which `identity()` will tell (`Buffered`). All that is said of
the journal is closed under prefixes, which is what a power loss and a torn line need; contiguity follows from the place of each chunk, without induction over the chunks.

**Recover, staging and announcements.** `StInv`: a file in the staging directory, whole or half written, is of a chunk of the image (`Sensible`), and of the session at hand only
the current chunk and later ones have files, with the current one's at the places where it must be (`Tidy`). `RepInv` (`Announced`): an announced manifest covers the image; while its session is the
journal's, the header is durable or all its chunks are verified, so that a rerun keeps the session; a session that is over has all its chunks on the remote for good.

**Restore.** `RInv`: every manifest on the remote or on its way is damaged or good, that is, one that the uploader made of verified chunks (`GoodStored`); the temporary file of a restorer is the beginning of the
image of the manifest's version (`Restoring`); a file gets the name of the output when it is synced (`OutputSafe`). That the output is never replaced is an action property and
follows from `link`.

**Sync.** The centre is `OnePlace` in `PInv`: a file is at most at one place of the run (a name not called back for, `renameCheck`, one of the pipes, a
transfer, to be deleted), so no two goroutines ever work on the same file. With it, `Opened` and `Manned` (which pipe is open and who has exited at each stage of `run`) and
`Counts` (tokens and blocked producers do not exceed the pairs) give `PipesSafe`. `QInv` adds to it what the march and the checkers find at the destination: `Present` (what is to be checked or deleted is there) and
`Originals` (what is yet to be compared is as it was, so that a file which `--update` or `--ignore-existing` skips still is). `LInv` adds `Tagged` (pairs carry the source's object where the code says so) and `SrcKept`
(the source still has a file unless it was moved, or deleted for a newer one, and is nowhere in the run). `BInv` adds `Backups`: until its check or its
deletion a file of the destination is untouched, and afterwards its old content is in the backup. `DInv` is about errors
instead: `Sound` says that what a failed listing leaves in `jobErr` becomes an error of the run, or a context that is done, when the march is over, `Absentees` that only a failed listing
lets a name of the source into `dstFiles`, and `Condemned` that nothing of it reaches the deleters. Each action changes few places, so most actions go through
the lemmas about what a step leaves alone (`Foot...`, `Staying`, `Going`, `Elsewhere`).

**Sync, success.** While no context is done a goroutine ends only when its pipe is closed and drained, so a file that is at no place of the run any more has been dealt with. In `EInv`,
`Spent` says the first part (a directory that is done has no name left, a stage that has exited has a drained pipe), `Covers` that every pair has a token or a producer that waits, so
that a drained pipe has no pairs either (`Emptied`); `Settled` that a source file at no place has been copied or skipped, `Purged` that one the source does not have is yet to be deleted or gone, `Spared` that a
copy leaves it alone and that the second pass of `--delete-before` finds it gone. `Known`, `Hard` and `Deletion` see to it that what goes wrong shows in the errors that `run` looks at, and `Ended` that
nobody is left who could report one afterwards. `Finished` carries what `Settled` says at the moment `--delete-after` begins through the errors that the deleting itself may meet.

**WriteBack.** `GorosOK`: an item is started again with a new generation, so no two running uploads are the same and none is younger than its item; `Found`: what a handle finds is its own item,
on the heap or being uploaded; `Timed`: the timer has fired only while a `processItems` that it started waits for the lock. With these the three properties are inductive, for any number of callers that wait for
one upload.

**WriteBackCache.** The four theorems are about `CacheSpec`, for any number of files, threads, transfers and crashes and every set of `Faults`. They hold until a thread is overtaken: `OInv` is `overtaken \/ (CInv /\ MetaOK /\ Gone)`.
`MetaOK` relates the metadata to the item, except for the files in `unsaved`; `Gone` says that a file which a failing `Open` removes is off the queue. `CInv` has the queue's own `IInv` in it and adds: `LiveOK`, an item on the heap or being uploaded is the one its handle
finds and is never both, and it has one upload, whose done channel is open (this is what two transfers and a late `Rename` break in `WriteBack` alone, see below); `WaitOK`, the only calls
that wait for an upload are the `Remove`s of first changes and of failing opens, and the item that one waits for is not started again before it has the lock, which is where `Prompt` is used, since a `Tick` without it sets `overtaken`; `ThreadsOK` and `OpenOK`,
at most one thread is about to close a file, or to take it off the queue, and a file has a descriptor while a thread has it open; `OffQueue`, a file that has been
modified since it was opened is not in the queue, except while a thread is just taking it off or putting it on; `StoresOK`, an upload carries what is due (`Due`, the version that the last close left) as long as
nobody has changed the file since; and `Kept`, the remote has what is due or the file is dirty, and a dirty file that nobody has open is in the queue or in `skipped`. A successful upload clears `Dirty` only of what it carried, because
a first change waits for the upload's end before it writes. A crash keeps `cached`, `meta` and `saved` but for the files whose metadata is torn or could not be written; the reload queues the dirty files in some order, each once (`ReloadOrder`), which gives `CInv` back.

**Batcher.** `Placed`: an item is in the channel or the batch exactly from when it is accepted until the backend has had it; `Distinct`: at one place only; `QuitIsLast`: nothing is sent after the quit request, and
the loop leaves only when it has taken it; `LockHeld` and `OneShutdown`: who may send; `BatchAt`: the length of the batch at each place of the loop; `Told`: an answer that is yet to be sent, waits in its channel or was received is the outcome of its own item.

**ReadHandle, refinement.** `RInv` is about the reader: each buffer begins where the one before it ends, within the file (`Linked`), and nothing comes after an error (`Ends`). `At` is the position of
the next byte that `Read` or `SkipBytes` will find; the goroutine never moves it (`FillerKeeps`). `Placed` relates it to the handle: it is the handle's offset between calls, the offset less what is yet to be skipped during a skip, and
the offset plus what `p` holds while `ReadFull` runs, unless the reader is dead, in which case nothing will come from it and the attempt fails. `Right`: `p` holds the file from the offset of the call. With these a
call that returns without failure returns `Content`. That it fails only after a failure is `Blame`: if nothing has failed since the call was made, then the reader that a retry made has met no failure (`Fresh`), so an
end that it reports is the end of the file. A call gives up only after at least one retry, which `Retries >= 1` (`--low-level-retries`, `nonZero` again) ensures.
One lemma per action shows both that `HInv` is kept and that the step is one of `FileRead` or a stutter.

**ReadHandle, memory.** `PoolOK` relates the counters of the pool (`alloced = cache + inUse`; what is `used` of the semaphore is what is in use or acquired and not taken yet) and says that the queue holds exactly the clients that wait;
`Holders` that what is in use is with the reader, with the goroutine or with the other client, and that a reader is made only where the one before it holds nothing (`Vacant`), which is
what `New` in `RangeSeek` needs. The queue has two clients at most, so what it demands (`Demand`, a recursive function) is computed for queues of up to two calls (`DemandFacts`), without induction.

**Ranges.** The theorems are about every sequence of ranges. A fold of the community modules is a `CHOOSE` of a function on sets of indices; `FoldOnExists` shows that there is one
and a lemma for each fold (`AbsorbFold` and the like) turns it into a sequence of intermediate results, from which the facts follow by going up the indices (`Induct`, which rests on the least element of a set of
naturals, so that no induction theorem with an operator parameter is needed). `InsertExact` follows from what absorbing one range does to the last one before it; `FindAllExact` from `Find`, which
returns the first part and leaves a rest that begins where it ends; the bound on the number of parts is part of it, so that the fold is the loop of the code.

**Downloaders.** `DownInv` has the types in parts (`ItemOK`, `DlsOK`, `ReadsOK`: the waiters are just the threads that wait, the list is just the goroutines that may write) and two relations to the close that is
under way: `Quiet`, what the threads may be doing meanwhile (nobody reads when a file is closed; while it is reset a reader at most sleeps before a retry), and `Stopping`, every goroutine that may still write is yet to be
waited for. `Quiet` is what keeps `Stopping`: with no waiter a kick starts no downloader, so the list that `Close` took at its beginning has all of them. `ItemOK` has `RangesExact` in it.
`HoleInv` adds what a read relies on. `Backed`: what is due (`kept`) is within the file and what is marked of it, or about to be marked, is in the file, so that the lock that a first change gives up between the mark and the size does no harm; a truncate
marks only what lies beyond the old end, which is beyond what is due. `Answered`: a read asks for no less than what is due of its bytes, and what it was told to be there is there until it has read. `Blamed`: when errors have been counted
there is a last error, so a waiter that is given up on gets an error and not an answer. A waiter is also told when what it misses is beyond the end of the file (`Arrived`); then it is not due. Reset, the only step that takes bytes away that are due,
happens while nobody reads, by `Quiet`.

`EndOf` of `RecoverRestore` is written without a fold and the guards of `CASE` in `NextChunk` of `Recover` do not overlap, so that
the definitions mean the same to TLC and to the provers.

Every safety property that a run checks is stated by a theorem, except those that a run refutes (section 5). Only model-checked: liveness (`Returns`, `Completes`, `Drains`, `CallsReturn`, `ReadsReturn`, `CloseReturns` and the others; TLAPS does not do fairness). A block device, whose changes `identity()` cannot see, is an instance
with `Detectable = FALSE`: the theorems hold for it, no run has it.

## 5. Findings

1. `sync_during` – when the listing of a source directory fails, `march.processJob` goes on to
   match against an empty listing, so with `--delete-during` (and in the first pass of
   `--delete-before`) the destination's files of that directory are deleted before the error is known.
   The help of `sync` says that nothing is deleted if there were errors. With `--delete-after`
   the property holds.
2. `cache_rename` – a file is renamed while its upload succeeds: `upload` deletes the queue's entry from the
   lookup map and `Rename` puts the item back on the heap, where no handle finds it. A later session's first
   write then cannot cancel that upload; when it ends it clears `Dirty`, and the last writes are
   neither uploaded nor marked for the next start.
3. `handle_memory` – `AsyncReader.StopBuffering` waits for its goroutine while the reader still
   holds buffers. If the goroutine is queued for memory (`--max-buffer-memory`) behind another
   client that waits for these buffers, closing or seeking the handle never returns. `Abandon`'s comment
   says that the reader is shut down and memory is returned. With memory for one more buffer (run `handle`) the property holds.

Seen while modelling, without a run of their own; where a property is named, TLC gives the counterexample when it is added to the configuration:

- `_save` truncates the metadata of an item before it writes it (`item.go:215`). If the process dies in between, for instance while a file
  that was closed and is yet to be uploaded is opened again, the next start cannot read the metadata and `newItem` removes the cached file (`item.go:157`);
  `vfs.md:104` says that files which were not uploaded will be uploaded the next time. `BytesKept` of `WriteBackCache` states that the bytes stay, and `MCWriteBackCache.cfg` with it has
  the counterexample, with `Faults = {"torn"}` too. `ClosedSurvives` promises nothing of a file that was removed so.
- A first write waits for the upload that it cancelled. If the thread gets the lock only after the write-back delay, the item is being uploaded
  again (`writeback.go:407`); `Remove` takes it out of the lookup map all the same, and when that upload ends it clears `Dirty` of a later session's writes. `ClosedIsDirty` is `ClosedSurvives` without
  the condition that the lock comes in time; the counterexample needs no failure (`Faults = {}`, no crash).
- The comment on `FindMissing` (`ranges.go:262`) says that the block returned is empty if the range is not present. The code returns the whole range, as
  `TestFindMissing` and the callers want. `RangesExact` and `QueriesAreExact` state what the code does; `AbsentIsEmpty` of `Downloaders` states what the comment says.

- With `--max-duration` and `--cutoff-mode soft` the stages end without an error, and
  `--delete-after` deletes although pairs are left in the pipes (`sync.go:992`); `DeletesLast` therefore
  excludes the soft cutoff.
- When a destination directory cannot be listed its files are overwritten without a copy in
  `--backup-dir` (`sync.go:1263`); `BackedUp` therefore excludes it.
- A run that its caller cancels may return nil, since `processError` drops `context.Canceled`
  when the child context is done (`sync.go:331`); `Synced` therefore assumes that the context is live.
- Two calls that wait for the same upload can leave an item on the heap while it is uploaded
  again (`writeback.go:410`), against the comment on `writeBackItem`. With `--transfers` of two or more (one handle,
  two threads, five calls, `Transfers = 2` in the model) a `Rename` that waited for a cancelled upload gets the lock after the item was started
  again and puts it on the heap; a second upload of it is started, and the second `close` of its done channel panics (`writeback.go:387`).
  The runs have one transfer.
- `maxUploadDelay` is five minutes where `vfs.md` says one.
- A close that fails because missing parts cannot be fetched leaves the file dirty, out of the queue and its fd open (`item.go:771`); the next open finds
  the fd, fails and removes the cached file. An open that fails for another reason, such as metadata that cannot be written, does the same to a file that is waiting to be uploaded (`item.go:586`).
- An empty file that the remote refuses stays dirty and leaves the queue (`item.go:651`); only a restart or another session queues it again.
- A `copyto` that outlives its killed helper may arrive damaged after a rerun has uploaded and verified the chunk; nothing looks at the chunk again before a restore refuses it.
  `recovery.md` says that completed chunks are assumed to remain unchanged on the remote; here it is the helper's own child that changes one.
- A move with `--update` deletes the source of a file whose destination is newer (`operations.go:1773`, `sync.go:456`), so its content is on neither side. `NothingLost` allows this.
- `Item.WriteAt` writes to the cache file without `item.mu` and marks the range afterwards
  (`item.go:1434`); a downloader that writes in between sees the range as missing and puts the old bytes over the
  new ones. `WritesSurvive` in `Downloaders` states that this does not happen; adding it to
  `MCDownloaders.cfg` gives the counterexample.
- `Truncate` marks `_written(oldSize, size)`, a range that starts at the old size and is as long as the *new* size (`item.go:356`), so positions beyond the end of the file
  are marked as present. What they hold when the file grows are zeros, as it should be, unless a downloader that is still running has written there; `ReadsNoHole` is therefore about the bytes that no truncate has cut off.
- A `Truncate` that comes between the write of a `WriteAt` and its mark (`item.go:1434`) takes the longer file for the old size and leaves the gap before the written bytes unmarked, or marks
  bytes that it has just cut off; an unmarked gap that the remote object once covered is downloaded again with its old bytes.
- A truncated file grows again when a downloader that is still running writes beyond the new end.
- A rename closes the downloaders; readers that wait are told that their bytes are there.
- An out-of-space error stays the last error until a download succeeds, and fails readers that come later
  (`downloaders.go:434`).
- An object that has become shorter ends a download without an error that is counted, so a reader of the
  missing end is retried for ever (`downloads` allows this once).
- The prefetch of the window never starts a downloader, since its range has size 0 (`downloaders.go:330`).
- `readAt` looks at `closed` before it gives the lock up in `waitSequential`, and `openPending` comes before the look: a
  call that is still waiting when the handle is closed reads from, and may reopen, a closed handle (`read.go:259`).
- After its last retry has failed `readAt` leaves `offset` as it was although the reader has moved on; the next
  sequential read is right only because the asynchronous reader keeps returning its error.
- `StopBuffering` called twice at once may close the channel twice; a `GetN` of more than the limit waits for ever; a `GetN` that
  fails may leave more buffers cached than the pool's size, and does not start the flusher.
- `Journal.__enter__` does not sync the complete lines that it reads (`zclone-recover.py:51`). A rerun can so announce a
  manifest on the strength of a `verified` line that is not durable; a power loss takes the line, and the next rerun uploads that
  chunk again over the object that the announced manifest names. It takes four faults; `ReportedIsComplete` says so.
- With `--backup-dir` and `--track-renames` a file that is renamed is not copied to the backup (`sync.go:895`): its content
  is under its new name. `BackedUp` allows this.
- Rerunning an upload that was complete writes the manifest again. If it arrives damaged and the source has changed
  since, it can be neither repaired nor restored; `RestoreCompletes` therefore supposes a source that stays as it is.

## 6. Not modelled, and the plan

Backends, front ends, commands, configuration and filters are input and output, parsing, or
clients of external services; their failures are choices in the modules above. Encryption and checksums
are out of reach of a model checker. `PROJECT.json` has the reason for each part.

Next, in this order:

1. `March`: the merge of two sorted listings with duplicates and normalised names, checked against
   a set definition, `--no-traverse`, and recursion; composed with `Sync` in place of `List` and the callbacks.
2. `Jobs`: listeners, stop and expiry (`Stats` reads `Finished` of a job under the lock of the registry while `finish` writes
   it under that of the job, `job.go:204`); `Pacer` and the token bucket; the parallel chunked reader as the source of `AsyncReader`.
3. The cleaner of the cache with its quotas over several items, renames in `Downloaders`.
4. An abstract specification of the queue (every file closed is uploaded at least once more) that
   `WriteBackCache` implements, and an abstract pipe (a bag with a bound) that the two-step `Get` implements.
5. Bisync: the lock file with its renewal, then the listings across interrupted runs.

Theorems to prove next: those of the modules above; `WritesSurvive` of `Downloaders` once a downloader can no longer overwrite what a `WriteAt` has not marked.
