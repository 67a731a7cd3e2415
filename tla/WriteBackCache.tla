---------------------------- MODULE WriteBackCache ----------------------------
(***************************************************************************)
(* The cache items (vfs/vfscache/item.go) above the writeback queue: file  *)
(* handles open, write and close a cached file while the queue uploads it. *)
(* The content of a file is the number of writes it has seen, so that a    *)
(* later version contains the earlier ones.  The metadata of an item is    *)
(* written to disk apart from the item in memory, and a restart reloads    *)
(* the cache from what is there.                                           *)
(***************************************************************************)
EXTENDS WriteBack

SeqExt == INSTANCE SequencesExt

CONSTANTS
  MaxWrites,    \* bound: writes to one file
  MaxOpens,     \* bound: opens of all files
  MaxCrashes,   \* bound: times the process dies
  Faults        \* what may go wrong: "torn", the process dies while it writes metadata; "save", metadata
                \* cannot be written; "parts", missing parts cannot be downloaded; "empty", an empty
                \* file is refused by the remote

ASSUME CacheAssumption ==
  /\ MaxWrites \in Nat /\ MaxOpens \in Nat /\ MaxCrashes \in Nat
  /\ Faults \subseteq {"torn", "save", "parts", "empty"}

VARIABLES
  cached,     \* version of each file in the cache
  remote,     \* version of each file on the remote
  dirty,      \* item.info.Dirty
  meta,       \* what the metadata on disk says: "dirty", "clean", or "broken" if it cannot be read
  modified,   \* item.modified
  fd,         \* item.fd is open
  grace,      \* item.graceTimer runs
  fh,         \* file each thread has open, 0 if none
  at,         \* where each thread is in an operation on its file
  stores,     \* uploads inside item.store: [item, gen, version, stage]
  wrote,      \* files written to since they were last closed, in this run of the process
  saved,      \* version of each file when its last writing handle was closed; nothing, if its cached
              \* file has been given up
  unsaved,    \* files whose metadata could not be written the last time
  skipped,    \* dirty files that were not queued when they should have been
  overtaken,  \* the queue's delay has passed before a thread that waited for an upload got the lock
  opened,     \* opens so far
  crashes     \* crashes so far

itemVars == <<cached, remote, dirty, meta, modified, fd, grace, fh, at, stores, wrote, saved, unsaved, skipped, opened, crashes>>
cvars == <<vars, itemVars, overtaken>>

\* The places of a thread that has muRW of its file, to open or to close it.
Exclusive == {"closing", "queueing", "queued", "discard", "discarding"}

\* The threads that count in item.opens.
Opens(h) == {t \in Thread : fh[t] = h /\ at[t] \notin Exclusive}

\* muRW of the file is held by a thread that opens or closes it.
Locked(h) == \E t \in Thread : fh[t] = h /\ at[t] \in Exclusive

Go(t, place) == at' = [at EXCEPT ![t] = place]
\* The last handle of a file is closed.
Save(h) ==
  /\ saved' = [saved EXCEPT ![h] = IF h \in wrote THEN cached[h] ELSE @]
  /\ wrote' = wrote \ {h}

Leave(t) == fh' = [fh EXCEPT ![t] = 0] /\ Go(t, "idle")

Flag(d) == IF d THEN "dirty" ELSE "clean"

\* _save has written the metadata of an item whose Dirty is d.
Written(h, d) == meta' = [meta EXCEPT ![h] = Flag(d)] /\ unsaved' = unsaved \ {h}

\* _save where its error is only logged or passed on: the old metadata stays, or
\* it is truncated.
TrySave(h, d) ==
  \/ Written(h, d)
  \/ /\ "save" \in Faults
     /\ meta' \in {meta, [meta EXCEPT ![h] = "broken"]}
     /\ unsaved' = unsaved \cup {h}

\* Parts of the file may be missing from the cache: a Close that has queued it
\* has brought all of them in, so not before that version is on the remote.
Partial(h) == saved[h] <= remote[h]

-----------------------------------------------------------------------------
(* Open, WriteAt and Close *)

\* item.open for the first handle resets item.modified and writes the metadata,
\* unless a grace period has kept the file open.
Open(t, h) ==
  /\ at[t] = "idle" /\ fh[t] = 0 /\ opened < MaxOpens
  /\ ~Locked(h)
  /\ Opens(h) # {} \/ ~fd[h] \/ grace[h]
  /\ fh' = [fh EXCEPT ![t] = h]
  /\ opened' = opened + 1
  /\ modified' = [modified EXCEPT ![h] = @ /\ (Opens(h) # {} \/ grace[h])]
  /\ fd' = [fd EXCEPT ![h] = TRUE]
  /\ grace' = [grace EXCEPT ![h] = FALSE]
  /\ IF Opens(h) # {} \/ grace[h] THEN UNCHANGED <<meta, unsaved>> ELSE Written(h, dirty[h])
  /\ UNCHANGED <<vars, cached, remote, dirty, at, stores, wrote, saved, skipped, overtaken, crashes>>

\* item.open when _createFile fails: the file is still open from a Close that
\* failed, or its metadata cannot be written.
OpenFails(t, h) ==
  /\ at[t] = "idle" /\ fh[t] = 0 /\ opened < MaxOpens
  /\ ~Locked(h) /\ Opens(h) = {} /\ ~grace[h]
  /\ fd[h] \/ "save" \in Faults
  /\ fh' = [fh EXCEPT ![t] = h]
  /\ opened' = opened + 1
  /\ modified' = [modified EXCEPT ![h] = @ /\ fd[h]]
  /\ Go(t, "discard")
  /\ UNCHANGED <<vars, cached, remote, dirty, meta, fd, grace, stores, wrote, saved, unsaved, skipped, overtaken, crashes>>

\* It then calls _remove, which takes the file off the queue without item.mu...
Discard(t) ==
  /\ at[t] = "discard"
  /\ Remove(t, fh[t])
  /\ Go(t, "discarding")
  /\ UNCHANGED <<cached, remote, dirty, meta, modified, fd, grace, fh, stores, wrote, saved, unsaved, skipped, overtaken, opened, crashes>>

\* ...and removes the cached file and its metadata, whatever they hold.
Discarded(t) ==
  LET h == fh[t]
  IN /\ at[t] = "discarding" /\ Idle(t)
     /\ cached' = [cached EXCEPT ![h] = remote[h]]
     /\ saved' = [saved EXCEPT ![h] = remote[h]]
     /\ dirty' = [dirty EXCEPT ![h] = FALSE]
     /\ Written(h, FALSE)
     /\ fd' = [fd EXCEPT ![h] = FALSE]
     /\ wrote' = wrote \ {h} /\ skipped' = skipped \ {h}
     /\ Leave(t)
     /\ UNCHANGED <<vars, remote, modified, grace, stores, overtaken, opened, crashes>>

\* WriteAt writes to the file without item.mu.
WriteAt(t) ==
  LET h == fh[t]
  IN /\ at[t] = "idle" /\ h # 0
     /\ cached[h] < MaxWrites
     /\ cached' = [cached EXCEPT ![h] = @ + 1]
     /\ wrote' = wrote \cup {h}
     /\ Go(t, "wrote")
     /\ UNCHANGED <<vars, remote, dirty, meta, modified, fd, grace, fh, stores, saved, unsaved, skipped, overtaken, opened, crashes>>

\* _dirty: the first write of a session gives item.mu up to take the file off
\* the queue.
DirtyFirst(t) ==
  LET h == fh[t]
  IN /\ at[t] = "wrote" /\ ~modified[h]
     /\ modified' = [modified EXCEPT ![h] = TRUE]
     /\ Go(t, "unqueue")
     /\ UNCHANGED <<vars, cached, remote, dirty, meta, fd, grace, fh, stores, wrote, saved, unsaved, skipped, overtaken, opened, crashes>>

Unqueue(t) ==
  /\ at[t] = "unqueue"
  /\ Remove(t, fh[t])
  /\ Go(t, "unqueued")
  /\ UNCHANGED <<cached, remote, dirty, meta, modified, fd, grace, fh, stores, wrote, saved, unsaved, skipped, overtaken, opened, crashes>>

\* Mutant: the item is marked while Remove still waits for the upload.
MayMarkEarly(t) == at[t] = "unqueued" \/ (at[t] = "wrote" /\ modified[fh[t]])

\* Where _dirty marks the item: after Remove, or at once if it is modified.
MayMark(t) ==
  \/ at[t] = "unqueued" /\ Idle(t)
  \/ at[t] = "wrote" /\ modified[fh[t]]

\* The metadata is written if the item was clean.
MarkDirty(t) ==
  /\ MayMark(t)
  /\ dirty' = [dirty EXCEPT ![fh[t]] = TRUE]
  /\ IF dirty[fh[t]] THEN UNCHANGED <<meta, unsaved>> ELSE TrySave(fh[t], TRUE)
  /\ Go(t, "idle")
  /\ UNCHANGED <<vars, cached, remote, modified, fd, grace, fh, stores, wrote, saved, skipped, overtaken, opened, crashes>>

\* Close when another handle is open.
CloseShared(t) ==
  LET h == fh[t]
  IN /\ at[t] = "idle" /\ h # 0 /\ ~Locked(h)
     /\ Opens(h) # {t}
     /\ Leave(t)
     /\ UNCHANGED <<vars, cached, remote, dirty, meta, modified, fd, grace, stores, wrote, saved, unsaved, skipped, overtaken, opened, crashes>>

\* Only files without local changes are kept open after the last Close.
GraceApplies(h) == ~dirty[h]

\* The last Close of a clean file starts the grace period.
CloseClean(t) ==
  LET h == fh[t]
  IN /\ at[t] = "idle" /\ h # 0 /\ ~Locked(h)
     /\ Opens(h) = {t} /\ GraceApplies(h)
     /\ grace' = [grace EXCEPT ![h] = TRUE]
     /\ Save(h)
     /\ Leave(t)
     /\ UNCHANGED <<vars, cached, remote, dirty, meta, modified, fd, stores, unsaved, skipped, overtaken, opened, crashes>>

\* The last Close of a dirty file gives item.mu up to bring in missing parts and
\* to close the downloaders.
CloseDirty(t) ==
  LET h == fh[t]
  IN /\ at[t] = "idle" /\ h # 0 /\ ~Locked(h)
     /\ Opens(h) = {t} /\ ~GraceApplies(h)
     /\ Go(t, "closing")
     /\ UNCHANGED <<vars, cached, remote, dirty, meta, modified, fd, grace, fh, stores, wrote, saved, unsaved, skipped, overtaken, opened, crashes>>

\* A part cannot be downloaded: Close returns the error, the file stays open
\* and is not queued.
CloseFails(t) ==
  LET h == fh[t]
  IN /\ at[t] = "closing" /\ "parts" \in Faults /\ Partial(h)
     /\ wrote' = wrote \ {h} /\ skipped' = skipped \cup {h}
     /\ Leave(t)
     /\ UNCHANGED <<vars, cached, remote, dirty, meta, modified, fd, grace, stores, saved, unsaved, overtaken, opened, crashes>>

\* The end of a Close: the writes count as saved.
Closed(t) ==
  /\ modified' = [modified EXCEPT ![fh[t]] = FALSE]
  /\ Save(fh[t])
  /\ Leave(t)

\* The rest of _actualClose up to the call of Add, which is made without item.mu.
CloseFd(t) ==
  LET h == fh[t]
  IN /\ at[t] = "closing"
     /\ fd' = [fd EXCEPT ![h] = FALSE]
     /\ TrySave(h, dirty[h])
     /\ IF dirty[h] THEN Go(t, "queueing") /\ UNCHANGED <<modified, wrote, saved, fh>>
                    ELSE Closed(t)
     /\ UNCHANGED <<vars, cached, remote, dirty, grace, stores, skipped, overtaken, opened, crashes>>

CloseAdd(t, name) ==
  /\ at[t] = "queueing"
  /\ Add(t, fh[t], name, modified[fh[t]])
  /\ Go(t, "queued")
  /\ skipped' = skipped \ {fh[t]}
  /\ UNCHANGED <<cached, remote, dirty, meta, modified, fd, grace, fh, stores, wrote, saved, unsaved, overtaken, opened, crashes>>

CloseEnd(t) ==
  /\ at[t] = "queued" /\ Idle(t)
  /\ Closed(t)
  /\ UNCHANGED <<vars, cached, remote, dirty, meta, fd, grace, stores, unsaved, skipped, overtaken, opened, crashes>>

\* closeAfterGrace.
GraceEnds(h) ==
  /\ grace[h] /\ ~Locked(h) /\ ~dirty[h]
  /\ grace' = [grace EXCEPT ![h] = FALSE]
  /\ fd' = [fd EXCEPT ![h] = FALSE]
  /\ modified' = [modified EXCEPT ![h] = FALSE]
  /\ TrySave(h, FALSE)
  /\ UNCHANGED <<vars, cached, remote, dirty, fh, at, stores, wrote, saved, skipped, overtaken, opened, crashes>>

\* File.rename renames the item and tells the queue.
RenameFile(t, h, name) ==
  /\ at[t] = "idle" /\ fh[t] = 0
  /\ Rename(t, h, name)
  /\ UNCHANGED <<itemVars, overtaken>>

-----------------------------------------------------------------------------
(* item.store, run by an upload *)

StoreOf(g) == {s \in stores : s.item = g.item /\ s.gen = g.gen}

\* operations.Copy reads the cached file without item.mu.
CopyRead(g) ==
  LET h == items[g.item].id
  IN /\ StoreOf(g) = {}
     /\ stores' = stores \cup {[item |-> g.item, gen |-> g.gen, version |-> cached[h], stage |-> "read"]}
     /\ UNCHANGED <<vars, cached, remote, dirty, meta, modified, fd, grace, fh, at, wrote, saved, unsaved, skipped, overtaken, opened, crashes>>

\* Copy has put the object on the remote.
CopyDone(g) ==
  \E s \in StoreOf(g) :
    /\ s.stage = "read"
    /\ remote' = [remote EXCEPT ![items[g.item].id] = s.version]
    /\ stores' = (stores \ {s}) \cup {[s EXCEPT !.stage = "sent"]}
    /\ UNCHANGED <<vars, cached, dirty, meta, modified, fd, grace, fh, at, wrote, saved, unsaved, skipped, overtaken, opened, crashes>>

\* The item is marked clean when the VFS knows the new object.
StoreClean(g) ==
  \E s \in StoreOf(g) :
    /\ s.stage = "sent"
    /\ dirty' = [dirty EXCEPT ![items[g.item].id] = FALSE]
    /\ TrySave(items[g.item].id, FALSE)
    /\ stores' = (stores \ {s}) \cup {[s EXCEPT !.stage = "clean"]}
    /\ UNCHANGED <<vars, cached, remote, modified, fd, grace, fh, at, wrote, saved, skipped, overtaken, opened, crashes>>

StoreReturns(g) ==
  /\ \E s \in StoreOf(g) : s.stage = "clean"
  /\ Succeed(g)
  /\ stores' = stores \ StoreOf(g)
  /\ UNCHANGED <<cached, remote, dirty, meta, modified, fd, grace, fh, at, wrote, saved, unsaved, skipped, overtaken, opened, crashes>>

\* The remote does not take empty files: store returns without an error and
\* leaves the item dirty, and the queue drops it.
StoreEmpty(g) ==
  /\ "empty" \in Faults
  /\ \E s \in StoreOf(g) : s.stage = "read"
  /\ Succeed(g)
  /\ stores' = stores \ StoreOf(g)
  /\ skipped' = skipped \cup {items[g.item].id}
  /\ UNCHANGED <<cached, remote, dirty, meta, modified, fd, grace, fh, at, wrote, saved, unsaved, overtaken, opened, crashes>>

\* Copy fails or sees that it is cancelled.
StoreFails(g) ==
  /\ \A s \in StoreOf(g) : s.stage = "read"
  /\ Cancelled(g) \/ Fail(g)
  /\ stores' = stores \ StoreOf(g)
  /\ UNCHANGED <<cached, remote, dirty, meta, modified, fd, grace, fh, at, wrote, saved, unsaved, skipped, overtaken, opened, crashes>>

Store(g) ==
  \/ CopyRead(g) \/ CopyDone(g) \/ StoreClean(g) \/ StoreReturns(g)
  \/ StoreEmpty(g) \/ StoreFails(g)

-----------------------------------------------------------------------------

\* Mutant: a restart does not look at what was not uploaded.
ReloadedNone(torn) == {}

\* The files reload opens and closes, which queues them.  The metadata of those
\* in torn was being written when the process died.
Reloaded(torn) == {h \in Handle : meta[h] = "dirty"} \ torn

\* newItem removes the cached files whose metadata it cannot read.
Unreadable(torn) == {h \in Handle : meta[h] = "broken"} \cup torn

\* The process is started again with the same cache: what was in memory is
\* gone and the items that are dirty on disk are queued, except those in stuck,
\* which reload cannot close.  Nothing is promised of the files whose metadata
\* was not written.
Restart(torn, stuck) ==
  LET todo == SeqExt!SetToSeq(Reloaded(torn) \ stuck)
      lost == torn \cup unsaved
  IN /\ crashes < MaxCrashes /\ crashes' = crashes + 1
     /\ torn # {} => "torn" \in Faults
     /\ stuck # {} => "parts" \in Faults
     /\ \A h \in stuck : h \in Reloaded(torn) /\ Partial(h)
     /\ \E name \in Name : items' = [k \in DOMAIN todo |-> NewItem(todo[k], name)]
     /\ lookup' = [h \in Handle |-> IF h \in Reloaded(torn) \ stuck THEN CHOOSE k \in DOMAIN todo : todo[k] = h ELSE 0]
     /\ goros' = {} /\ closed' = {} /\ runs' = 0 /\ uploads' = 0 /\ stopped' = FALSE
     /\ calls' = [t \in Thread |-> NoCall]
     /\ expiry' = (IF todo = <<>> THEN NoTime ELSE Delay)
     /\ timer' = (IF todo = <<>> THEN "off" ELSE "armed")
     /\ cached' = [h \in Handle |-> IF h \in Unreadable(torn) THEN remote[h] ELSE cached[h]]
     /\ saved' = [h \in Handle |-> IF h \in lost THEN remote[h] ELSE saved[h]]
     /\ dirty' = [h \in Handle |-> meta[h] = "dirty" /\ h \notin torn]
     /\ meta' = [h \in Handle |-> Flag(dirty'[h])]
     /\ modified' = [h \in Handle |-> FALSE]
     /\ fd' = [h \in Handle |-> h \in stuck] /\ grace' = [h \in Handle |-> FALSE]
     /\ fh' = [t \in Thread |-> 0] /\ at' = [t \in Thread |-> "idle"]
     /\ stores' = {} /\ wrote' = {} /\ unsaved' = {} /\ skipped' = stuck
     /\ UNCHANGED <<ncalls, errors, panicked, remote, overtaken, opened>>

\* The process dies.  Open, Sync, SetModTime, Close, a first change and the end
\* of an upload write metadata, so that of any file may be torn.
Crash == \E torn \in SUBSET Handle, stuck \in SUBSET Handle : Restart(torn, stuck)

CacheInit ==
  /\ Init
  /\ cached = [h \in Handle |-> 0] /\ remote = [h \in Handle |-> 0] /\ saved = [h \in Handle |-> 0]
  /\ dirty = [h \in Handle |-> FALSE] /\ meta = [h \in Handle |-> "clean"] /\ modified = [h \in Handle |-> FALSE]
  /\ fd = [h \in Handle |-> FALSE] /\ grace = [h \in Handle |-> FALSE]
  /\ fh = [t \in Thread |-> 0] /\ at = [t \in Thread |-> "idle"]
  /\ stores = {} /\ wrote = {} /\ unsaved = {} /\ skipped = {} /\ overtaken = FALSE
  /\ opened = 0 /\ crashes = 0

\* A thread in the middle of an operation.
Working(t) ==
  \/ DirtyFirst(t) \/ Unqueue(t) \/ MarkDirty(t) \/ Discard(t) \/ Discarded(t)
  \/ CloseFails(t) \/ CloseFd(t) \/ CloseEnd(t) \/ \E name \in Name : CloseAdd(t, name)
  \/ (ReadDone(t) \/ AddResume(t) \/ RemoveResume(t)) /\ UNCHANGED <<itemVars, overtaken>>

\* No thread waits for an upload that is over, or has yet to read the channel
\* it waits for: time that passes does not get ahead of it.
Prompt ==
  \A t \in {u \in Thread : ~Idle(u)} :
    calls[t].done # 0 /\ <<calls[t].victim, calls[t].done>> \notin closed

\* The queue's own steps.
Queue ==
  /\ \/ Tick /\ overtaken' = (overtaken \/ ~Prompt)
     \/ (TimerFires \/ Process) /\ UNCHANGED overtaken
  /\ UNCHANGED itemVars

Begins(t) ==
  \/ \E h \in Handle : Open(t, h) \/ OpenFails(t, h)
  \/ WriteAt(t) \/ CloseShared(t) \/ CloseClean(t) \/ CloseDirty(t)

CacheNext ==
  /\ ~panicked
  /\ \/ \E t \in Thread : Begins(t) \/ Working(t)
     \/ \E h \in Handle : GraceEnds(h)
     \/ \E g \in goros : Store(g)
     \/ Queue
     \/ Crash

CacheSpec == CacheInit /\ [][CacheNext]_cvars

\* Files are renamed as well.
RenameNext ==
  \/ CacheNext
  \/ /\ ~panicked
     /\ \E t \in Thread :
          \/ \E h \in Handle, name \in Name : RenameFile(t, h, name)
          \/ /\ RenameResume(t) \/ RenameClash(t) \/ ClashResume(t) \/ RenameEnd(t)
             /\ UNCHANGED <<itemVars, overtaken>>

RenameSpec == CacheInit /\ [][RenameNext]_cvars

-----------------------------------------------------------------------------
(* Properties *)

\* Type invariant of the items; what runs is an upload of the queue, and a
\* grace period is that of a file without handles that is clean.
CacheTypeOK ==
  /\ cached \in [Handle -> 0..MaxWrites] /\ remote \in [Handle -> 0..MaxWrites]
  /\ dirty \in [Handle -> BOOLEAN] /\ meta \in [Handle -> {"dirty", "clean", "broken"}]
  /\ modified \in [Handle -> BOOLEAN] /\ fh \in [Thread -> Handle \cup {0}]
  /\ \A s \in stores : \E g \in goros : g.item = s.item /\ g.gen = s.gen
  /\ \A h \in Handle : grace[h] => fd[h] /\ Opens(h) = {} /\ ~dirty[h]

\* What was closed and is not on the remote yet is marked dirty, and so says its
\* metadata on disk unless writing it has failed, at every moment, so that a
\* restart finds it: an upload that ends, successful or cancelled, never clears
\* the mark of a later write.  No thread has been overtaken by the delay of the
\* queue, and nothing is said of a cached file that a failing Open has removed.
ClosedSurvives ==
  ~overtaken =>
    \A h \in Handle : remote[h] < saved[h] => dirty[h] /\ (meta[h] = "dirty" \/ h \in unsaved)

\* The same mark, however late the threads that wait for an upload get the lock.
ClosedIsDirty == \A h \in Handle : remote[h] < saved[h] => dirty[h]

\* A dirty file nobody has open is in the queue, findable by its handle, unless
\* it was refused as empty or could not be closed.
DirtyIsQueued ==
  ~overtaken =>
    \A h \in Handle :
      dirty[h] /\ h \notin skipped /\ (\A t \in Thread : fh[t] # h)
        => lookup[h] # 0 /\ (items[lookup[h]].onHeap \/ items[lookup[h]].uploading)

\* The bytes of a file that was closed and is not on the remote yet stay in the
\* cache, across restarts.
BytesKept == [][\A h \in Handle : remote[h] < saved[h] => saved[h] <= cached'[h]]_cvars

=============================================================================
