------------------------------- MODULE Recover -------------------------------
(***************************************************************************)
(* The checkpointed uploader of bin/zclone-recover.py: upload(), Journal,  *)
(* prepare() and verify(), with the journal file, the staging directory,   *)
(* the remote and the source image it works on.                            *)
(*                                                                         *)
(* A SHA-256 digest is modelled by the bytes it is taken of (no collisions *)
(* between the bytes of one run), and gzip with fixed settings by the      *)
(* bytes it compresses: the object of a chunk is named by, and intact when *)
(* it holds, the chunk's raw bytes.  A corrupted object holds Damaged, or  *)
(* Spoilt when the upload had outlived the process that started it; the    *)
(* program cannot tell the two from any other wrong bytes.                 *)
(*                                                                         *)
(* The journal is a sequence of complete lines; the first `durable` of     *)
(* them survive a power loss, and `torn` says that an incomplete line      *)
(* follows them, which the next line written would become part of.         *)
(***************************************************************************)
EXTENDS Integers, Sequences

CONSTANTS
  Proc,          \* processes that run the upload command
  NoProc,        \* nobody holds the journal's lock
  Spoilt,        \* the bytes of an object that a late upload corrupted
  Byte,          \* values of one unit of the image
  Size,          \* size of the image in units
  Image,         \* contents of the image when recovery starts
  ChunkSizes,    \* values of --chunk-size the operator may give
  Block,         \* units read by one pread()
  Detectable,    \* TRUE: regular file, a write changes mtime/ctime;
                 \* FALSE: block device, a write leaves the identity alone
  StageIsRam,    \* TRUE: a power loss empties the staging directory
  MaxVersions,   \* bound: contents the image takes (1: it never changes)
  MaxFaults      \* bound: crashes, I/O errors and corrupted transfers

ASSUME RecoverAssumption ==
  /\ NoProc \notin Proc
  /\ Size \in Nat \ {0} /\ Block \in Nat \ {0}
  /\ ChunkSizes \subseteq Nat \ {0}
  /\ Image \in [1..Size -> Byte]
  /\ Detectable \in BOOLEAN /\ StageIsRam \in BOOLEAN
  /\ MaxVersions \in Nat /\ MaxFaults \in Nat

VARIABLES
  versions,   \* contents the image has had, the last one being current
  journal,    \* complete lines in the journal file
  durable,    \* number of them that have been fsynced
  torn,       \* an incomplete last line is in the file
  stage,      \* staged chunk files: [session, index, raw]
  partial,    \* temporary files of prepare(): <<session, index>>
  remote,     \* objects: [name, body]
  orphans,    \* uploads whose parent process was killed: [name, body]
  reported,   \* manifests announced by "Recovery upload complete"
  sessions,   \* session ids drawn so far (uuid4 never repeats)
  faults,     \* faults so far
  lock,       \* holder of the flock on the journal
  run         \* control state and local variables of each process

file == <<journal, durable, torn>>
staging == <<stage, partial>>
net == <<remote, orphans, reported>>
vars == <<versions, file, staging, net, sessions, faults, lock, run>>

-----------------------------------------------------------------------------
(* Data: layout, journal events, names of remote objects *)

Source == versions[Len(versions)]

\* Mutant: the times are left out of the identity.
IdentityWithoutTimes == 1

\* What identity() returns: inode, size and times of a regular file.
Identity == IF Detectable THEN Len(versions) ELSE 1

Offset(i, c) == i * c

Length(i, c) == IF c < Size - Offset(i, c) THEN c ELSE Size - Offset(i, c)

\* Mutant: the loop leaves the last chunk out.
BeyondEarly(i, c) == Offset(i + 1, c) >= Size

\* range(0, total, chunk_size) has no i-th element.
Beyond(i, c) == Offset(i, c) >= Size

\* Bytes of chunk i of an image cut in chunks of c units.
Raw(image, i, c) == [k \in 1..Length(i, c) |-> image[Offset(i, c) + k]]

Chunk(i, c, raw) ==
  [index |-> i, offset |-> Offset(i, c), length |-> Length(i, c), raw |-> raw]

Header(s, id, c) == [state |-> "header", session |-> s, source |-> id, chunk_size |-> c]

Event(st, ch) == [state |-> st, chunk |-> ch]

\* The events of chunk i; the last of them is states[i] of upload().
EventsOf(ev, i) == {n \in 2..Len(ev) : ev[n].chunk.index = i}

LastOf(ev, i) == CHOOSE n \in EventsOf(ev, i) : \A m \in EventsOf(ev, i) : m <= n

StateOf(ev, i) == IF EventsOf(ev, i) = {} THEN "none" ELSE ev[LastOf(ev, i)].state

ChunkOf(ev, i) == ev[LastOf(ev, i)].chunk

ChunkName(s, ch) == [kind |-> "chunk", session |-> s, index |-> ch.index, hash |-> ch.raw]

ManifestName(s) == [kind |-> "manifest", session |-> s]

\* The manifest of a run that is through with the chunks of the image.
Manifest(r) == [header |-> r.events[1], chunks |-> [k \in 1..r.idx |-> ChunkOf(r.events, k - 1)]]

\* The bytes of a corrupted object.
Damaged == <<>>

\* The object of that name now has that body.
Put(store, name, body) ==
  {o \in store : o.name # name} \cup {[name |-> name, body |-> body]}

Holds(store, name, body) == [name |-> name, body |-> body] \in store

\* Mutant: the file of a verified chunk is kept.
UnstageNothing(s, i) == stage

\* The staging directory without the file of that chunk.
Unstage(s, i) == {f \in stage : ~(f.session = s /\ f.index = i)}

\* Mutant: an object found by reconciliation is not foreseen.
StepsWithoutReconcile == {<<"prepared", "uploaded">>, <<"uploaded", "verified">>}

\* The transitions upload() accepts when it replays the journal.
Steps == {<<"prepared", "uploaded">>, <<"uploaded", "verified">>, <<"prepared", "verified">>}

ValidEvent(ev, n) ==
  LET e == ev[n]
      earlier == {m \in 2..(n - 1) : ev[m].chunk.index = e.chunk.index}
      last == CHOOSE m \in earlier : \A k \in earlier : k <= m
  IN \/ /\ e.state = "prepared"
        /\ earlier = {}
        /\ IF n = 2 THEN e.chunk.index = 0
                    ELSE /\ e.chunk.index = ev[n - 1].chunk.index + 1
                         /\ ev[n - 1].state = "verified"
     \/ /\ earlier # {}
        /\ ev[last].chunk = e.chunk
        /\ <<ev[last].state, e.state>> \in Steps

Replayable(ev) == \A n \in 2..Len(ev) : ValidEvent(ev, n)

ValidChunk(ch, i, c) ==
  /\ ch.index = i
  /\ ch.offset = Offset(i, c)
  /\ ch.length = Length(i, c)

-----------------------------------------------------------------------------
(* Control *)

\* Locals of upload(): --chunk-size, source_identity, Journal.events, the
\* index of the loop, and the bytes prepare() has read.
Idle == [pc |-> "idle", csize |-> 0, ident |-> 0, events |-> <<>>, idx |-> 0, buf |-> <<>>]

Session(r) == r.events[1].session

This(r) == ChunkOf(r.events, r.idx)

ThisName(r) == ChunkName(Session(r), This(r))

At(p, l) == run[p].pc = l

Goto(p, l) == run' = [run EXCEPT ![p].pc = l] /\ UNCHANGED lock

\* The process ends: its memory is gone and the kernel drops its lock.
Exit(p) == run' = [run EXCEPT ![p] = Idle] /\ lock' = NoProc

GotoOrExit(p, ok, l) == IF ok THEN Goto(p, l) ELSE Exit(p)

Fault == faults < MaxFaults /\ faults' = faults + 1

\* What follows an incomplete line becomes part of it: no valid event.
Garbled(e) == [e EXCEPT !.state = "garbled"]

\* Journal.append up to the flush: the line is in the page cache.
Write(p, e) ==
  /\ journal' = Append(journal, IF torn THEN Garbled(e) ELSE e)
  /\ torn' = FALSE
  /\ run' = [run EXCEPT ![p] = [@ EXCEPT !.pc = "fsync", !.buf = <<>>,
                                       !.events = Append(run[p].events, e)]]
  /\ UNCHANGED <<durable, lock>>

Init ==
  /\ versions = <<Image>>
  /\ journal = <<>> /\ durable = 0 /\ torn = FALSE
  /\ stage = {} /\ partial = {}
  /\ remote = {} /\ orphans = {} /\ reported = {}
  /\ sessions = 0 /\ faults = 0
  /\ lock = NoProc
  /\ run = [p \in Proc |-> Idle]

\* Mutant: the lock is not looked at.
LockFreeAlways == TRUE

\* flock(LOCK_EX | LOCK_NB) succeeds.
LockFree == lock = NoProc

\* Mutant: the incomplete line is left in the file.
CutNothing == torn

\* Whether an incomplete last line is in the file after truncate.
CutTorn == FALSE

\* Every complete line is an event with its checksum.
Readable == \A n \in 1..Len(journal) : journal[n].state # "garbled"

\* Journal.__enter__: lock without waiting, read the complete lines, cut an
\* incomplete last one off and sync.  A second process fails here and ends, and
\* so does one that finds a line it cannot read.
Open(p) ==
  /\ At(p, "idle")
  /\ LockFree
  /\ Readable
  /\ lock' = p
  /\ \E c \in ChunkSizes :
       run' = [run EXCEPT ![p] = [Idle EXCEPT !.pc = "identity", !.csize = c, !.events = journal]]
  /\ torn' = CutTorn
  /\ durable' = IF torn THEN Len(journal) ELSE durable
  /\ UNCHANGED <<versions, journal, staging, net, sessions, faults>>

GetIdentity(p) ==
  /\ At(p, "identity")
  /\ run' = [run EXCEPT ![p] = [@ EXCEPT !.ident = Identity,
                               !.pc = IF run[p].events = <<>> THEN "header" ELSE "replay"]]
  /\ UNCHANGED <<versions, file, staging, net, sessions, faults, lock>>

NewHeader(p) ==
  /\ At(p, "header")
  /\ sessions' = sessions + 1
  /\ Write(p, Header(sessions + 1, run[p].ident, run[p].csize))
  /\ UNCHANGED <<versions, staging, net, faults>>

\* The settings must be those of the header and the transitions legal.
Replay(p) ==
  LET r == run[p]
  IN /\ At(p, "replay")
     /\ GotoOrExit(p, /\ r.events[1].source = r.ident
                      /\ r.events[1].chunk_size = r.csize
                      /\ Replayable(r.events), "chunk")
     /\ UNCHANGED <<versions, file, staging, net, sessions, faults>>

\* Mutant: the staged file is deleted once it has been uploaded.
AfterFsyncUnverified(state) ==
  CASE state = "header" -> "chunk"
    [] state = "prepared" -> "staged"
    [] state \in {"uploaded", "verified"} -> "clean"

\* Where upload() goes on after each kind of line.
AfterFsync(state) ==
  CASE state = "header" -> "chunk"
    [] state = "prepared" -> "staged"
    [] state = "uploaded" -> "verify"
    [] state = "verified" -> "clean"

\* os.fsync at the end of Journal.append.
Fsync(p) ==
  /\ At(p, "fsync")
  /\ durable' = Len(journal)
  /\ Goto(p, AfterFsync(run[p].events[Len(run[p].events)].state))
  /\ UNCHANGED <<versions, journal, torn, staging, net, sessions, faults>>

\* Head of the loop over the chunks of the image.
NextChunk(p) ==
  LET r == run[p]
      st == StateOf(r.events, r.idx)
  IN /\ At(p, "chunk")
     /\ partial' = partial \ {<<Session(r), r.idx>>}
     /\ GotoOrExit(p, Beyond(r.idx, r.csize) \/ st = "none" \/ ValidChunk(This(r), r.idx, r.csize),
          IF Beyond(r.idx, r.csize) THEN "final"
          ELSE CASE st = "none" -> "read"
                 [] st = "verified" -> "clean"
                 [] OTHER -> "reconcile")
     /\ UNCHANGED <<versions, file, stage, net, sessions, faults>>

\* prepare(): one pread() of the source into the temporary file.
Read(p) ==
  LET r == run[p]
      off == Offset(r.idx, r.csize) + Len(r.buf)
      left == Length(r.idx, r.csize) - Len(r.buf)
      n == IF Block < left THEN Block ELSE left
  IN /\ At(p, "read")
     /\ left > 0
     /\ partial' = partial \cup {<<Session(r), r.idx>>}
     /\ run' = [run EXCEPT ![p].buf = @ \o SubSeq(Source, off + 1, off + n)]
     /\ UNCHANGED <<versions, file, stage, net, sessions, faults, lock>>

\* The end of prepare(): the temporary file replaces the staged one.
Publish(p) ==
  LET r == run[p]
  IN /\ At(p, "read")
     /\ Len(r.buf) = Length(r.idx, r.csize)
     /\ partial' = partial \ {<<Session(r), r.idx>>}
     /\ stage' = Unstage(Session(r), r.idx)
                   \cup {[session |-> Session(r), index |-> r.idx, raw |-> r.buf]}
     /\ Goto(p, "recheck")
     /\ UNCHANGED <<versions, file, net, sessions, faults>>

\* The source must still be the same after preparing, and a chunk prepared
\* again must be the one in the journal.
Recheck(p) ==
  LET r == run[p]
      regenerated == StateOf(r.events, r.idx) # "none"
  IN /\ At(p, "recheck")
     /\ GotoOrExit(p, /\ Identity = r.ident
                      /\ regenerated => This(r) = Chunk(r.idx, r.csize, r.buf),
                   IF regenerated THEN "upload" ELSE "prepared")
     /\ UNCHANGED <<versions, file, staging, net, sessions, faults>>

AppendPrepared(p) ==
  /\ At(p, "prepared")
  /\ Write(p, Event("prepared", Chunk(run[p].idx, run[p].csize, run[p].buf)))
  /\ UNCHANGED <<versions, staging, net, sessions, faults>>

\* Mutant: an object of that name is enough.
StoredByName(r) == \E o \in remote : o.name = ThisName(r)

\* verify(): the object, read back as a whole, has the recorded bytes.
Stored(r) == Holds(remote, ThisName(r), This(r).raw)

\* On resume an unfinished chunk is looked for on the remote first; an error
\* reading the remote is taken for a missing object.
Reconcile(p) ==
  LET r == run[p]
  IN /\ At(p, "reconcile")
     /\ \/ /\ Goto(p, IF Stored(r) THEN "verified" ELSE "staged")
           /\ UNCHANGED faults
        \/ Fault /\ Goto(p, "staged")
     /\ UNCHANGED <<versions, file, staging, net, sessions>>

\* The staged file is uploaded if it has the recorded hash, else made again.
CheckStaged(p) ==
  LET r == run[p]
  IN /\ At(p, "staged")
     /\ run' = [run EXCEPT ![p] = [@ EXCEPT !.buf = <<>>, !.pc =
          IF [session |-> Session(r), index |-> r.idx, raw |-> This(r).raw] \in stage
            THEN "upload" ELSE "read"]]
     /\ UNCHANGED <<versions, file, staging, net, sessions, faults, lock>>

\* zclone copyto reports success; the bytes that arrived may be others.
Transfer(name, body) ==
  /\ \/ remote' = Put(remote, name, body) /\ UNCHANGED faults
     \/ Fault /\ remote' = Put(remote, name, Damaged)
  /\ UNCHANGED <<orphans, reported>>

\* Mutant: the checkpoint is written whatever the journal says already.
AfterUploadAlways(r) == "uploaded"

\* Only a chunk that was just prepared gets the "uploaded" checkpoint.
AfterUpload(r) == IF StateOf(r.events, r.idx) = "prepared" THEN "uploaded" ELSE "verify"

Upload(p) ==
  LET r == run[p]
  IN /\ At(p, "upload")
     /\ Transfer(ThisName(r), This(r).raw)
     /\ Goto(p, AfterUpload(r))
     /\ UNCHANGED <<versions, file, staging, sessions>>

AppendUploaded(p) ==
  /\ At(p, "uploaded")
  /\ Write(p, Event("uploaded", This(run[p])))
  /\ UNCHANGED <<versions, staging, net, sessions, faults>>

Verify(p) ==
  /\ At(p, "verify")
  /\ GotoOrExit(p, Stored(run[p]), "verified")
  /\ UNCHANGED <<versions, file, staging, net, sessions, faults>>

AppendVerified(p) ==
  /\ At(p, "verified")
  /\ Write(p, Event("verified", This(run[p])))
  /\ UNCHANGED <<versions, staging, net, sessions, faults>>

\* The staged file of a verified chunk is deleted.
Clean(p) ==
  LET r == run[p]
  IN /\ At(p, "clean")
     /\ stage' = Unstage(Session(r), r.idx)
     /\ run' = [run EXCEPT ![p] = [r EXCEPT !.pc = "chunk", !.idx = r.idx + 1]]
     /\ UNCHANGED <<versions, file, partial, net, sessions, faults, lock>>

\* The last checks before the manifest: no chunk beyond the image, and the
\* source is still the same.
Final(p) ==
  LET r == run[p]
  IN /\ At(p, "final")
     /\ GotoOrExit(p, Identity = r.ident /\ \A n \in 2..Len(r.events) : r.events[n].chunk.index < r.idx,
                   "manifest")
     /\ UNCHANGED <<versions, file, staging, net, sessions, faults>>

UploadManifest(p) ==
  LET r == run[p]
  IN /\ At(p, "manifest")
     /\ Transfer(ManifestName(Session(r)), Manifest(r))
     /\ Goto(p, "report")
     /\ UNCHANGED <<versions, file, staging, sessions>>

\* The manifest is verified and its path printed; the command ends.
Report(p) ==
  LET r == run[p]
  IN /\ At(p, "report")
     /\ reported' = reported \cup {m \in {Manifest(r)} : Holds(remote, ManifestName(Session(r)), m)}
     /\ Exit(p)
     /\ UNCHANGED <<versions, file, staging, remote, orphans, sessions, faults>>

-----------------------------------------------------------------------------
(* Failures *)

AppendPoints == {"header", "prepared", "uploaded", "verified"}

\* The object a running zclone copyto is storing.
Storing(r) ==
  CASE r.pc = "upload" -> {[name |-> ThisName(r), body |-> This(r).raw]}
    [] r.pc = "manifest" -> {[name |-> ManifestName(Session(r)), body |-> Manifest(r)]}
    [] OTHER -> {}

\* An exception ends the process after its `finally` clauses.  A failed write
\* may leave part of a line, a failed copyto may have stored the object or a
\* corrupted one.
Error(p) ==
  LET r == run[p]
  IN /\ ~At(p, "idle")
     /\ Fault
     /\ torn' \in {torn, r.pc \in AppendPoints}
     /\ partial' = IF r.pc = "read" THEN partial \ {<<Session(r), r.idx>>} ELSE partial
     /\ \/ UNCHANGED remote
        \/ \E o \in Storing(r) : \E body \in {o.body, Damaged} : remote' = Put(remote, o.name, body)
     /\ Exit(p)
     /\ UNCHANGED <<versions, journal, durable, stage, orphans, reported, sessions>>

\* SIGKILL: nothing is cleaned up, and a zclone child keeps running.
Kill(p) ==
  LET r == run[p]
  IN /\ ~At(p, "idle")
     /\ Fault
     /\ torn' \in {torn, r.pc \in AppendPoints}
     /\ orphans' = orphans \cup Storing(r)
     /\ Exit(p)
     /\ UNCHANGED <<versions, journal, durable, staging, remote, reported, sessions>>

\* An orphaned upload completes (or is given up) at any later time; what it
\* stores may be corrupted as any other.
OrphanEnds ==
  \E o \in orphans :
    /\ orphans' = orphans \ {o}
    /\ \/ remote' \in {remote, Put(remote, o.name, o.body)} /\ UNCHANGED faults
       \/ Fault /\ remote' = Put(remote, o.name, Spoilt)
    /\ UNCHANGED <<versions, file, staging, reported, sessions, lock, run>>

\* The machine stops: lines that were not fsynced may be lost or torn.
PowerLoss ==
  /\ Fault
  /\ \E n \in durable..Len(journal) : journal' = SubSeq(journal, 1, n) /\ durable' = n
  /\ torn' \in BOOLEAN
  /\ stage' = IF StageIsRam THEN {} ELSE stage
  /\ partial' = IF StageIsRam THEN {} ELSE partial
  /\ orphans' = {}
  /\ lock' = NoProc
  /\ run' = [p \in Proc |-> Idle]
  /\ UNCHANGED <<versions, remote, reported, sessions>>

\* Somebody writes to the image being recovered.
SourceWrite ==
  /\ Len(versions) < MaxVersions
  /\ \E k \in 1..Size, b \in Byte :
       versions' = Append(versions, [Source EXCEPT ![k] = b])
  /\ UNCHANGED <<file, staging, net, sessions, faults, lock, run>>

-----------------------------------------------------------------------------

\* What the program does by itself once started.
Step(p) ==
  \/ GetIdentity(p) \/ NewHeader(p) \/ Replay(p) \/ Fsync(p) \/ NextChunk(p)
  \/ Read(p) \/ Publish(p) \/ Recheck(p) \/ AppendPrepared(p)
  \/ Reconcile(p) \/ CheckStaged(p) \/ Upload(p) \/ AppendUploaded(p)
  \/ Verify(p) \/ AppendVerified(p) \/ Clean(p) \/ Final(p)
  \/ UploadManifest(p) \/ Report(p)

Next ==
  \/ \E p \in Proc : Open(p) \/ Step(p) \/ Error(p) \/ Kill(p)
  \/ OrphanEnds
  \/ PowerLoss
  \/ SourceWrite

Spec == Init /\ [][Next]_vars

\* The operator reruns the command until it completes, and a running
\* command is scheduled.  Faults are bounded, so they stop at last.
FairSpec == Spec /\ \A p \in Proc : WF_vars(Open(p)) /\ WF_vars(Step(p))

-----------------------------------------------------------------------------
(* Properties *)

Phase == {"idle", "identity", "header", "replay", "chunk", "read", "recheck", "prepared",
          "reconcile", "staged", "upload", "uploaded", "verify", "verified", "fsync", "clean",
          "final", "manifest", "report"}

ChunkRec == [index : Nat, offset : Nat, length : Int, raw : Seq(Byte)]

Line ==
  [state : {"header"}, session : Nat, source : Nat, chunk_size : Nat] \cup
  [state : {"prepared", "uploaded", "verified"}, chunk : ChunkRec]

Locals == [pc : Phase, csize : ChunkSizes \cup {0}, ident : Nat, events : Seq(Line),
           idx : Nat, buf : Seq(Byte)]

\* Type invariant of the uploader, its journal and its staging directory.
TypeOK ==
  /\ versions \in Seq([1..Size -> Byte]) /\ Len(versions) > 0
  /\ journal \in Seq(Line) /\ durable \in 0..Len(journal) /\ torn \in BOOLEAN
  /\ stage \subseteq [session : Nat, index : Nat, raw : Seq(Byte)]
  /\ partial \subseteq Nat \X Nat
  /\ sessions \in Nat /\ faults \in Nat
  /\ lock \in Proc \cup {NoProc}
  /\ run \in [Proc -> Locals]

\* The flock makes one process the only writer: everybody else is out of the
\* command, and the list of events it took decisions from is still what the
\* journal file holds, although other processes may start at any time.
SingleWriter ==
  \A p \in Proc : ~At(p, "idle") => lock = p /\ run[p].events = journal

\* Whatever was killed, torn or lost, the journal left behind is one that
\* upload() accepts when it is rerun with the same settings: it starts with
\* the header, the transitions are legal and the layout is the header's.
Resumable ==
  journal # <<>> =>
    /\ journal[1].state = "header"
    /\ Replayable(journal)
    /\ \A n \in 2..Len(journal) :
         ValidChunk(journal[n].chunk, journal[n].chunk.index, journal[1].chunk_size)

\* The chunk is stored with its bytes, or a corrupted upload of the same chunk,
\* left running by a process that was killed, came in after them.
Secured(store, s, ch) == \E body \in {ch.raw, Spoilt} : Holds(store, ChunkName(s, ch), body)

\* A chunk the journal calls verified is on the remote, with the recorded
\* bytes: no crash, corrupted transfer or late upload undoes it.  The one way
\* out is an upload that both outlived its process and arrived corrupted: a
\* chunk that has been verified is not looked at again.
VerifiedIsStored ==
  \A n \in 2..Len(journal) :
    journal[n].state = "verified" => Secured(remote, journal[1].session, journal[n].chunk)

\* The bytes of a chunk that has been journaled are never only in the source
\* again: the staged file or the remote object holds them, so that a source
\* that fails later costs nothing (persistent staging; the exception is that of
\* VerifiedIsStored).
BytesSurvive ==
  ~StageIsRam =>
    \A n \in 2..Len(journal) :
      LET s == journal[1].session
          c == journal[n].chunk
      IN \/ [session |-> s, index |-> c.index, raw |-> c.raw] \in stage
         \/ Secured(remote, s, c)

\* Every chunk in the journal holds the bytes the source had when the session
\* began, even when the source is written to between two pread() calls or
\* between two runs: identity() detects the write before the chunk is accepted.
JournalIsSnapshot ==
  Detectable =>
    \A n \in 2..Len(journal) :
      LET h == journal[1]
          c == journal[n].chunk
      IN c.raw = Raw(versions[h.source], c.index, h.chunk_size)

\* A manifest that was announced covers the image without gap or overlap, and
\* each chunk it lists is on the remote with the recorded bytes.  The ways
\* out: that of VerifiedIsStored, and a power loss that took the "verified" line,
\* which a rerun that had read it did not sync; the journal then has the chunk
\* as unfinished.
ReportedIsComplete ==
  \A m \in reported :
    LET c == m.chunks
    IN /\ c # <<>>
       /\ c[1].offset = 0 /\ c[Len(c)].offset + c[Len(c)].length = Size
       /\ \A k \in 1..(Len(c) - 1) : c[k + 1].offset = c[k].offset + c[k].length
       /\ \A k \in 1..Len(c) :
            \/ Secured(remote, m.header.session, c[k])
            \/ /\ journal # <<>> /\ journal[1].session = m.header.session
               /\ \A n \in 2..Len(journal) :
                    journal[n].state = "verified" => journal[n].chunk # c[k]

\* When the chunks are done nothing of the session is left in the staging
\* directory, whatever earlier runs of the session left there.
StagingIsClean ==
  \A p \in Proc : run[p].pc \in {"final", "manifest", "report"} =>
    /\ \A f \in stage : f.session # Session(run[p])
    /\ \A x \in partial : x[1] # Session(run[p])

\* A command that is rerun after every failure completes in the end, unless the
\* source changes, which a session refuses for good.
Completes == <>(reported # {} \/ Len(versions) > 1)

=============================================================================
