---------------------------- MODULE RecoverRestore ----------------------------
(***************************************************************************)
(* The other half of bin/zclone-recover.py: restore() turns a manifest and *)
(* its chunks into a local image file.  It runs on a machine of its own,   *)
(* at the same time as the uploader of module Recover, and shares nothing  *)
(* with it but the remote, whose objects may rot after they were verified. *)
(***************************************************************************)
EXTENDS Recover

CONSTANTS
  Restorer,     \* processes that run restore with the same output path
  Missing,      \* there is no file at the output path
  Foreign,      \* contents of a file somebody else puts there
  RemoteRots    \* TRUE: stored objects may be damaged or lost

ASSUME RestoreAssumption ==
  /\ RemoteRots \in BOOLEAN
  /\ Missing # Foreign

VARIABLES
  rest,      \* control state and local variables of each restorer
  output,    \* the file at the output path: [data, synced, entry]
  litter     \* contents of temporary files that nobody will delete

rvars == <<rest, output, litter>>
allvars == <<vars, rvars>>

\* Locals of restore(): the manifest, the chunk it is at and what has been
\* written to the temporary file.
RIdle == [pc |-> "idle", manifest |-> <<>>, k |-> 1, target |-> <<>>, synced |-> FALSE]

RInit ==
  /\ Init
  /\ rest = [q \in Restorer |-> RIdle] /\ output = Missing /\ litter = {}

RAt(q, l) == rest[q].pc = l

RGoto(q, l) == rest' = [rest EXCEPT ![q].pc = l]

\* The process ends and its `finally` clause deletes the temporary file.
RExit(q) == rest' = [rest EXCEPT ![q] = RIdle]

\* The loop's offset after k chunks, whose own offsets it has checked.
EndOf(chunks, k) == IF k = 0 THEN 0 ELSE chunks[k].offset + chunks[k].length

\* Mutant: the last chunk is expected to be as long as the others.
CoversFullChunks(m) ==
  /\ \A k \in 1..Len(m.chunks) : m.chunks[k].length = m.header.chunk_size
  /\ EndOf(m.chunks, Len(m.chunks)) = Size

\* The checks of the manifest: every chunk lies where the ones before it end,
\* none is extra, and together they cover the image.
Covers(m) ==
  /\ \A k \in 1..Len(m.chunks) :
       LET offset == EndOf(m.chunks, k - 1)
       IN /\ offset < Size
          /\ m.chunks[k].index = k - 1
          /\ m.chunks[k].offset = offset
          /\ m.chunks[k].length = IF m.header.chunk_size < Size - offset THEN m.header.chunk_size
                                                                         ELSE Size - offset
  /\ EndOf(m.chunks, Len(m.chunks)) = Size

RStart(q) ==
  /\ RAt(q, "idle")
  /\ output = Missing
  /\ RGoto(q, "manifest")
  /\ UNCHANGED <<vars, output, litter>>

\* mkstemp(): the temporary file is new and empty.
NewTarget == <<>>

\* The manifest is read in full and checked before anything is written.
ReadManifest(q) ==
  LET manifests == {o \in remote : o.name.kind = "manifest"}
  IN /\ RAt(q, "manifest")
     /\ \/ \E o \in manifests :
             IF o.body \notin {Damaged, Spoilt} /\ Covers(o.body)
               THEN rest' = [rest EXCEPT ![q] = [RIdle EXCEPT !.pc = "chunk", !.manifest = o.body,
                                                              !.target = NewTarget]]
               ELSE RExit(q)
        \/ manifests = {} /\ RExit(q)
     /\ UNCHANGED <<vars, output, litter>>

\* Mutant: the bytes are taken as they come.
IntactAlways(o, ch) == TRUE

\* The size and the digests of the object are those in the manifest.
Intact(o, ch) == o.body = ch.raw

\* One turn of the loop over the chunks: fetch, check, decompress, check.
RestoreChunk(q) ==
  LET r == rest[q]
      ch == r.manifest.chunks[r.k]
      name == ChunkName(r.manifest.header.session, ch)
      found == {o \in remote : o.name = name /\ Intact(o, ch)}
  IN /\ RAt(q, "chunk")
     /\ r.k <= Len(r.manifest.chunks)
     /\ \/ \E o \in found :
             rest' = [rest EXCEPT ![q] = [r EXCEPT !.k = r.k + 1, !.target = r.target \o o.body]]
        \/ found = {} /\ RExit(q)
     /\ UNCHANGED <<vars, output, litter>>

\* flush and fsync of the temporary file.
Finish(q) == rest' = [rest EXCEPT ![q] = [@ EXCEPT !.pc = "link", !.synced = TRUE]]

FinishTarget(q) ==
  /\ RAt(q, "chunk")
  /\ rest[q].k > Len(rest[q].manifest.chunks)
  /\ Finish(q)
  /\ UNCHANGED <<vars, output, litter>>

\* Mutant: os.replace instead of os.link.
LinkFreeAlways == TRUE

\* os.link succeeds only if nothing has the name.
LinkFree == output = Missing

\* The link publishes the file; on failure only the temporary file goes.
Link(q) ==
  /\ RAt(q, "link")
  /\ \/ /\ LinkFree
        /\ output' = [data |-> rest[q].target, synced |-> rest[q].synced, entry |-> FALSE]
        /\ RGoto(q, "syncdir")
     \/ /\ ~LinkFree
        /\ RExit(q)
        /\ UNCHANGED output
  /\ UNCHANGED <<vars, litter>>

\* sync_dir(output.parent), the end of the command.
SyncDir(q) ==
  /\ RAt(q, "syncdir")
  /\ output' = IF output = Missing THEN Missing ELSE [output EXCEPT !.entry = TRUE]
  /\ RExit(q)
  /\ UNCHANGED <<vars, litter>>

-----------------------------------------------------------------------------
(* Failures *)

uploader == <<versions, file, staging, orphans, reported, sessions, lock, run>>

\* An exception: the temporary file is deleted.
RError(q) ==
  /\ ~RAt(q, "idle")
  /\ Fault
  /\ RExit(q)
  /\ UNCHANGED <<uploader, remote, output, litter>>

\* SIGKILL: the temporary file stays.
RKill(q) ==
  /\ ~RAt(q, "idle")
  /\ Fault
  /\ RExit(q)
  /\ litter' = litter \cup {r.target : r \in {x \in {rest[q]} : x.pc \in {"chunk", "link", "syncdir"}}}
  /\ UNCHANGED <<uploader, remote, output>>

\* What may be at the output path after a power loss: a name whose directory
\* was not synced may be gone, contents that were not synced are lost.
AfterPowerLoss ==
  IF output = Missing THEN {Missing}
  ELSE {[data |-> IF output.synced THEN output.data ELSE <<>>, synced |-> TRUE, entry |-> TRUE]}
         \cup (IF output.entry THEN {} ELSE {Missing})

\* The restoring machine stops.
RPowerLoss ==
  /\ Fault
  /\ rest' = [q \in Restorer |-> RIdle]
  /\ output' \in AfterPowerLoss
  /\ UNCHANGED <<uploader, remote, litter>>

\* Somebody else creates a file with the name of the output.
OutputTaken ==
  /\ output = Missing
  /\ Fault
  /\ output' = [data |-> Foreign, synced |-> TRUE, entry |-> TRUE]
  /\ UNCHANGED <<uploader, remote, rest, litter>>

\* An object on the remote is damaged or lost.
Rot ==
  /\ RemoteRots
  /\ Fault
  /\ \E o \in remote :
       remote' \in {remote \ {o}, Put(remote, o.name, Damaged)}
  /\ UNCHANGED <<uploader, rvars>>

-----------------------------------------------------------------------------

RStep(q) ==
  ReadManifest(q) \/ RestoreChunk(q) \/ FinishTarget(q) \/ Link(q) \/ SyncDir(q)

RNext ==
  \/ Next /\ UNCHANGED rvars
  \/ \E q \in Restorer : RStart(q) \/ RStep(q) \/ RError(q) \/ RKill(q)
  \/ RPowerLoss
  \/ OutputTaken
  \/ Rot

RSpec == RInit /\ [][RNext]_allvars

\* Both commands are rerun until they succeed.
RFairSpec ==
  /\ RSpec
  /\ \A p \in Proc : WF_allvars(Open(p) /\ UNCHANGED rvars) /\ WF_allvars(Step(p) /\ UNCHANGED rvars)
  /\ \A q \in Restorer : WF_allvars(RStart(q)) /\ WF_allvars(RStep(q))

-----------------------------------------------------------------------------
(* Properties *)

RPhase == {"idle", "manifest", "chunk", "link", "syncdir"}

ManifestRec == [header : Line, chunks : Seq(ChunkRec)]

RLocals == [pc : RPhase, manifest : ManifestRec \cup {<<>>}, k : Nat \ {0}, target : Seq(Byte),
            synced : BOOLEAN]

\* Type invariant of the restorer, and of the manifests it may come across.
RTypeOK ==
  /\ rest \in [Restorer -> RLocals]
  /\ output \in {Missing} \cup [data : Seq(Byte) \cup {Foreign}, synced : BOOLEAN, entry : BOOLEAN]
  /\ \A o \in remote \cup orphans : o.name.kind = "manifest" => o.body \in ManifestRec \cup {Damaged, Spoilt}

\* End to end: the image that restore() publishes is, byte for byte, a version
\* the source had when a session began, although the source was written to,
\* processes and machines failed, transfers were corrupted and objects rotted;
\* a file that was published stays whole after a power loss.
RestoredIsSnapshot ==
  Detectable /\ output # Missing =>
    output.data = Foreign \/ \E v \in 1..Len(versions) : output.data = versions[v]

\* What lies at the output path is never replaced, whoever put it there and
\* however many restorers run: only a power loss before the directory was
\* synced removes it.
NeverReplaced == [][output # Missing /\ output' # Missing => output'.data = output.data]_allvars

\* Once an upload has been announced, a restore that is rerun after failures
\* produces the file, unless a late upload spoilt a chunk, or the source changes:
\* a rerun of the upload writes the manifest again, and if it arrives damaged no
\* later rerun gets as far.
RestoreCompletes ==
  reported # {} ~> \/ output # Missing
                   \/ Len(versions) > 1
                   \/ \E o \in remote : o.name.kind = "chunk" /\ o.body = Spoilt

=============================================================================
