------------------------ MODULE RecoverRestoreProofs ------------------------
(***************************************************************************)
(* Proofs about upload and restore working side by side: what restore()    *)
(* publishes is a version of the image, and it never replaces a file.      *)
(***************************************************************************)
EXTENDS RecoverRestore, RecoverProofs

-----------------------------------------------------------------------------
(* The inductive invariant, on top of CInv and JInv *)

\* The manifest lists chunks where its chunk size puts them, with the bytes of
\* the version its session was begun for.
Good(m) ==
  /\ m \in ManifestRec
  /\ m.header.chunk_size \in ChunkSizes
  /\ \A k \in 1..Len(m.chunks) : ValidChunk(m.chunks[k], k - 1, m.header.chunk_size)
  /\ Detectable => m.header.source \in 1..Len(versions)
  /\ Detectable => \A k \in 1..Len(m.chunks) :
       m.chunks[k].raw = Raw(versions[m.header.source], k - 1, m.header.chunk_size)

\* A manifest on its way or on the remote is good, unless it is damaged.
GoodObject(o) == o.name.kind = "manifest" => o.body \in {Damaged, Spoilt} \/ Good(o.body)

GoodStored == \A o \in remote \cup orphans : GoodObject(o)

\* The first n units of the image.
Begins(t, image, n) == Len(t) = n /\ \A j \in 1..n : t[j] = image[j]

\* What a restorer has written to its temporary file.
Restoring(r) ==
  r.pc \in {"chunk", "link", "syncdir"} =>
    /\ Good(r.manifest) /\ Covers(r.manifest)
    /\ r.k \in 1..(Len(r.manifest.chunks) + 1)
    /\ Detectable =>
         Begins(r.target, versions[r.manifest.header.source], EndOf(r.manifest.chunks, r.k - 1))
    /\ r.pc # "chunk" => r.k = Len(r.manifest.chunks) + 1
    /\ r.pc = "link" => r.synced = TRUE

\* A file gets the name of the output when its contents are safe.
OutputSafe == output # Missing => output.synced = TRUE

OutputTyped ==
  output \in {Missing} \cup [data : Seq(Byte) \cup {Foreign}, synced : BOOLEAN, entry : BOOLEAN]

RInv ==
  /\ GoodStored
  /\ rest \in [Restorer -> RLocals]
  /\ \A q \in Restorer : Restoring(rest[q])
  /\ OutputTyped /\ OutputSafe /\ RestoredIsSnapshot

-----------------------------------------------------------------------------
(* Manifests *)

\* The objects of a store to which one was added.
LEMMA PutFacts ==
  ASSUME NEW store, NEW name, NEW body, NEW o \in Put(store, name, body)
  PROVE  o \in store \/ (o.name = name /\ o.body = body)
  BY DEF Put

\* The manifest a helper uploads is good.
LEMMA GoodManifest ==
  ASSUME CInv, JInv, NEW p \in Proc, run[p].pc = "manifest"
  PROVE  Good(Manifest(run[p]))
  <1> DEFINE r == run[p]
             ev == r.events
             N == r.idx
             c == r.csize
             ch == [k \in 1..N |-> ChunkOf(ev, k - 1)]
             m == Manifest(r)
  <1>1. ~At(p, "idle") /\ r.pc \in InSession
    BY DEF InSession, At, Phase
  <1>2. /\ ev = journal /\ journal \in Seq(Line) /\ Shape(journal) /\ N \in Nat /\ c \in ChunkSizes
        /\ Knows(r.pc, r) /\ Placed(r.pc, r)
    BY <1>1, Running DEF JInv, Placed
  <1>3. journal # <<>> /\ journal[1].chunk_size = c /\ journal[1].source = r.ident
    BY <1>1, <1>2 DEF Knows, Placed
  <1>4. /\ m.header = journal[1] /\ m.chunks = ch
        /\ m = [header |-> journal[1], chunks |-> ch]
    BY <1>2 DEF Manifest
  <1> HIDE DEF m
  <1>5. journal[1] \in Line
    BY <1>2, <1>3
  <1>6. ASSUME NEW k \in 1..N
        PROVE  /\ ch[k] \in ChunkRec /\ ValidChunk(ch[k], k - 1, c)
               /\ Detectable => ch[k].raw = Raw(versions[journal[1].source], k - 1, c)
    <2>1. k - 1 \in 0..(N - 1) /\ k - 1 \in Nat
      BY <1>2
    <2>2. PICK n \in 2..Len(journal) : journal[n].chunk.index = k - 1
      BY <1>2, <2>1 DEF Placed, Through, Verified
    <2>3. n \in EventsOf(journal, k - 1)
      BY <2>2 DEF EventsOf
    <2>4. ChunkOf(ev, k - 1) \in ChunkRec /\ journal[n].chunk = ChunkOf(ev, k - 1)
      BY <1>2, <2>1, <2>3, ThisChunk
    <2>5. ValidChunk(journal[n].chunk, k - 1, c)
      BY <1>3, <2>2 DEF JInv, Laid
    <2>6. Detectable => journal[n].chunk.raw = Raw(versions[journal[1].source], k - 1, c)
      BY <1>3, <2>2 DEF JInv, JournalIsSnapshot
    <2>7. ch[k] = journal[n].chunk
      BY <2>4
    <2>8. QED
      BY <2>4, <2>5, <2>6, <2>7
  <1>7. Len(ch) = N /\ ch \in Seq(ChunkRec)
    <2>1. Len(ch) = N
      BY <1>2
    <2>2. ch \in [1..N -> ChunkRec]
      BY <1>6
    <2> HIDE DEF ch
    <2>3. ch \in Seq(ChunkRec)
      BY <1>2, <2>2
    <2>4. QED
      BY <2>1, <2>3
  <1> HIDE DEF ch
  <1>8. m \in ManifestRec
    BY <1>4, <1>5, <1>7 DEF ManifestRec
  <1>9. Detectable => journal[1].source \in 1..Len(versions)
    BY <1>3 DEF JInv, Headed
  <1>10. Good(m)
    BY <1>2, <1>3, <1>4, <1>6, <1>7, <1>8, <1>9 DEF Good
  <1>11. QED
    BY <1>10 DEF m

\* The image keeps the versions it has had.
LEMMA VersionsGrow ==
  ASSUME CInv, [Next]_vars
  PROVE  /\ Len(versions) \in Nat /\ Len(versions') \in Nat /\ Len(versions') >= Len(versions)
         /\ \A v \in 1..Len(versions) : versions'[v] = versions[v]
  <1>1. versions \in Seq([1..Size -> Byte]) /\ Len(versions) \in Nat
    BY DEF CInv, TypeOK
  <1>2. CASE UNCHANGED versions
    BY <1>1, <1>2
  <1>3. CASE SourceWrite
    <2>1. PICK new : versions' = Append(versions, new)
      BY <1>3 DEF SourceWrite
    <2>2. QED
      BY <1>1, <2>1
  <1>4. CASE UNCHANGED vars
    BY <1>2, <1>4 DEF vars
  <1>5. ASSUME NEW p \in Proc, Open(p) \/ Step(p) \/ Error(p) \/ Kill(p)
        PROVE  UNCHANGED versions
    BY <1>5 DEF Open, Step, Error, Kill, GetIdentity, NewHeader, Replay, Fsync, NextChunk, Read, Publish,
         Recheck, AppendPrepared, Reconcile, CheckStaged, Upload, AppendUploaded, Verify,
         AppendVerified, Clean, Final, UploadManifest, Report
  <1>6. CASE OrphanEnds \/ PowerLoss
    BY <1>2, <1>6 DEF OrphanEnds, PowerLoss
  <1>7. QED
    BY <1>2, <1>3, <1>4, <1>5, <1>6 DEF Next

\* A good manifest stays good.
LEMMA GoodStays ==
  ASSUME Len(versions) \in Nat, Len(versions') \in Nat, Len(versions') >= Len(versions),
         \A v \in 1..Len(versions) : versions'[v] = versions[v],
         NEW m, Good(m)
  PROVE  Good(m)'
  <1>1. Detectable => /\ m.header.source \in 1..Len(versions')
                      /\ versions'[m.header.source] = versions[m.header.source]
    BY DEF Good
  <1>2. QED
    BY <1>1 DEF Good

\* So does what a restorer has written.
LEMMA RestoringStays ==
  ASSUME Len(versions) \in Nat, Len(versions') \in Nat, Len(versions') >= Len(versions),
         \A v \in 1..Len(versions) : versions'[v] = versions[v],
         NEW r, Restoring(r)
  PROVE  Restoring(r)'
  <1> SUFFICES ASSUME r.pc \in {"chunk", "link", "syncdir"} PROVE Restoring(r)'
    BY DEF Restoring
  <1>1. Good(r.manifest)'
    BY GoodStays DEF Restoring
  <1>2. Detectable => versions'[r.manifest.header.source] = versions[r.manifest.header.source]
    BY DEF Restoring, Good
  <1>3. Covers(r.manifest)'
    BY DEF Restoring, Covers
  <1>4. QED
    BY <1>1, <1>2, <1>3 DEF Restoring

\* Manifests get on the remote from a helper or an orphaned upload only.
LEMMA Sources ==
  ASSUME CInv, Next, NEW o \in remote' \cup orphans', o.name.kind = "manifest"
  PROVE  \/ \E x \in remote \cup orphans : o.name = x.name /\ o.body = x.body
         \/ \E p \in Proc : run[p].pc = "manifest" /\ o.body = Manifest(run[p])
         \/ o.body \in {Damaged, Spoilt}
  <1>1. ASSUME NEW p \in Proc, NEW x \in Storing(run[p]), x.name.kind = "manifest"
        PROVE  run[p].pc = "manifest" /\ x.body = Manifest(run[p])
    <2>1. CASE run[p].pc = "upload"
      BY <1>1, <2>1 DEF Storing, ThisName, ChunkName
    <2>2. CASE run[p].pc = "manifest"
      BY <1>1, <2>2 DEF Storing
    <2>3. QED
      BY <1>1, <2>1, <2>2 DEF Storing
  <1>2. CASE UNCHANGED <<remote, orphans>>
    BY <1>2
  <1>3. ASSUME NEW p \in Proc, Upload(p)
        PROVE  o \in remote \cup orphans
    <2>1. orphans' = orphans /\ \E b : remote' = Put(remote, ThisName(run[p]), b)
      BY <1>3 DEF Upload, Transfer
    <2>2. ThisName(run[p]).kind = "chunk"
      BY DEF ThisName, ChunkName
    <2>3. QED
      BY <2>1, <2>2, PutFacts
  <1>4. ASSUME NEW p \in Proc, UploadManifest(p)
        PROVE  \/ o \in remote \cup orphans
               \/ run[p].pc = "manifest" /\ o.body = Manifest(run[p])
               \/ o.body = Damaged
    <2>1. /\ orphans' = orphans /\ run[p].pc = "manifest"
          /\ \E b \in {Manifest(run[p]), Damaged} :
               remote' = Put(remote, ManifestName(Session(run[p])), b)
      BY <1>4 DEF UploadManifest, Transfer, At
    <2>2. QED
      BY <2>1, PutFacts
  <1>5. ASSUME NEW p \in Proc, Error(p)
        PROVE  \/ o \in remote \cup orphans
               \/ run[p].pc = "manifest" /\ o.body = Manifest(run[p])
               \/ o.body = Damaged
    <2>1. /\ orphans' = orphans
          /\ \/ remote' = remote
             \/ \E x \in Storing(run[p]) : \E b \in {x.body, Damaged} : remote' = Put(remote, x.name, b)
      BY <1>5 DEF Error
    <2>2. QED
      BY <2>1, <1>1, PutFacts
  <1>6. ASSUME NEW p \in Proc, Kill(p)
        PROVE  \/ o \in remote \cup orphans
               \/ run[p].pc = "manifest" /\ o.body = Manifest(run[p])
               \/ o.body = Damaged
    <2>1. orphans' = orphans \cup Storing(run[p]) /\ remote' = remote
      BY <1>6 DEF Kill
    <2>2. QED
      BY <2>1, <1>1
  <1>7. CASE OrphanEnds
    <2>1. PICK x \in orphans : /\ orphans' = orphans \ {x}
                               /\ \/ remote' = remote
                                  \/ \E b \in {x.body, Spoilt} : remote' = Put(remote, x.name, b)
      BY <1>7 DEF OrphanEnds
    <2>2. QED
      BY <2>1, PutFacts
  <1>8. CASE PowerLoss
    BY <1>8 DEF PowerLoss
  <1>9. CASE SourceWrite
    BY <1>2, <1>9 DEF SourceWrite, net
  <1>10. ASSUME NEW p \in Proc, Open(p) \/ Step(p)
         PROVE  Upload(p) \/ UploadManifest(p) \/ UNCHANGED <<remote, orphans>>
    BY <1>10 DEF Open, Step, GetIdentity, NewHeader, Replay, Fsync, NextChunk, Read, Publish,
         Recheck, AppendPrepared, Reconcile, CheckStaged, AppendUploaded, Verify,
         AppendVerified, Clean, Final, Report, net
  <1>11. QED
    BY <1>2, <1>3, <1>4, <1>5, <1>6, <1>7, <1>8, <1>9, <1>10 DEF Next

\* Hence the manifests stay good.
LEMMA StoredStay ==
  ASSUME CInv, JInv, GoodStored, [Next]_vars
  PROVE  GoodStored'
  <1>1. \A m : Good(m) => Good(m)'
    BY VersionsGrow, GoodStays
  <1>2. ASSUME NEW o, GoodObject(o) PROVE GoodObject(o)'
    BY <1>1, <1>2 DEF GoodObject
  <1>3. CASE UNCHANGED vars
    BY <1>2, <1>3 DEF vars, net, GoodStored
  <1>4. CASE Next
    <2> SUFFICES ASSUME NEW o \in remote' \cup orphans', o.name.kind = "manifest"
                 PROVE  o.body \in {Damaged, Spoilt} \/ Good(o.body)'
      BY DEF GoodStored, GoodObject
    <2>1. CASE \E x \in remote \cup orphans : o.name = x.name /\ o.body = x.body
      BY <1>1, <2>1 DEF GoodStored, GoodObject
    <2>2. CASE \E p \in Proc : run[p].pc = "manifest" /\ o.body = Manifest(run[p])
      BY <1>1, <2>2, GoodManifest
    <2>3. QED
      BY <1>4, <2>1, <2>2, Sources
  <1>5. QED
    BY <1>3, <1>4

-----------------------------------------------------------------------------
(* Steps of the uploader *)

\* A published file stays a version of the image.
LEMMA SnapshotStays ==
  ASSUME RestoredIsSnapshot, UNCHANGED output, Len(versions) \in Nat, Len(versions') \in Nat,
         Len(versions') >= Len(versions), \A v \in 1..Len(versions) : versions'[v] = versions[v]
  PROVE  RestoredIsSnapshot'
  <1>1. \A v \in 1..Len(versions) : v \in 1..Len(versions')
    OBVIOUS
  <1>2. QED
    BY <1>1 DEF RestoredIsSnapshot

\* A step of the uploader preserves the invariant of the restorers.
LEMMA UploaderStep ==
  ASSUME CInv, JInv, RInv, [Next]_vars, UNCHANGED rvars
  PROVE  RInv'
  <1>1. GoodStored'
    BY StoredStay DEF RInv
  <1>2. UNCHANGED <<rest, output>>
    BY DEF rvars
  <1>3. \A q \in Restorer : Restoring(rest[q])'
    <2> SUFFICES ASSUME NEW q \in Restorer PROVE Restoring(rest[q])'
      OBVIOUS
    <2>1. PICK r : r = rest[q]
      OBVIOUS
    <2>2. Restoring(r) /\ rest'[q] = r
      BY <1>2, <2>1 DEF RInv
    <2>3. Restoring(r)'
      BY <2>2, VersionsGrow, RestoringStays
    <2>4. QED
      BY <2>2, <2>3
  <1>4. RestoredIsSnapshot'
    BY <1>2, VersionsGrow, SnapshotStays DEF RInv
  <1>5. QED
    BY <1>1, <1>2, <1>3, <1>4 DEF RInv, OutputTyped, OutputSafe

-----------------------------------------------------------------------------
(* Steps of the restorers *)

\* An idle restorer has written nothing.
LEMMA IdleRestorer == RIdle \in RLocals /\ Restoring(RIdle)
  <1>1. RIdle \in RLocals
    <2>1. <<>> \in Seq(Byte) /\ 1 \in Nat \ {0} /\ FALSE \in BOOLEAN
      OBVIOUS
    <2>2. QED
      BY <2>1 DEF RIdle, RLocals, RPhase
  <1>2. QED
    BY <1>1 DEF RIdle, Restoring

\* A step of one restorer that touches nothing but its own locals.
LEMMA OwnStep ==
  ASSUME RInv, NEW q \in Restorer, NEW x \in RLocals, Restoring(x),
         rest' = [rest EXCEPT ![q] = x], UNCHANGED <<versions, remote, orphans, output>>
  PROVE  RInv'
  <1>1. rest' \in [Restorer -> RLocals]
    BY DEF RInv
  <1>2. \A u \in Restorer : rest'[u] = IF u = q THEN x ELSE rest[u]
    BY DEF RInv
  <1>3. \A u \in Restorer : Restoring(rest'[u])
    BY <1>2 DEF RInv
  <1>4. \A u \in Restorer : Restoring(rest[u])'
    BY <1>3 DEF Restoring, Good, Covers
  <1>5. GoodStored' /\ OutputTyped' /\ OutputSafe' /\ RestoredIsSnapshot'
    BY DEF RInv, GoodStored, GoodObject, Good, OutputTyped, OutputSafe, RestoredIsSnapshot
  <1>6. QED
    BY <1>1, <1>4, <1>5 DEF RInv

\* Ending the process is such a step.
LEMMA REnds ==
  ASSUME RInv, NEW q \in Restorer, RExit(q), UNCHANGED <<versions, remote, orphans, output>>
  PROVE  RInv'
  <1>1. PICK x \in RLocals : x = RIdle
    BY IdleRestorer
  <1>2. Restoring(x) /\ rest' = [rest EXCEPT ![q] = x]
    BY <1>1, IdleRestorer DEF RExit
  <1>3. QED
    BY <1>2, OwnStep

\* The checks at the start and the manifest.
LEMMA ManifestStep ==
  ASSUME RInv, NEW q \in Restorer, RStart(q) \/ ReadManifest(q)
  PROVE  RInv'
  <1>1. UNCHANGED <<versions, remote, orphans, output>>
    BY DEF RStart, ReadManifest, vars, net
  <1>2. CASE RStart(q)
    <2> DEFINE x == [rest[q] EXCEPT !.pc = "manifest"]
    <2>1. rest[q] \in RLocals /\ rest \in [Restorer -> RLocals]
      BY DEF RInv
    <2>2. x \in RLocals /\ x.pc = "manifest"
      BY <2>1 DEF RLocals, RPhase
    <2>3. rest' = [rest EXCEPT ![q] = x]
      BY <1>2, <2>1 DEF RStart, RGoto
    <2> HIDE DEF x
    <2>4. Restoring(x)
      BY <2>2 DEF Restoring
    <2>5. QED
      BY <1>1, <2>2, <2>3, <2>4, OwnStep
  <1>3. ASSUME NEW o \in remote, o.name.kind = "manifest", o.body \notin {Damaged, Spoilt}, Covers(o.body),
               rest' = [rest EXCEPT ![q] = [RIdle EXCEPT !.pc = "chunk", !.manifest = o.body,
                                                         !.target = NewTarget]]
        PROVE  RInv'
    <2> DEFINE m == o.body
               x == [RIdle EXCEPT !.pc = "chunk", !.manifest = m, !.target = NewTarget]
    <2>1. Good(m)
      BY <1>3 DEF RInv, GoodStored, GoodObject
    <2>2. m \in ManifestRec /\ Covers(m)
      BY <1>3, <2>1 DEF Good
    <2> HIDE DEF m
    <2>3. /\ x.pc = "chunk" /\ x.manifest = m /\ x.target = <<>> /\ x.k = 1
          /\ x \in RLocals
      BY <2>2, IdleRestorer DEF RIdle, NewTarget, RLocals, RPhase
    <2>4. rest' = [rest EXCEPT ![q] = x]
      BY <1>3 DEF m
    <2> HIDE DEF x
    <2>5. 1 \in 1..(Len(m.chunks) + 1) /\ EndOf(m.chunks, 1 - 1) = 0
      BY <2>2 DEF ManifestRec, EndOf
    <2>6. \A image : Begins(<<>>, image, 0)
      BY DEF Begins
    <2>7. Restoring(x)
      BY <2>1, <2>2, <2>3, <2>5, <2>6 DEF Restoring
    <2>8. QED
      BY <1>1, <2>3, <2>4, <2>7, OwnStep
  <1>4. CASE ReadManifest(q)
    <2>1. \/ RExit(q)
          \/ \E o \in remote : /\ o.name.kind = "manifest" /\ o.body \notin {Damaged, Spoilt} /\ Covers(o.body)
                               /\ rest' = [rest EXCEPT ![q] = [RIdle EXCEPT !.pc = "chunk",
                                                   !.manifest = o.body, !.target = NewTarget]]
      BY <1>4 DEF ReadManifest
    <2>2. CASE RExit(q)
      BY <1>1, <2>2, REnds
    <2>3. QED
      BY <1>3, <2>1, <2>2
  <1>5. QED
    BY <1>2, <1>4

\* What the checks of the manifest say of one chunk.
LEMMA ChunkFacts ==
  ASSUME NEW m, Good(m), Covers(m), NEW k \in 1..Len(m.chunks)
  PROVE  /\ m.chunks[k] \in ChunkRec
         /\ EndOf(m.chunks, k - 1) \in Nat
         /\ EndOf(m.chunks, k - 1) = Offset(k - 1, m.header.chunk_size)
         /\ Length(k - 1, m.header.chunk_size) \in Nat \ {0}
         /\ EndOf(m.chunks, k) = EndOf(m.chunks, k - 1) + Length(k - 1, m.header.chunk_size)
  <1> DEFINE c == m.header.chunk_size
             e == EndOf(m.chunks, k - 1)
             ch == m.chunks[k]
  <1>1. ch \in ChunkRec /\ ch.offset \in Nat /\ k \in Nat \ {0} /\ k - 1 \in Nat /\ c \in ChunkSizes
    <2>1. m.chunks \in Seq(ChunkRec) /\ c \in ChunkSizes
      BY DEF Good, ManifestRec
    <2>2. ch \in ChunkRec
      BY <2>1
    <2>3. QED
      BY <2>1, <2>2 DEF ChunkRec
  <1>2. ch.offset = Offset(k - 1, c) /\ ch.length = Length(k - 1, c)
    BY DEF Good, ValidChunk
  <1>3. e < Size /\ ch.offset = e
    BY DEF Covers
  <1>4. ~Beyond(k - 1, c)
    BY <1>1, <1>2, <1>3, RecoverAssumption DEF Beyond
  <1>5. Length(k - 1, c) \in Nat \ {0}
    BY <1>1, <1>4, LayoutFacts
  <1>6. EndOf(m.chunks, k) = ch.offset + ch.length
    BY <1>1 DEF EndOf
  <1>7. QED
    BY <1>1, <1>2, <1>3, <1>5, <1>6

\* A chunk is added to the temporary file where the ones before it end.
LEMMA ChunkAdded ==
  ASSUME NEW m, Good(m), Covers(m), NEW k \in 1..Len(m.chunks), NEW t \in Seq(Byte), Detectable,
         Begins(t, versions[m.header.source], EndOf(m.chunks, k - 1))
  PROVE  Begins(t \o m.chunks[k].raw, versions[m.header.source], EndOf(m.chunks, k))
  <1> DEFINE c == m.header.chunk_size
             e == EndOf(m.chunks, k - 1)
             d == Length(k - 1, c)
             image == versions[m.header.source]
             raw == m.chunks[k].raw
             new == t \o raw
  <1>1. /\ m.chunks[k] \in ChunkRec /\ e \in Nat /\ e = Offset(k - 1, c) /\ d \in Nat \ {0}
        /\ EndOf(m.chunks, k) = e + d
    BY ChunkFacts
  <1>2. raw \in Seq(Byte)
    BY <1>1 DEF ChunkRec
  <1>3. raw = [j \in 1..d |-> image[Offset(k - 1, c) + j]]
    BY DEF Good, Raw
  <1>4. Len(t) = e /\ \A j \in 1..e : t[j] = image[j]
    BY DEF Begins
  <1> HIDE DEF e, d, image, raw, c
  <1>5. Len(raw) = d /\ \A j \in 1..d : raw[j] = image[e + j]
    BY <1>1, <1>3
  <1>6. /\ Len(new) = e + d
        /\ \A j \in 1..(e + d) : new[j] = IF j <= e THEN t[j] ELSE raw[j - e]
    BY <1>2, <1>4, <1>5, ConcatFacts
  <1> HIDE DEF new
  <1>7. \A j \in 1..(e + d) : new[j] = image[j]
    <2> SUFFICES ASSUME NEW j \in 1..(e + d) PROVE new[j] = image[j]
      OBVIOUS
    <2>1. CASE j <= e
      BY <1>1, <1>4, <1>6, <2>1
    <2>2. CASE j > e
      <3>1. j - e \in 1..d /\ e + (j - e) = j /\ ~(j <= e)
        BY <1>1, <2>2
      <3>2. QED
        BY <1>5, <1>6, <3>1
    <2>3. QED
      BY <1>1, <2>1, <2>2
  <1>8. QED
    BY <1>1, <1>6, <1>7 DEF Begins, new, raw, image, e

\* One turn of the loop over the chunks.
LEMMA ChunkStep ==
  ASSUME RInv, NEW q \in Restorer, RestoreChunk(q)
  PROVE  RInv'
  <1>1. UNCHANGED <<versions, remote, orphans, output>>
    BY DEF RestoreChunk, vars, net
  <1>2. CASE RExit(q)
    BY <1>1, <1>2, REnds
  <1>3. CASE ~RExit(q)
    <2>1. PICK r : r = rest[q]
      OBVIOUS
    <2>2. PICK m : m = r.manifest
      OBVIOUS
    <2>3. /\ r \in RLocals /\ r.pc = "chunk" /\ Good(m) /\ Covers(m) /\ r.k \in 1..Len(m.chunks)
          /\ r.target \in Seq(Byte) /\ m \in ManifestRec
          /\ Detectable => Begins(r.target, versions[m.header.source], EndOf(m.chunks, r.k - 1))
      <3>1. r \in RLocals /\ r.pc = "chunk" /\ Restoring(r) /\ r.k <= Len(m.chunks)
        BY <2>1, <2>2 DEF RInv, RestoreChunk, RAt
      <3>2. r.target \in Seq(Byte) /\ r.k \in Nat \ {0}
        BY <3>1 DEF RLocals
      <3>3. /\ Good(m) /\ Covers(m)
            /\ Detectable => Begins(r.target, versions[m.header.source], EndOf(m.chunks, r.k - 1))
        BY <2>2, <3>1 DEF Restoring
      <3>4. m \in ManifestRec /\ Len(m.chunks) \in Nat
        BY <3>3 DEF Good, ManifestRec
      <3>5. QED
        BY <3>1, <3>2, <3>3, <3>4
    <2>4. PICK k : k = r.k
      OBVIOUS
    <2>5. PICK raw : raw = m.chunks[k].raw
      OBVIOUS
    <2>6. rest' = [rest EXCEPT ![q] = [r EXCEPT !.k = k + 1, !.target = r.target \o raw]]
      BY <1>3, <2>1, <2>2, <2>4, <2>5 DEF RestoreChunk, Intact
    <2> DEFINE new == r.target \o raw
               x == [r EXCEPT !.k = k + 1, !.target = new]
    <2>7. raw \in Seq(Byte) /\ new \in Seq(Byte)
      BY <2>3, <2>4, <2>5, ChunkFacts DEF ChunkRec
    <2>8. Detectable => Begins(new, versions[m.header.source], EndOf(m.chunks, k))
      BY <2>3, <2>4, <2>5, ChunkAdded
    <2> HIDE DEF new
    <2>9. k \in Nat \ {0} /\ (k + 1) - 1 = k /\ k + 1 \in 1..(Len(m.chunks) + 1)
      BY <2>3, <2>4 DEF ManifestRec
    <2>10. /\ x.pc = "chunk" /\ x.manifest = m /\ x.k = k + 1 /\ x.target = new /\ x \in RLocals
      <3>1. k + 1 \in Nat \ {0} /\ new \in Seq(Byte)
        BY <2>7, <2>9
      <3>2. x \in RLocals
        BY <2>3, <3>1 DEF RLocals
      <3>3. x.pc = "chunk" /\ x.manifest = m /\ x.k = k + 1 /\ x.target = new
        BY <2>2, <2>3 DEF RLocals
      <3>4. QED
        BY <3>2, <3>3
    <2>11. rest' = [rest EXCEPT ![q] = x]
      BY <2>6 DEF new
    <2> HIDE DEF x
    <2>12. Restoring(x)
      BY <2>3, <2>8, <2>9, <2>10 DEF Restoring
    <2>13. QED
      BY <1>1, <2>10, <2>11, <2>12, OwnStep
  <1>4. QED
    BY <1>2, <1>3

\* When the loop is through, the temporary file is synced.
LEMMA FinishStep ==
  ASSUME RInv, NEW q \in Restorer, FinishTarget(q)
  PROVE  RInv'
  <1>1. UNCHANGED <<versions, remote, orphans, output>>
    BY DEF FinishTarget, vars, net
  <1>2. PICK r : r = rest[q]
    OBVIOUS
  <1>3. /\ r \in RLocals /\ r.pc = "chunk" /\ Restoring(r) /\ r.k > Len(r.manifest.chunks)
        /\ rest' = [rest EXCEPT ![q] = [r EXCEPT !.pc = "link", !.synced = TRUE]]
    BY <1>2 DEF RInv, FinishTarget, Finish, RAt
  <1> DEFINE x == [r EXCEPT !.pc = "link", !.synced = TRUE]
  <1>4. /\ x.pc = "link" /\ x.synced = TRUE /\ x.manifest = r.manifest /\ x.k = r.k
        /\ x.target = r.target /\ x \in RLocals
    BY <1>3 DEF RLocals, RPhase
  <1>5. rest' = [rest EXCEPT ![q] = x]
    BY <1>3
  <1> HIDE DEF x
  <1>6. /\ Good(r.manifest) /\ Covers(r.manifest)
        /\ r.k \in 1..(Len(r.manifest.chunks) + 1)
        /\ Detectable =>
             Begins(r.target, versions[r.manifest.header.source], EndOf(r.manifest.chunks, r.k - 1))
    BY <1>3 DEF Restoring
  <1>7. Len(r.manifest.chunks) \in Nat
    BY <1>6 DEF Good, ManifestRec
  <1>8. r.k = Len(r.manifest.chunks) + 1
    BY <1>3, <1>6, <1>7
  <1>9. Restoring(x)
    BY <1>4, <1>6, <1>8 DEF Restoring
  <1>10. QED
    BY <1>1, <1>4, <1>5, <1>9, OwnStep

\* A temporary file that is through with the manifest is a version of the image.
LEMMA Whole ==
  ASSUME CInv, NEW r \in RLocals, Restoring(r), r.pc = "link", Detectable
  PROVE  \E v \in 1..Len(versions) : r.target = versions[v]
  <1> DEFINE m == r.manifest
             v == m.header.source
             t == r.target
  <1>1. /\ Good(m) /\ Covers(m) /\ r.k = Len(m.chunks) + 1
        /\ Begins(t, versions[v], EndOf(m.chunks, r.k - 1))
    BY DEF Restoring
  <1>2. Len(m.chunks) \in Nat /\ v \in 1..Len(versions)
    BY <1>1 DEF Good, ManifestRec
  <1>3. EndOf(m.chunks, r.k - 1) = Size
    <2>1. r.k - 1 = Len(m.chunks)
      BY <1>1, <1>2
    <2>2. QED
      BY <1>1, <2>1 DEF Covers
  <1>4. t \in Seq(Byte)
    BY DEF RLocals
  <1>5. Len(t) = Size /\ \A j \in 1..Size : t[j] = versions[v][j]
    BY <1>1, <1>3 DEF Begins
  <1>6. versions[v] \in [1..Size -> Byte]
    BY <1>2 DEF CInv, TypeOK
  <1> HIDE DEF v, t
  <1>7. t \in [1..Size -> Byte]
    BY <1>4, <1>5
  <1>8. t = versions[v]
    BY <1>5, <1>6, <1>7
  <1>9. QED
    BY <1>2, <1>8 DEF t

\* Steps that put something at the output path, or mark it as synced.
LEMMA OutputStep ==
  ASSUME RInv, NEW q \in Restorer, RExit(q) \/ (RGoto(q, "syncdir") /\ RAt(q, "link")),
         UNCHANGED <<versions, remote, orphans>>,
         OutputTyped', OutputSafe', RestoredIsSnapshot'
  PROVE  RInv'
  <1>1. PICK r : r = rest[q]
    OBVIOUS
  <1>2. r \in RLocals /\ Restoring(r) /\ rest \in [Restorer -> RLocals]
    BY <1>1 DEF RInv
  <1>3. PICK x \in RLocals : rest' = [rest EXCEPT ![q] = x] /\ Restoring(x)
    <2>1. CASE RExit(q)
      BY <2>1, IdleRestorer DEF RExit
    <2>2. CASE RGoto(q, "syncdir") /\ RAt(q, "link")
      <3> DEFINE y == [r EXCEPT !.pc = "syncdir"]
      <3>1. /\ y \in RLocals /\ y.pc = "syncdir" /\ y.manifest = r.manifest /\ y.k = r.k
            /\ y.target = r.target /\ r.pc = "link"
        BY <1>1, <1>2, <2>2 DEF RLocals, RPhase, RAt
      <3>2. rest' = [rest EXCEPT ![q] = y]
        BY <1>1, <1>2, <2>2 DEF RGoto
      <3> HIDE DEF y
      <3>3. Restoring(y)
        BY <1>2, <3>1 DEF Restoring
      <3>4. QED
        BY <3>1, <3>2, <3>3
    <2>3. QED
      BY <2>1, <2>2
  <1>4. rest' \in [Restorer -> RLocals]
    BY <1>2, <1>3
  <1>5. \A u \in Restorer : Restoring(rest'[u])
    BY <1>2, <1>3 DEF RInv
  <1>6. \A u \in Restorer : Restoring(rest[u])'
    BY <1>5 DEF Restoring, Good, Covers
  <1>7. GoodStored'
    BY DEF RInv, GoodStored, GoodObject, Good
  <1>8. QED
    BY <1>4, <1>6, <1>7 DEF RInv

\* The link and the sync of the directory.
LEMMA LinkStep ==
  ASSUME CInv, RInv, NEW q \in Restorer, Link(q) \/ SyncDir(q)
  PROVE  RInv'
  <1>1. UNCHANGED <<versions, remote, orphans>>
    BY DEF Link, SyncDir, vars, net
  <1>2. CASE RExit(q) /\ UNCHANGED output
    BY <1>1, <1>2, REnds
  <1>3. CASE Link(q) /\ ~(RExit(q) /\ UNCHANGED output)
    <2>1. PICK r : r = rest[q]
      OBVIOUS
    <2>2. /\ r \in RLocals /\ Restoring(r) /\ r.pc = "link" /\ RAt(q, "link") /\ RGoto(q, "syncdir")
          /\ output' = [data |-> r.target, synced |-> r.synced, entry |-> FALSE]
      BY <1>3, <2>1 DEF RInv, Link, RAt
    <2>3. r.synced = TRUE /\ r.target \in Seq(Byte) /\ r.synced \in BOOLEAN
      BY <2>2 DEF Restoring, RLocals
    <2>4. OutputTyped'
      BY <2>2, <2>3 DEF OutputTyped
    <2>5. OutputSafe'
      BY <2>2, <2>3 DEF OutputSafe
    <2>6. RestoredIsSnapshot'
      BY <1>1, <2>2, Whole DEF RestoredIsSnapshot
    <2>7. QED
      BY <1>1, <2>2, <2>4, <2>5, <2>6, OutputStep
  <1>4. CASE SyncDir(q) /\ output # Missing
    <2>1. RExit(q) /\ output' = [output EXCEPT !.entry = TRUE]
      BY <1>4 DEF SyncDir
    <2>2. output \in [data : Seq(Byte) \cup {Foreign}, synced : BOOLEAN, entry : BOOLEAN]
      BY <1>4 DEF RInv, OutputTyped
    <2>3. /\ output'.data = output.data /\ output'.synced = output.synced
          /\ output' \in [data : Seq(Byte) \cup {Foreign}, synced : BOOLEAN, entry : BOOLEAN]
      BY <2>1, <2>2
    <2>4. OutputTyped' /\ OutputSafe' /\ RestoredIsSnapshot'
      BY <1>1, <1>4, <2>3 DEF RInv, OutputTyped, OutputSafe, RestoredIsSnapshot
    <2>5. QED
      BY <1>1, <2>1, <2>4, OutputStep
  <1>5. CASE SyncDir(q) /\ output = Missing
    <2>1. RExit(q) /\ output' = output
      BY <1>5 DEF SyncDir
    <2>2. QED
      BY <1>2, <2>1
  <1>6. QED
    BY <1>2, <1>3, <1>4, <1>5

-----------------------------------------------------------------------------
(* Failures *)

\* What a power loss leaves at the output path is what was there, or nothing.
LEMMA LossFacts ==
  ASSUME OutputTyped, OutputSafe, output' \in AfterPowerLoss
  PROVE  /\ OutputTyped' /\ OutputSafe'
         /\ output' # Missing => output # Missing /\ output'.data = output.data
  <1>1. CASE output = Missing
    BY <1>1 DEF AfterPowerLoss, OutputTyped, OutputSafe
  <1>2. CASE output # Missing /\ output' = Missing
    BY <1>2 DEF OutputTyped, OutputSafe
  <1>3. CASE output # Missing /\ output' # Missing
    <2>1. /\ output \in [data : Seq(Byte) \cup {Foreign}, synced : BOOLEAN, entry : BOOLEAN]
          /\ output.synced = TRUE
      BY <1>3 DEF OutputTyped, OutputSafe
    <2>2. output' = [data |-> IF output.synced THEN output.data ELSE <<>>, synced |-> TRUE, entry |-> TRUE]
      BY <1>3 DEF AfterPowerLoss
    <2>3. output' = [data |-> output.data, synced |-> TRUE, entry |-> TRUE]
      BY <2>1, <2>2
    <2>4. output.data \in Seq(Byte) \cup {Foreign}
      BY <2>1
    <2>5. output'.data = output.data /\ output'.synced = TRUE
      BY <2>3
    <2>6. output' \in [data : Seq(Byte) \cup {Foreign}, synced : BOOLEAN, entry : BOOLEAN]
      BY <2>3, <2>4
    <2>7. QED
      BY <1>3, <2>5, <2>6 DEF OutputTyped, OutputSafe
  <1>4. QED
    BY <1>1, <1>2, <1>3

\* Errors, kills, a power loss, a foreign file and a rotten object.
LEMMA FailureStep ==
  ASSUME RInv, \/ \E q \in Restorer : RError(q) \/ RKill(q)
               \/ RPowerLoss \/ OutputTaken \/ Rot
  PROVE  RInv'
  <1>1. ASSUME NEW q \in Restorer, RError(q) \/ RKill(q)
        PROVE  RInv'
    <2>1. RExit(q) /\ UNCHANGED <<versions, remote, orphans, output>>
      BY <1>1 DEF RError, RKill, uploader
    <2>2. QED
      BY <2>1, REnds
  <1>2. CASE RPowerLoss
    <2>1. /\ UNCHANGED <<versions, remote, orphans>> /\ output' \in AfterPowerLoss
          /\ rest' = [q \in Restorer |-> RIdle]
      BY <1>2 DEF RPowerLoss, uploader
    <2>2. /\ OutputTyped' /\ OutputSafe'
          /\ output' # Missing => output # Missing /\ output'.data = output.data
      BY <2>1, LossFacts DEF RInv
    <2>3. RestoredIsSnapshot'
      BY <2>1, <2>2 DEF RInv, RestoredIsSnapshot
    <2>4. rest' \in [Restorer -> RLocals]
      BY <2>1, IdleRestorer
    <2>5. \A q \in Restorer : rest'[q].pc = "idle"
      BY <2>1 DEF RIdle
    <2>6. \A q \in Restorer : Restoring(rest[q])'
      BY <2>5 DEF Restoring
    <2>7. GoodStored'
      BY <2>1 DEF RInv, GoodStored, GoodObject, Good
    <2>8. QED
      BY <2>2, <2>3, <2>4, <2>6, <2>7 DEF RInv
  <1>3. CASE OutputTaken
    <2>1. /\ UNCHANGED <<versions, remote, orphans, rest>>
          /\ output' = [data |-> Foreign, synced |-> TRUE, entry |-> TRUE]
      BY <1>3 DEF OutputTaken, uploader
    <2>2. OutputTyped' /\ OutputSafe' /\ RestoredIsSnapshot'
      BY <2>1 DEF OutputTyped, OutputSafe, RestoredIsSnapshot
    <2>3. rest' \in [Restorer -> RLocals] /\ \A q \in Restorer : Restoring(rest[q])'
      BY <2>1 DEF RInv, Restoring, Good, Covers
    <2>4. GoodStored'
      BY <2>1 DEF RInv, GoodStored, GoodObject, Good
    <2>5. QED
      BY <2>2, <2>3, <2>4 DEF RInv
  <1>4. CASE Rot
    <2>1. UNCHANGED <<versions, orphans, rest, output>>
      BY <1>4 DEF Rot, uploader, rvars
    <2>2. PICK x \in remote : remote' = remote \ {x} \/ remote' = Put(remote, x.name, Damaged)
      BY <1>4 DEF Rot
    <2>3. \A o \in remote' : o \in remote \/ o.body = Damaged
      BY <2>2, PutFacts
    <2>4. \A o \in remote' \cup orphans' : GoodObject(o)
      BY <2>1, <2>3 DEF RInv, GoodStored, GoodObject
    <2>5. GoodStored'
      BY <2>1, <2>4 DEF GoodStored, GoodObject, Good
    <2>6. rest' \in [Restorer -> RLocals] /\ \A q \in Restorer : Restoring(rest[q])'
      BY <2>1 DEF RInv, Restoring, Good, Covers
    <2>7. OutputTyped' /\ OutputSafe' /\ RestoredIsSnapshot'
      BY <2>1 DEF RInv, OutputTyped, OutputSafe, RestoredIsSnapshot
    <2>8. QED
      BY <2>5, <2>6, <2>7 DEF RInv
  <1>5. QED
    BY <1>1, <1>2, <1>3, <1>4

-----------------------------------------------------------------------------
(* The theorems *)

AllInv == CInv /\ JInv /\ RInv

\* The invariant holds at the start.
LEMMA InitAllInv == RInit => AllInv
  <1> SUFFICES ASSUME RInit PROVE RInv
    BY InitCInv, InitJInv DEF RInit, AllInv
  <1>1. /\ remote \cup orphans = {} /\ rest = [q \in Restorer |-> RIdle] /\ output = Missing
    BY DEF RInit, Init
  <1>2. rest \in [Restorer -> RLocals] /\ \A q \in Restorer : Restoring(rest[q])
    BY <1>1, IdleRestorer
  <1>3. QED
    BY <1>1, <1>2 DEF RInv, GoodStored, OutputTyped, OutputSafe, RestoredIsSnapshot

\* The steps on the restoring side leave the uploader's invariants alone.
LEMMA Apart ==
  ASSUME CInv, JInv,
         \/ \E q \in Restorer : RStart(q) \/ RStep(q) \/ RError(q) \/ RKill(q)
         \/ RPowerLoss \/ OutputTaken \/ Rot
  PROVE  CInv' /\ JInv'
  <1>1. UNCHANGED <<versions, file, staging, sessions, lock, run>>
    BY DEF RStart, RStep, RError, RKill, RPowerLoss, OutputTaken, Rot, ReadManifest, RestoreChunk,
         FinishTarget, Link, SyncDir, vars, uploader
  <1>2. faults' = faults \/ faults' = faults + 1
    BY DEF RStart, RStep, RError, RKill, RPowerLoss, OutputTaken, Rot, ReadManifest, RestoreChunk,
         FinishTarget, Link, SyncDir, vars, Fault
  <1>3. faults' \in Nat /\ versions' \in Seq([1..Size -> Byte]) /\ Len(versions') > 0
    BY <1>1, <1>2 DEF CInv, TypeOK
  <1>4. CInv'
    BY <1>1, <1>3, Elsewhere
  <1>5. JInv'
    BY <1>1, JElsewhere DEF file
  <1>6. QED
    BY <1>4, <1>5

\* Every step preserves it.
LEMMA NextAllInv == AllInv /\ [RNext]_allvars => AllInv'
  <1> SUFFICES ASSUME CInv, JInv, RInv, [RNext]_allvars PROVE CInv' /\ JInv' /\ RInv'
    BY DEF AllInv
  <1>1. CASE [Next]_vars /\ UNCHANGED rvars
    BY <1>1, NextCInv, NextJInv, UploaderStep
  <1>2. CASE \E q \in Restorer : RStart(q) \/ RStep(q) \/ RError(q) \/ RKill(q)
    <2>1. RInv'
      BY <1>2, ManifestStep, ChunkStep, FinishStep, LinkStep, FailureStep DEF RStep
    <2>2. QED
      BY <1>2, <2>1, Apart
  <1>3. CASE RPowerLoss \/ OutputTaken \/ Rot
    BY <1>3, FailureStep, Apart
  <1>4. QED
    BY <1>1, <1>2, <1>3 DEF RNext, allvars

\* End to end, for every image and chunk size and any number of helpers,
\* restorers and faults: what restore() leaves at the output path is a version
\* the image had, byte for byte.
THEOREM RestoredImage == RSpec => []RestoredIsSnapshot
  <1>1. AllInv => RestoredIsSnapshot
    BY DEF AllInv, RInv
  <1>2. QED
    BY <1>1, InitAllInv, NextAllInv, PTL DEF RSpec

\* The state of the restorers, and the manifests they may come across, are
\* well formed.
THEOREM RestorerTyped == RSpec => []RTypeOK
  <1>1. AllInv => RTypeOK
    <2> SUFFICES ASSUME RInv PROVE RTypeOK
      BY DEF AllInv
    <2>1. \A o \in remote \cup orphans : o.name.kind = "manifest" => o.body \in ManifestRec \cup {Damaged, Spoilt}
      BY DEF RInv, GoodStored, GoodObject, Good
    <2>2. QED
      BY <2>1 DEF RInv, RTypeOK, OutputTyped
  <1>2. QED
    BY <1>1, InitAllInv, NextAllInv, PTL DEF RSpec

\* restore() never replaces a file, whoever put it at the output path, and no
\* power loss changes the contents of one that stays.
THEOREM OutputKept == RSpec => NeverReplaced
  <1>1. ASSUME AllInv, [RNext]_allvars
        PROVE  [output # Missing /\ output' # Missing => output'.data = output.data]_allvars
    <2> SUFFICES ASSUME RNext, output # Missing, output' # Missing PROVE output'.data = output.data
      BY <1>1
    <2>1. ASSUME NEW q \in Restorer, RStart(q) \/ RStep(q) \/ RError(q) \/ RKill(q)
          PROVE  output'.data = output.data
      <3>1. CASE UNCHANGED output
        BY <3>1
      <3>2. CASE SyncDir(q)
        <4>1. output' = [output EXCEPT !.entry = TRUE]
          BY <3>2 DEF SyncDir
        <4>2. output \in [data : Seq(Byte) \cup {Foreign}, synced : BOOLEAN, entry : BOOLEAN]
          BY <1>1 DEF AllInv, RInv, OutputTyped
        <4>3. QED
          BY <4>1, <4>2
      <3>3. CASE Link(q)
        BY <3>1, <3>3 DEF Link, LinkFree
      <3>4. QED
        BY <2>1, <3>1, <3>2, <3>3 DEF RStart, RStep, ReadManifest, RestoreChunk, FinishTarget, RError, RKill
    <2>2. CASE RPowerLoss
      BY <1>1, <2>2, LossFacts DEF RPowerLoss, AllInv, RInv
    <2>3. CASE (Next /\ UNCHANGED rvars) \/ OutputTaken \/ Rot
      BY <2>3 DEF OutputTaken, Rot, rvars
    <2>4. QED
      BY <2>1, <2>2, <2>3 DEF RNext
  <1>2. QED
    BY <1>1, InitAllInv, NextAllInv, PTL DEF RSpec, NeverReplaced

=============================================================================
