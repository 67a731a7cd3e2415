---------------------------- MODULE RecoverProofs ----------------------------
(***************************************************************************)
(* Proofs about the checkpointed uploader for every image, chunk size,     *)
(* number of processes and number of faults.                               *)
(***************************************************************************)
EXTENDS Recover, TLAPS

-----------------------------------------------------------------------------
(* The inductive invariants.  CInv is about the journal and the processes  *)
(* and holds whatever happens to the remote; SInv is about what is stored. *)

Rank(state) == CASE state = "prepared" -> 1 [] state = "uploaded" -> 2 [] OTHER -> 3

\* Only the first line is a header; the lines of a chunk agree on it and
\* their states go up.
Shape(ev) ==
  /\ ev # <<>> => ev[1].state = "header"
  /\ \A n \in 2..Len(ev) : ev[n].state # "header"
  /\ \A m, n \in 2..Len(ev) :
       m < n /\ ev[m].chunk.index = ev[n].chunk.index =>
         ev[m].chunk = ev[n].chunk /\ Rank(ev[m].state) < Rank(ev[n].state)

Unverified(r) == \A n \in EventsOf(r.events, r.idx) : r.events[n].state # "verified"

\* Where the chunk at hand is in the journal and not verified.
Pending == {"reconcile", "staged", "upload", "uploaded", "verify", "verified"}

\* What a process with locals r knows of the journal at place l of upload().
Knows(l, r) ==
  /\ l \notin {"idle", "identity", "header"} => r.events # <<>>
  /\ l = "header" => r.events = <<>>
  /\ l = "prepared" => EventsOf(r.events, r.idx) = {}
  /\ l \in Pending => EventsOf(r.events, r.idx) # {}
  /\ l \in Pending \cup {"read", "recheck"} => Unverified(r)
  /\ l = "uploaded" => \A n \in EventsOf(r.events, r.idx) : r.events[n].state = "prepared"
  /\ l = "fsync" /\ Len(r.events) > 1 => r.events[Len(r.events)].chunk.index = r.idx

\* No incomplete line is in the file while a process works on it.
Uncut == \A p \in Proc : ~At(p, "idle") => torn = FALSE

CInv ==
  /\ TypeOK
  /\ SingleWriter
  /\ Uncut
  /\ Shape(journal)
  /\ \A p \in Proc : Knows(run[p].pc, run[p])

\* An orphaned upload of a chunk stores the bytes its name was made from.
Honest == \A o \in orphans : o.name.kind = "chunk" => o.body = o.name.hash

\* The object has been read back when "verified" is about to be journaled.
ReadBack ==
  \A p \in Proc : At(p, "verified") => Secured(remote, Session(run[p]), This(run[p]))

SInv == Honest /\ VerifiedIsStored /\ ReadBack

-----------------------------------------------------------------------------
(* Facts about the journal *)

StatesOK == {"prepared", "uploaded", "verified"}

\* The order of the states of a chunk.
LEMMA RankFacts ==
  /\ Rank("prepared") = 1 /\ Rank("uploaded") = 2 /\ Rank("verified") = 3
  BY DEF Rank

\* Every line but the first is about a chunk; the first names the session.
LEMMA LineFacts ==
  ASSUME NEW ev \in Seq(Line), Shape(ev)
  PROVE  /\ \A n \in 2..Len(ev) : ev[n].state \in StatesOK /\ ev[n].chunk \in ChunkRec
         /\ ev # <<>> => Len(ev) >= 1 /\ ev[1].session \in Nat
  <1>1. \A n \in 2..Len(ev) : ev[n] \in Line /\ ev[n].state # "header"
    BY DEF Shape
  <1>2. ev # <<>> => Len(ev) >= 1 /\ ev[1] \in Line /\ ev[1].state = "header"
    BY DEF Shape
  <1>3. QED
    BY <1>1, <1>2 DEF Line, StatesOK

\* The lines of a chunk have a last one, since their states go up.
LEMMA LastExists ==
  ASSUME NEW ev \in Seq(Line), Shape(ev), NEW i \in Nat, EventsOf(ev, i) # {}
  PROVE  /\ LastOf(ev, i) \in EventsOf(ev, i)
         /\ \A m \in EventsOf(ev, i) : m <= LastOf(ev, i)
  <1>1. \A n \in EventsOf(ev, i) : n \in 2..Len(ev) /\ ev[n].state \in StatesOK
    BY LineFacts DEF EventsOf
  <1>2. \A m, n \in EventsOf(ev, i) : m < n => Rank(ev[m].state) < Rank(ev[n].state)
    BY DEF EventsOf, Shape
  <1>3. \E n \in EventsOf(ev, i) : \A m \in EventsOf(ev, i) : m <= n
    <2>1. CASE \E n \in EventsOf(ev, i) : ev[n].state = "verified"
      <3>1. PICK n \in EventsOf(ev, i) : ev[n].state = "verified"
        BY <2>1
      <3>2. \A m \in EventsOf(ev, i) : ~(n < m)
        BY <3>1, <1>1, <1>2, RankFacts DEF StatesOK
      <3>3. QED
        BY <3>2, <1>1
    <2>2. CASE /\ \A n \in EventsOf(ev, i) : ev[n].state # "verified"
               /\ \E n \in EventsOf(ev, i) : ev[n].state = "uploaded"
      <3>1. PICK n \in EventsOf(ev, i) : ev[n].state = "uploaded"
        BY <2>2
      <3>2. \A m \in EventsOf(ev, i) : ~(n < m)
        BY <2>2, <3>1, <1>1, <1>2, RankFacts DEF StatesOK
      <3>3. QED
        BY <3>2, <1>1
    <2>3. CASE \A n \in EventsOf(ev, i) : ev[n].state = "prepared"
      <3>1. \A m, n \in EventsOf(ev, i) : ~(n < m)
        BY <2>3, <1>2, RankFacts
      <3>2. QED
        BY <3>1, <1>1
    <2>4. QED
      BY <2>1, <2>2, <2>3, <1>1 DEF StatesOK
  <1>4. QED
    BY <1>3 DEF LastOf

\* states[i] of upload() tells what states the lines of chunk i have.
LEMMA StateFacts ==
  ASSUME NEW ev \in Seq(Line), Shape(ev), NEW i \in Nat
  PROVE  /\ StateOf(ev, i) = "none" <=> EventsOf(ev, i) = {}
         /\ StateOf(ev, i) # "verified" =>
              \A n \in EventsOf(ev, i) : ev[n].state # "verified"
         /\ StateOf(ev, i) = "prepared" =>
              \A n \in EventsOf(ev, i) : ev[n].state = "prepared"
  <1>1. \A n \in EventsOf(ev, i) : n \in 2..Len(ev) /\ ev[n].state \in StatesOK
    BY LineFacts DEF EventsOf
  <1>2. \A m, n \in EventsOf(ev, i) : m < n => Rank(ev[m].state) < Rank(ev[n].state)
    BY DEF EventsOf, Shape
  <1>3. CASE EventsOf(ev, i) = {}
    BY <1>3 DEF StateOf
  <1>4. CASE EventsOf(ev, i) # {}
    <2> DEFINE l == LastOf(ev, i)
    <2>1. /\ l \in EventsOf(ev, i)
          /\ \A m \in EventsOf(ev, i) : m <= l
      BY <1>4, LastExists
    <2>2. StateOf(ev, i) = ev[l].state
      BY <1>4 DEF StateOf
    <2> HIDE DEF l
    <2>3. \A n \in EventsOf(ev, i) : n = l \/ Rank(ev[n].state) < Rank(ev[l].state)
      BY <2>1, <1>1, <1>2
    <2>4. QED
      BY <2>1, <2>2, <2>3, <1>1, <1>4, RankFacts DEF StatesOK
  <1>5. QED
    BY <1>3, <1>4

\* The lines of a chunk all hold the chunk that upload() takes from the last.
LEMMA ThisChunk ==
  ASSUME NEW ev \in Seq(Line), Shape(ev), NEW i \in Nat, EventsOf(ev, i) # {}
  PROVE  /\ ChunkOf(ev, i) \in ChunkRec
         /\ ChunkOf(ev, i).index = i
         /\ \A n \in EventsOf(ev, i) : ev[n].chunk = ChunkOf(ev, i)
  <1> DEFINE l == LastOf(ev, i)
  <1>1. /\ l \in EventsOf(ev, i)
        /\ \A m \in EventsOf(ev, i) : m <= l
    BY LastExists
  <1>2. ChunkOf(ev, i) = ev[l].chunk
    BY DEF ChunkOf
  <1> HIDE DEF l
  <1>3. l \in 2..Len(ev) /\ ev[l].chunk.index = i /\ ev[l].chunk \in ChunkRec
    BY <1>1, LineFacts DEF EventsOf
  <1>4. \A n \in EventsOf(ev, i) : n = l \/ n < l
    BY <1>1, <1>3 DEF EventsOf
  <1>5. \A n \in EventsOf(ev, i) : n < l => ev[n].chunk = ev[l].chunk
    BY <1>3 DEF EventsOf, Shape
  <1>6. QED
    BY <1>2, <1>3, <1>4, <1>5

\* A line whose state is above those of its chunk keeps the shape.
LEMMA AppendShape ==
  ASSUME NEW ev \in Seq(Line), Shape(ev), ev # <<>>,
         NEW st \in StatesOK, NEW ch \in ChunkRec,
         \A n \in EventsOf(ev, ch.index) :
           ev[n].chunk = ch /\ Rank(ev[n].state) < Rank(st)
  PROVE  /\ Append(ev, Event(st, ch)) \in Seq(Line)
         /\ Shape(Append(ev, Event(st, ch)))
  <1> DEFINE e == Event(st, ch)
             new == Append(ev, e)
  <1>1. e \in Line /\ e.state = st /\ e.chunk = ch /\ e.state # "header"
    BY DEF Event, Line, StatesOK
  <1> HIDE DEF e
  <1>2. /\ new \in Seq(Line) /\ Len(new) = Len(ev) + 1 /\ Len(ev) >= 1
        /\ \A n \in 1..Len(ev) : new[n] = ev[n]
        /\ new[Len(ev) + 1] = e
    BY <1>1
  <1> HIDE DEF new
  <1>3. \A m, n \in 2..Len(new) :
          m < n /\ new[m].chunk.index = new[n].chunk.index =>
            new[m].chunk = new[n].chunk /\ Rank(new[m].state) < Rank(new[n].state)
    <2> SUFFICES ASSUME NEW m \in 2..Len(new), NEW n \in 2..Len(new), m < n,
                        new[m].chunk.index = new[n].chunk.index
                 PROVE  new[m].chunk = new[n].chunk /\ Rank(new[m].state) < Rank(new[n].state)
      OBVIOUS
    <2>1. CASE n <= Len(ev)
      BY <2>1, <1>2 DEF Shape
    <2>2. CASE n = Len(ev) + 1
      <3>1. m \in EventsOf(ev, ch.index)
        BY <2>2, <1>1, <1>2 DEF EventsOf
      <3>2. QED
        BY <3>1, <2>2, <1>1, <1>2 DEF EventsOf
    <2>3. QED
      BY <2>1, <2>2, <1>2
  <1>4. QED
    BY <1>1, <1>2, <1>3 DEF Shape, new, e

\* What is left of the journal after a power loss has the shape too.
LEMMA PrefixShape ==
  ASSUME NEW ev \in Seq(Line), Shape(ev), NEW n \in 0..Len(ev)
  PROVE  /\ SubSeq(ev, 1, n) \in Seq(Line) /\ Len(SubSeq(ev, 1, n)) = n
         /\ \A k \in 1..n : SubSeq(ev, 1, n)[k] = ev[k]
         /\ Shape(SubSeq(ev, 1, n))
  <1> DEFINE new == SubSeq(ev, 1, n)
  <1>1. /\ new \in Seq(Line) /\ Len(new) = n
        /\ \A k \in 1..n : new[k] = ev[k]
        /\ new # <<>> => n >= 1 /\ ev # <<>>
    OBVIOUS
  <1> HIDE DEF new
  <1>2. Shape(new)
    BY <1>1, SMTT(30) DEF Shape
  <1>3. QED
    BY <1>1, <1>2 DEF new
-----------------------------------------------------------------------------
(* Facts about the processes *)

\* A step of the only process in the command preserves the invariant when it
\* preserves what concerns the files and that process.
LEMMA Combine ==
  ASSUME CInv, NEW p \in Proc, ~At(p, "idle") \/ lock = NoProc,
         TypeOK', Shape(journal)',
         \A q \in Proc \ {p} : run'[q] = run[q],
         run'[p].pc # "idle" =>
           lock' = p /\ run'[p].events = journal' /\ torn' = FALSE /\ Knows(run[p].pc, run[p])'
  PROVE  CInv'
  <1>1. \A q \in Proc \ {p} : run'[q].pc = "idle"
    BY RecoverAssumption DEF CInv, SingleWriter, At
  <1>2. SingleWriter' /\ Uncut'
    BY <1>1 DEF SingleWriter, Uncut, At
  <1>3. ASSUME NEW q \in Proc, run'[q].pc = "idle"
        PROVE  Knows(run[q].pc, run[q])'
    BY <1>3 DEF Knows, Pending
  <1>4. \A q \in Proc : Knows(run[q].pc, run[q])'
    BY <1>1, <1>3
  <1>5. QED
    BY <1>2, <1>4 DEF CInv

\* The same for a step that leaves the journal alone.
LEMMA Quiet ==
  ASSUME CInv, NEW p \in Proc, ~At(p, "idle") \/ lock = NoProc, TypeOK',
         UNCHANGED journal,
         \A q \in Proc \ {p} : run'[q] = run[q],
         run'[p].pc # "idle" =>
           lock' = p /\ run'[p].events = journal /\ torn' = FALSE /\ Knows(run[p].pc, run[p])'
  PROVE  CInv'
  <1>1. Shape(journal)'
    BY DEF CInv, Shape
  <1>2. QED
    BY <1>1, Combine

\* What is known of a process that is in the command.
LEMMA Running ==
  ASSUME CInv, NEW p \in Proc, ~At(p, "idle")
  PROVE  /\ run[p] \in Locals /\ run[p].events = journal /\ lock = p /\ torn = FALSE
         /\ run[p].events \in Seq(Line) /\ Shape(run[p].events)
         /\ run[p].idx \in Nat /\ Knows(run[p].pc, run[p])
         /\ run[p].events # <<>> => Session(run[p]) \in Nat /\ Len(run[p].events) >= 1
  <1>1. /\ run[p] \in Locals /\ run[p].events = journal /\ lock = p /\ torn = FALSE
        /\ run[p].events \in Seq(Line) /\ Shape(run[p].events)
        /\ run[p].idx \in Nat /\ Knows(run[p].pc, run[p])
    BY DEF CInv, TypeOK, SingleWriter, Uncut, At, Locals
  <1>2. QED
    BY <1>1, LineFacts DEF Session

-----------------------------------------------------------------------------
(* Steps that leave the journal alone *)

\* Moving on to another place, or ending, is type correct.
LEMMA GotoType ==
  ASSUME TypeOK, NEW p \in Proc, NEW l \in Phase, NEW ok,
         GotoOrExit(p, ok, l)
  PROVE  /\ lock' \in Proc \cup {NoProc} /\ run' \in [Proc -> Locals]
         /\ \A q \in Proc \ {p} : run'[q] = run[q]
         /\ \/ ok /\ lock' = lock /\ run'[p] = [run[p] EXCEPT !.pc = l]
            \/ ~ok /\ run'[p].pc = "idle"
  <1>1. Idle \in Locals
    BY DEF Idle, Locals, Phase
  <1>2. CASE ok
    <2>1. run' = [run EXCEPT ![p].pc = l] /\ lock' = lock
      BY <1>2 DEF GotoOrExit, Goto
    <2>2. run \in [Proc -> Locals] /\ lock \in Proc \cup {NoProc}
      BY DEF TypeOK
    <2>3. [run[p] EXCEPT !.pc = l] \in Locals
      BY <2>2 DEF Locals
    <2>4. QED
      BY <1>2, <2>1, <2>2, <2>3
  <1>3. CASE ~ok
    <2>1. run' = [run EXCEPT ![p] = Idle] /\ lock' = NoProc
      BY <1>3 DEF GotoOrExit, Exit
    <2>2. QED
      BY <1>1, <1>3, <2>1 DEF TypeOK, Idle
  <1>4. QED
    BY <1>2, <1>3

\* Opening the journal preserves the invariant.
LEMMA OpenStep ==
  ASSUME CInv, NEW p \in Proc, Open(p)
  PROVE  CInv'
  <1>1. PICK c \in ChunkSizes :
          run' = [run EXCEPT ![p] = [Idle EXCEPT !.pc = "identity", !.csize = c, !.events = journal]]
    BY DEF Open
  <1>2. [Idle EXCEPT !.pc = "identity", !.csize = c, !.events = journal] \in Locals
    <2>1. Idle \in Locals
      BY DEF Idle, Locals, Phase
    <2>2. journal \in Seq(Line)
      BY DEF CInv, TypeOK
    <2>3. QED
      BY <2>1, <2>2 DEF Locals, Phase
  <1>3. run' \in [Proc -> Locals]
    BY <1>1, <1>2 DEF CInv, TypeOK
  <1>4. TypeOK'
    <2>1. durable' \in 0..Len(journal) /\ torn' \in BOOLEAN
      <3>1. journal \in Seq(Line) /\ durable \in 0..Len(journal)
        BY DEF CInv, TypeOK
      <3>2. torn' \in BOOLEAN
        BY Zenon DEF Open, CutTorn
      <3>3. durable' = Len(journal) \/ durable' = durable
        BY Zenon DEF Open
      <3>4. durable' \in 0..Len(journal)
        BY <3>1, <3>3
      <3>5. QED
        BY <3>2, <3>4
    <2>2. /\ UNCHANGED <<versions, journal, stage, partial, sessions, faults>>
          /\ lock' = p
      BY DEF Open, staging
    <2>3. QED
      BY <1>3, <2>1, <2>2 DEF CInv, TypeOK
  <1>5. /\ run'[p].pc = "identity" /\ run'[p].events = journal
        /\ \A q \in Proc \ {p} : run'[q] = run[q]
    BY <1>1 DEF CInv, TypeOK, Idle
  <1>6. Knows(run[p].pc, run[p])'
    BY <1>5 DEF Knows, Pending
  <1>7. QED
    BY <1>4, <1>5, <1>6, Quiet DEF Open, LockFree, CutTorn, net

\* Looking at the source preserves the invariant.
LEMMA GetIdentityStep ==
  ASSUME CInv, NEW p \in Proc, GetIdentity(p)
  PROVE  CInv'
  <1> DEFINE l == IF run[p].events = <<>> THEN "header" ELSE "replay"
             x == [run[p] EXCEPT !.ident = Identity, !.pc = l]
  <1>1. run' = [run EXCEPT ![p] = x]
    BY DEF GetIdentity
  <1>2. Identity \in Nat
    BY DEF Identity, CInv, TypeOK
  <1>3. x \in Locals /\ x.pc = l /\ x.events = run[p].events
    BY <1>2, ZenonT(30) DEF CInv, TypeOK, Locals, Phase
  <1> HIDE DEF x
  <1>4. run' \in [Proc -> Locals] /\ run'[p] = x /\ \A q \in Proc \ {p} : run'[q] = run[q]
    BY <1>1, <1>3 DEF CInv, TypeOK
  <1>5. TypeOK'
    BY <1>4 DEF GetIdentity, CInv, TypeOK, file, staging
  <1>6. Knows(run[p].pc, run[p])'
    BY <1>3, <1>4 DEF Knows, Pending
  <1>7. ~At(p, "idle")
    BY DEF GetIdentity, At
  <1>8. QED
    BY <1>3, <1>4, <1>5, <1>6, <1>7, Quiet, Running DEF GetIdentity, file, net

\* A step that moves on to l, or ends the process, is fine when the process
\* knows what it must at l.
LEMMA QuietGoto ==
  ASSUME CInv, NEW p \in Proc, ~At(p, "idle"),
         NEW l \in Phase, NEW ok, GotoOrExit(p, ok, l),
         UNCHANGED <<versions, journal, torn, sessions>>,
         durable' \in 0..Len(journal), faults' \in Nat,
         stage' \subseteq [session : Nat, index : Nat, raw : Seq(Byte)],
         partial' \subseteq Nat \X Nat,
         ok => Knows(l, run[p])
  PROVE  CInv'
  <1>1. /\ lock' \in Proc \cup {NoProc} /\ run' \in [Proc -> Locals]
        /\ \A q \in Proc \ {p} : run'[q] = run[q]
        /\ \/ ok /\ lock' = lock /\ run'[p] = [run[p] EXCEPT !.pc = l]
           \/ ~ok /\ run'[p].pc = "idle"
    BY GotoType DEF CInv
  <1>2. TypeOK'
    BY <1>1 DEF CInv, TypeOK
  <1>3. run'[p].pc # "idle" =>
          /\ ok /\ lock' = p /\ run'[p].events = journal
          /\ run'[p].pc = l /\ run'[p].events = run[p].events /\ run'[p].idx = run[p].idx
    BY <1>1, Running DEF Locals
  <1>4. run'[p].pc # "idle" => Knows(run[p].pc, run[p])'
    BY <1>3 DEF Knows, Unverified
  <1>5. QED
    BY <1>1, <1>2, <1>3, <1>4, Quiet, Running

\* Replaying the journal preserves the invariant.
LEMMA ReplayStep ==
  ASSUME CInv, NEW p \in Proc, Replay(p)
  PROVE  CInv'
  <1>1. PICK ok : GotoOrExit(p, ok, "chunk")
    BY DEF Replay
  <1>2. ~At(p, "idle") /\ run[p].pc = "replay"
    BY DEF Replay, At
  <1>3. Knows("chunk", run[p])
    BY <1>2, Running DEF Knows, Pending
  <1>4. QED
    BY <1>1, <1>2, <1>3, QuietGoto DEF Replay, file, staging, net, CInv, TypeOK, Phase

\* The fsync after a line preserves the invariant.
LEMMA FsyncStep ==
  ASSUME CInv, NEW p \in Proc, Fsync(p)
  PROVE  CInv'
  <1> DEFINE ev == run[p].events
             last == ev[Len(ev)]
  <1>1. ~At(p, "idle") /\ run[p].pc = "fsync"
    BY DEF Fsync, At
  <1>2. /\ ev \in Seq(Line) /\ Shape(ev) /\ run[p].idx \in Nat /\ ev # <<>> /\ Len(ev) >= 1
        /\ Len(ev) > 1 => last.chunk.index = run[p].idx
    BY <1>1, Running DEF Knows
  <1>3. Goto(p, AfterFsync(last.state))
    BY DEF Fsync
  <1> HIDE DEF ev
  <1>4. last.state \in StatesOK \cup {"header"}
    BY <1>2, LineFacts DEF Shape
  <1>5. Knows(AfterFsync(last.state), run[p]) /\ AfterFsync(last.state) \in Phase
    <2>1. CASE last.state = "header"
      BY <2>1, <1>2 DEF Knows, AfterFsync, Pending, Phase, ev
    <2>2. CASE last.state = "verified"
      BY <2>2, <1>2 DEF Knows, AfterFsync, Pending, Phase, ev
    <2>3. CASE last.state \in {"prepared", "uploaded"}
      <3>1. Len(ev) > 1 /\ Len(ev) \in EventsOf(ev, run[p].idx)
        BY <2>3, <1>2 DEF EventsOf, Shape
      <3>2. \A n \in EventsOf(ev, run[p].idx) : n < Len(ev) =>
              Rank(ev[n].state) < Rank(last.state)
        BY <3>1, <1>2 DEF EventsOf, Shape
      <3>3. \A n \in EventsOf(ev, run[p].idx) : ev[n].state # "verified"
        BY <3>1, <3>2, <2>3, <1>2, RankFacts DEF EventsOf
      <3>4. Unverified(run[p])
        BY <3>3 DEF Unverified, ev
      <3>5. AfterFsync(last.state) \in {"staged", "verify"}
        BY <2>3 DEF AfterFsync
      <3>6. QED
        BY <3>1, <3>4, <3>5, <1>2 DEF Knows, Pending, Phase, ev
    <2>4. QED
      BY <1>4, <2>1, <2>2, <2>3 DEF StatesOK
  <1>6. GotoOrExit(p, TRUE, AfterFsync(last.state))
    BY <1>3 DEF GotoOrExit
  <1>7. durable' \in 0..Len(journal)
    BY DEF Fsync, CInv, TypeOK
  <1>8. QED
    BY <1>1, <1>5, <1>6, <1>7, QuietGoto DEF Fsync, staging, net, CInv, TypeOK

\* The head of the loop preserves the invariant.
LEMMA NextChunkStep ==
  ASSUME CInv, NEW p \in Proc, NextChunk(p)
  PROVE  CInv'
  <1> DEFINE r == run[p]
             st == StateOf(r.events, r.idx)
             l == IF Beyond(r.idx, r.csize) THEN "final"
                  ELSE CASE st = "none" -> "read"
                         [] st = "verified" -> "clean"
                         [] OTHER -> "reconcile"
  <1>1. ~At(p, "idle") /\ r.pc = "chunk"
    BY DEF NextChunk, At
  <1>2. PICK ok : GotoOrExit(p, ok, l)
    BY DEF NextChunk
  <1>3. /\ r.events \in Seq(Line) /\ Shape(r.events) /\ r.idx \in Nat /\ r.events # <<>>
    BY <1>1, Running DEF Knows
  <1>4. /\ st = "none" <=> EventsOf(r.events, r.idx) = {}
        /\ st # "verified" => Unverified(r)
    BY <1>3, StateFacts DEF Unverified
  <1>5. /\ l \in {"final", "read", "clean", "reconcile"}
        /\ l = "read" => st = "none"
        /\ l = "reconcile" => st # "none" /\ st # "verified"
    OBVIOUS
  <1> HIDE DEF l, st, r
  <1>6. Knows(l, r) /\ l \in Phase
    BY <1>3, <1>4, <1>5 DEF Knows, Pending, Phase
  <1>7. partial' \subseteq Nat \X Nat
    BY DEF NextChunk, CInv, TypeOK
  <1>8. QED
    BY <1>1, <1>2, <1>6, <1>7, QuietGoto DEF NextChunk, file, net, CInv, TypeOK, r

\* Publishing the staged file preserves the invariant.
LEMMA PublishStep ==
  ASSUME CInv, NEW p \in Proc, Publish(p)
  PROVE  CInv'
  <1>1. ~At(p, "idle") /\ run[p].pc = "read"
    BY DEF Publish, At
  <1>2. /\ run[p] \in Locals /\ Knows("read", run[p]) /\ Session(run[p]) \in Nat
    BY <1>1, Running DEF Knows
  <1>3. Knows("recheck", run[p])
    BY <1>2 DEF Knows, Pending
  <1>4. stage' \subseteq [session : Nat, index : Nat, raw : Seq(Byte)]
    <2>1. [session |-> Session(run[p]), index |-> run[p].idx, raw |-> run[p].buf]
            \in [session : Nat, index : Nat, raw : Seq(Byte)]
      BY <1>2 DEF Locals
    <2>2. QED
      BY <2>1 DEF Publish, Unstage, CInv, TypeOK
  <1>5. partial' \subseteq Nat \X Nat
    BY DEF Publish, CInv, TypeOK
  <1>6. GotoOrExit(p, TRUE, "recheck")
    BY DEF Publish, GotoOrExit
  <1>7. QED
    BY <1>1, <1>3, <1>4, <1>5, <1>6, QuietGoto DEF Publish, file, net, CInv, TypeOK, Phase

\* The check of the source after preparing preserves the invariant.
LEMMA RecheckStep ==
  ASSUME CInv, NEW p \in Proc, Recheck(p)
  PROVE  CInv'
  <1> DEFINE r == run[p]
             l == IF StateOf(r.events, r.idx) # "none" THEN "upload" ELSE "prepared"
  <1>1. ~At(p, "idle") /\ r.pc = "recheck"
    BY DEF Recheck, At
  <1>2. PICK ok : GotoOrExit(p, ok, l)
    BY DEF Recheck
  <1>3. /\ r.events \in Seq(Line) /\ Shape(r.events) /\ r.idx \in Nat
        /\ Knows("recheck", r)
    BY <1>1, Running
  <1>4. StateOf(r.events, r.idx) = "none" <=> EventsOf(r.events, r.idx) = {}
    BY <1>3, StateFacts
  <1>5. Knows(l, r) /\ l \in Phase
    BY <1>3, <1>4 DEF Knows, Pending, Phase
  <1> HIDE DEF l
  <1>6. QED
    BY <1>1, <1>2, <1>5, QuietGoto DEF Recheck, file, staging, net, CInv, TypeOK

\* Reconciling with the remote preserves the invariant.
LEMMA ReconcileStep ==
  ASSUME CInv, NEW p \in Proc, Reconcile(p)
  PROVE  CInv'
  <1>1. ~At(p, "idle") /\ run[p].pc = "reconcile"
    BY DEF Reconcile, At
  <1>2. Knows("reconcile", run[p])
    BY <1>1, Running
  <1>3. faults' \in Nat
    BY DEF Reconcile, Fault, CInv, TypeOK
  <1>4. PICK l \in {"verified", "staged"} : Goto(p, l)
    BY DEF Reconcile
  <1>5. Knows(l, run[p]) /\ l \in Phase
    BY <1>2, <1>4 DEF Knows, Pending, Phase
  <1>6. GotoOrExit(p, TRUE, l)
    BY <1>4 DEF GotoOrExit
  <1>7. QED
    BY <1>1, <1>3, <1>5, <1>6, QuietGoto DEF Reconcile, file, staging, net, CInv, TypeOK

\* Reading the object back preserves the invariant.
LEMMA VerifyStep ==
  ASSUME CInv, NEW p \in Proc, Verify(p)
  PROVE  CInv'
  <1>1. ~At(p, "idle") /\ run[p].pc = "verify"
    BY DEF Verify, At
  <1>2. Knows("verify", run[p])
    BY <1>1, Running
  <1>3. Knows("verified", run[p])
    BY <1>2 DEF Knows, Pending
  <1>4. QED
    BY <1>1, <1>3, QuietGoto DEF Verify, file, staging, net, CInv, TypeOK, Phase

\* The last checks preserves the invariant.
LEMMA FinalStep ==
  ASSUME CInv, NEW p \in Proc, Final(p)
  PROVE  CInv'
  <1>1. ~At(p, "idle") /\ run[p].pc = "final"
    BY DEF Final, At
  <1>2. Knows("final", run[p])
    BY <1>1, Running
  <1>3. Knows("manifest", run[p])
    BY <1>2 DEF Knows, Pending
  <1>4. PICK ok : GotoOrExit(p, ok, "manifest")
    BY DEF Final
  <1>5. QED
    BY <1>1, <1>3, <1>4, QuietGoto DEF Final, file, staging, net, CInv, TypeOK, Phase

\* Announcing the manifest preserves the invariant.
LEMMA ReportStep ==
  ASSUME CInv, NEW p \in Proc, Report(p)
  PROVE  CInv'
  <1>1. ~At(p, "idle")
    BY DEF Report, At
  <1>2. GotoOrExit(p, FALSE, "idle")
    BY DEF Report, GotoOrExit
  <1>3. QED
    BY <1>1, <1>2, QuietGoto DEF Report, file, staging, CInv, TypeOK, Phase

\* The same for a step that changes other locals than the place.
LEMMA QuietLocals ==
  ASSUME CInv, NEW p \in Proc, ~At(p, "idle"), NEW x \in Locals,
         run' = [run EXCEPT ![p] = x], x.events = run[p].events, Knows(x.pc, x),
         UNCHANGED <<versions, journal, durable, torn, sessions, faults, lock>>,
         stage' \subseteq [session : Nat, index : Nat, raw : Seq(Byte)],
         partial' \subseteq Nat \X Nat
  PROVE  CInv'
  <1>1. /\ run' \in [Proc -> Locals] /\ run'[p] = x
        /\ \A q \in Proc \ {p} : run'[q] = run[q]
    BY DEF CInv, TypeOK
  <1>2. TypeOK'
    BY <1>1 DEF CInv, TypeOK
  <1>3. Knows(run[p].pc, run[p])'
    BY <1>1 DEF Knows, Unverified
  <1>4. QED
    BY <1>1, <1>2, <1>3, Quiet, Running

\* The chunk at hand lies within the image.
LEMMA Layout ==
  ASSUME NEW i \in Nat, NEW c \in ChunkSizes \cup {0}
  PROVE  /\ Offset(i, c) \in Nat /\ Length(i, c) \in Int
         /\ Offset(i, c) + Length(i, c) <= Size
  <1>1. c \in Nat /\ Size \in Nat
    BY RecoverAssumption
  <1>2. i * c \in Nat
    BY <1>1
  <1>3. QED
    BY <1>1, <1>2 DEF Offset, Length

\* One pread() preserves the invariant.
LEMMA ReadStep ==
  ASSUME CInv, NEW p \in Proc, Read(p)
  PROVE  CInv'
  <1> DEFINE r == run[p]
             off == Offset(r.idx, r.csize) + Len(r.buf)
             left == Length(r.idx, r.csize) - Len(r.buf)
             n == IF Block < left THEN Block ELSE left
             x == [r EXCEPT !.buf = @ \o SubSeq(Source, off + 1, off + n)]
  <1>1. ~At(p, "idle") /\ r.pc = "read" /\ left > 0
    BY DEF Read, At
  <1>2. r \in Locals /\ Knows("read", r) /\ Session(r) \in Nat
    BY <1>1, Running DEF Knows
  <1>3. x \in Locals
    <2>1. /\ Offset(r.idx, r.csize) \in Nat /\ Length(r.idx, r.csize) \in Int
          /\ Offset(r.idx, r.csize) + Length(r.idx, r.csize) <= Size
      BY <1>2, Layout DEF Locals
    <2>2. r.buf \in Seq(Byte) /\ Len(r.buf) \in Nat
      BY <1>2 DEF Locals
    <2>3. Source \in [1..Size -> Byte] /\ Size \in Nat /\ Block \in Nat \ {0}
      BY RecoverAssumption DEF Source, CInv, TypeOK
    <2>4. Source \in Seq(Byte) /\ Len(Source) = Size
      BY <2>3
    <2>5. off \in Nat /\ left \in Int /\ left > 0 /\ off + left <= Size
      BY <2>1, <2>2, <1>1
    <2> HIDE DEF off, left
    <2>5a. n \in 1..left
      BY <2>3, <2>5
    <2> HIDE DEF n
    <2>5b. off + 1 \in 1..Size /\ off + n \in 1..Size
      BY <2>3, <2>5, <2>5a
    <2>6. SubSeq(Source, off + 1, off + n) \in Seq(Byte)
      BY <2>4, <2>5b
    <2>7. r.buf \o SubSeq(Source, off + 1, off + n) \in Seq(Byte)
      BY <2>2, <2>6
    <2>8. QED
      BY <2>7, <1>2 DEF Locals
  <1>4. run' = [run EXCEPT ![p] = x]
    BY DEF Read, CInv, TypeOK
  <1>5. x.events = r.events /\ x.idx = r.idx /\ x.pc = "read"
    BY <1>1, <1>2 DEF Locals
  <1>6. Knows(x.pc, x)
    BY <1>2, <1>5 DEF Knows, Pending, Unverified
  <1>7. partial' \subseteq Nat \X Nat
    BY <1>2 DEF Read, Locals, CInv, TypeOK
  <1> HIDE DEF x
  <1>8. QED
    BY <1>1, <1>3, <1>4, <1>5, <1>6, <1>7, QuietLocals DEF Read, file, net, CInv, TypeOK

\* Looking at the staged file preserves the invariant.
LEMMA CheckStagedStep ==
  ASSUME CInv, NEW p \in Proc, CheckStaged(p)
  PROVE  CInv'
  <1>1. ~At(p, "idle") /\ run[p].pc = "staged"
    BY DEF CheckStaged, At
  <1>2. run[p] \in Locals /\ Knows("staged", run[p])
    BY <1>1, Running
  <1>3. PICK l \in {"upload", "read"} :
          run' = [run EXCEPT ![p] = [run[p] EXCEPT !.buf = <<>>, !.pc = l]]
    BY DEF CheckStaged
  <1> DEFINE x == [run[p] EXCEPT !.buf = <<>>, !.pc = l]
  <1>4. x \in Locals /\ x.events = run[p].events /\ x.idx = run[p].idx /\ x.pc = l
    <2>1. <<>> \in Seq(Byte) /\ l \in Phase
      BY DEF Phase
    <2>2. QED
      BY <1>2, <2>1 DEF Locals
  <1> HIDE DEF x
  <1>5. Knows(x.pc, x)
    BY <1>2, <1>4 DEF Knows, Pending, Unverified
  <1>6. QED
    BY <1>1, <1>3, <1>4, <1>5, QuietLocals
       DEF CheckStaged, file, staging, net, CInv, TypeOK, x

\* Deleting the staged file preserves the invariant.
LEMMA CleanStep ==
  ASSUME CInv, NEW p \in Proc, Clean(p)
  PROVE  CInv'
  <1>1. ~At(p, "idle") /\ run[p].pc = "clean"
    BY DEF Clean, At
  <1>2. run[p] \in Locals /\ Knows("clean", run[p])
    BY <1>1, Running
  <1> DEFINE x == [run[p] EXCEPT !.pc = "chunk", !.idx = run[p].idx + 1]
  <1>3. run' = [run EXCEPT ![p] = x]
    BY Zenon DEF Clean
  <1>4. x \in Locals /\ x.events = run[p].events /\ x.pc = "chunk"
    <2>1. "chunk" \in Phase /\ run[p].idx + 1 \in Nat
      BY <1>2 DEF Phase, Locals
    <2>2. QED
      BY <1>2, <2>1 DEF Locals
  <1> HIDE DEF x
  <1>5. Knows(x.pc, x)
    BY <1>2, <1>4 DEF Knows, Pending
  <1>6. stage' \subseteq [session : Nat, index : Nat, raw : Seq(Byte)]
    BY DEF Clean, Unstage, CInv, TypeOK
  <1>7. QED
    BY <1>1, <1>3, <1>4, <1>5, <1>6, QuietLocals DEF Clean, file, net, CInv, TypeOK

-----------------------------------------------------------------------------
(* Steps that write a line *)

\* A process finds no incomplete line in the file, so that it writes its own.
LEMMA WriteIs ==
  ASSUME CInv, NEW p \in Proc, ~At(p, "idle"), NEW e, Write(p, e)
  PROVE  /\ journal' = Append(journal, e) /\ torn' = FALSE /\ UNCHANGED <<durable, lock>>
         /\ run' = [run EXCEPT ![p] = [run[p] EXCEPT !.pc = "fsync", !.buf = <<>>,
                                       !.events = Append(run[p].events, e)]]
  <1>1. torn = FALSE
    BY Running
  <1>2. QED
    BY <1>1, Zenon DEF Write

\* A new line that is a header, or is about the chunk at hand, in a state
\* above those the chunk has, preserves the invariant.
LEMMA WriteStep ==
  ASSUME CInv, NEW p \in Proc, ~At(p, "idle"), NEW e \in Line, Write(p, e),
         Shape(Append(journal, e)),
         journal # <<>> => e.state # "header" /\ e.chunk.index = run[p].idx,
         UNCHANGED <<versions, staging, faults>>, sessions' \in Nat
  PROVE  CInv'
  <1> DEFINE new == Append(journal, e)
             x == [run[p] EXCEPT !.pc = "fsync", !.buf = <<>>, !.events = new]
  <1>1. /\ run[p] \in Locals /\ run[p].events = journal /\ lock = p
        /\ journal \in Seq(Line)
    BY Running
  <1>2. journal' = new /\ torn' = FALSE /\ run' = [run EXCEPT ![p] = x] /\ UNCHANGED <<durable, lock>>
    BY <1>1, WriteIs
  <1>3. /\ new \in Seq(Line) /\ Len(new) = Len(journal) + 1 /\ new # <<>>
        /\ \A n \in 1..Len(journal) : new[n] = journal[n]
        /\ new[Len(journal) + 1] = e
        /\ journal # <<>> => Len(journal) >= 1
        /\ journal = <<>> => Len(journal) = 0
    <2>1. /\ new \in Seq(Line) /\ Len(new) = Len(journal) + 1
          /\ \A n \in 1..Len(journal) : new[n] = journal[n]
          /\ new[Len(journal) + 1] = e
      BY <1>1
    <2>2. /\ journal # <<>> => Len(journal) >= 1
          /\ journal = <<>> => Len(journal) = 0
      BY <1>1
    <2> HIDE DEF new
    <2>3. new # <<>>
      BY <2>1, <1>1
    <2>4. QED
      BY <2>1, <2>2, <2>3
  <1>4. /\ x \in Locals /\ x.pc = "fsync" /\ x.events = new /\ x.idx = run[p].idx
    <2>1. "fsync" \in Phase /\ <<>> \in Seq(Byte) /\ new \in Seq(Line)
      BY <1>3 DEF Phase
    <2> HIDE DEF new
    <2>2. QED
      BY <1>1, <2>1 DEF Locals
  <1> HIDE DEF x, new
  <1>5. /\ run' \in [Proc -> Locals] /\ run'[p] = x
        /\ \A q \in Proc \ {p} : run'[q] = run[q]
    BY <1>2, <1>4 DEF CInv, TypeOK
  <1>6. TypeOK'
    <2>1. durable' \in 0..Len(journal')
      BY <1>1, <1>2, <1>3 DEF CInv, TypeOK
    <2>2. QED
      BY <1>1, <1>2, <1>3, <1>5, <2>1 DEF CInv, TypeOK, staging
  <1>7. Shape(journal)'
    BY <1>2 DEF Shape, new
  <1>8. Knows(run[p].pc, run[p])'
    <2>1. Len(new) > 1 => new[Len(new)].chunk.index = x.idx
      BY <1>1, <1>3, <1>4
    <2>2. Knows("fsync", x)
      BY <2>1, <1>3, <1>4 DEF Knows, Pending
    <2>3. QED
      BY <2>2, <1>4, <1>5 DEF Knows, Unverified, Pending
  <1>9. QED
    BY <1>1, <1>2, <1>4, <1>5, <1>6, <1>7, <1>8, Combine

\* Writing the header preserves the invariant.
LEMMA NewHeaderStep ==
  ASSUME CInv, NEW p \in Proc, NewHeader(p)
  PROVE  CInv'
  <1> DEFINE e == Header(sessions + 1, run[p].ident, run[p].csize)
  <1>1. ~At(p, "idle") /\ run[p].pc = "header"
    BY DEF NewHeader, At
  <1>2. run[p] \in Locals /\ journal = <<>>
    BY <1>1, Running DEF Knows
  <1>3. e \in Line /\ e.state = "header"
    <2>1. run[p].csize \in Nat
      <3>1. run[p].csize \in ChunkSizes \cup {0}
        BY <1>2 DEF Locals
      <3>2. ChunkSizes \cup {0} \subseteq Nat
        BY RecoverAssumption
      <3>3. QED
        BY <3>1, <3>2
    <2>2. sessions + 1 \in Nat
      BY DEF CInv, TypeOK
    <2>3. QED
      BY <1>2, <2>1, <2>2 DEF Header, Line, Locals
  <1> HIDE DEF e
  <1>4. Shape(Append(journal, e))
    BY <1>2, <1>3 DEF Shape
  <1>5. Write(p, e)
    BY DEF NewHeader, e
  <1>6. sessions' \in Nat
    BY DEF NewHeader, CInv, TypeOK
  <1>7. QED
    BY <1>1, <1>2, <1>3, <1>4, <1>5, <1>6, WriteStep DEF NewHeader, net

\* A line about the chunk at hand that the journal allows.
LEMMA EventStep ==
  ASSUME CInv, NEW p \in Proc, ~At(p, "idle"), run[p].events # <<>>,
         NEW st \in StatesOK, NEW ch \in ChunkRec, Write(p, Event(st, ch)),
         ch.index = run[p].idx,
         \A n \in EventsOf(run[p].events, ch.index) :
           run[p].events[n].chunk = ch /\ Rank(run[p].events[n].state) < Rank(st),
         UNCHANGED <<versions, staging, sessions, faults>>
  PROVE  CInv'
  <1> DEFINE e == Event(st, ch)
  <1>1. /\ run[p].events = journal /\ journal \in Seq(Line) /\ Shape(journal)
    BY Running
  <1>2. e \in Line /\ e.state = st /\ e.chunk = ch /\ e.state # "header"
    BY DEF Event, Line, StatesOK
  <1>3. Shape(Append(journal, e))
    BY <1>1, AppendShape
  <1> HIDE DEF e
  <1>4. Write(p, e) /\ sessions' \in Nat
    BY DEF e, CInv, TypeOK
  <1>5. QED
    BY <1>1, <1>2, <1>3, <1>4, WriteStep

\* Journaling a prepared chunk preserves the invariant.
LEMMA AppendPreparedStep ==
  ASSUME CInv, NEW p \in Proc, AppendPrepared(p)
  PROVE  CInv'
  <1> DEFINE ch == Chunk(run[p].idx, run[p].csize, run[p].buf)
  <1>1. ~At(p, "idle") /\ run[p].pc = "prepared"
    BY DEF AppendPrepared, At
  <1>2. run[p] \in Locals /\ Knows("prepared", run[p])
    BY <1>1, Running
  <1>3. ch \in ChunkRec /\ ch.index = run[p].idx
    BY <1>2, Layout DEF Chunk, ChunkRec, Locals
  <1> HIDE DEF ch
  <1>4. run[p].events # <<>> /\ EventsOf(run[p].events, ch.index) = {}
    BY <1>2, <1>3 DEF Knows
  <1>5. Write(p, Event("prepared", ch))
    BY DEF AppendPrepared, ch
  <1>6. QED
    BY <1>1, <1>3, <1>4, <1>5, EventStep DEF AppendPrepared, net, StatesOK

\* Journaling an uploaded chunk preserves the invariant.
LEMMA AppendUploadedStep ==
  ASSUME CInv, NEW p \in Proc, AppendUploaded(p)
  PROVE  CInv'
  <1> DEFINE ch == This(run[p])
  <1>1. ~At(p, "idle") /\ run[p].pc = "uploaded"
    BY DEF AppendUploaded, At
  <1>2. /\ Knows("uploaded", run[p]) /\ run[p].events \in Seq(Line) /\ Shape(run[p].events)
        /\ run[p].idx \in Nat
    BY <1>1, Running
  <1>3. /\ run[p].events # <<>> /\ EventsOf(run[p].events, run[p].idx) # {}
        /\ \A n \in EventsOf(run[p].events, run[p].idx) : run[p].events[n].state = "prepared"
    BY <1>2 DEF Knows, Pending
  <1>4. /\ ch \in ChunkRec /\ ch.index = run[p].idx
        /\ \A n \in EventsOf(run[p].events, run[p].idx) : run[p].events[n].chunk = ch
    BY <1>2, <1>3, ThisChunk DEF This
  <1>5. Write(p, Event("uploaded", ch))
    BY DEF AppendUploaded
  <1> HIDE DEF ch
  <1>6. QED
    BY <1>1, <1>3, <1>4, <1>5, RankFacts, EventStep DEF AppendUploaded, net, StatesOK

\* Journaling a verified chunk preserves the invariant.
LEMMA AppendVerifiedStep ==
  ASSUME CInv, NEW p \in Proc, AppendVerified(p)
  PROVE  CInv'
  <1> DEFINE ch == This(run[p])
             ev == run[p].events
  <1>1. ~At(p, "idle") /\ run[p].pc = "verified"
    BY DEF AppendVerified, At
  <1>2. /\ Knows("verified", run[p]) /\ ev \in Seq(Line) /\ Shape(ev)
        /\ run[p].idx \in Nat
    BY <1>1, Running
  <1>3. /\ ev # <<>> /\ EventsOf(ev, run[p].idx) # {}
        /\ \A n \in EventsOf(ev, run[p].idx) : ev[n].state # "verified"
    BY <1>2 DEF Knows, Pending, Unverified
  <1>4. /\ ch \in ChunkRec /\ ch.index = run[p].idx
        /\ \A n \in EventsOf(ev, run[p].idx) : ev[n].chunk = ch
    BY <1>2, <1>3, ThisChunk DEF This
  <1>5. \A n \in EventsOf(ev, run[p].idx) : Rank(ev[n].state) < Rank("verified")
    BY <1>2, <1>3, LineFacts, RankFacts DEF EventsOf, StatesOK
  <1>6. Write(p, Event("verified", ch))
    BY DEF AppendVerified
  <1> HIDE DEF ch
  <1>7. QED
    BY <1>1, <1>3, <1>4, <1>5, <1>6, EventStep DEF AppendVerified, net, StatesOK

-----------------------------------------------------------------------------
(* Steps that change the remote, and failures *)

\* A transfer, faithful or corrupt, preserves the invariant.
LEMMA TransferStep ==
  ASSUME CInv, NEW p \in Proc, ~At(p, "idle"),
         NEW name, NEW body, Transfer(name, body),
         NEW l \in Phase, Goto(p, l), Knows(l, run[p]),
         UNCHANGED <<versions, file, staging, sessions>>
  PROVE  CInv'
  <1>1. faults' \in Nat
    BY DEF Transfer, Fault, CInv, TypeOK
  <1>2. GotoOrExit(p, TRUE, l)
    BY DEF GotoOrExit
  <1>3. QED
    BY <1>1, <1>2, QuietGoto DEF file, staging, CInv, TypeOK

\* Uploading a chunk preserves the invariant.
LEMMA UploadStep ==
  ASSUME CInv, NEW p \in Proc, Upload(p)
  PROVE  CInv'
  <1> DEFINE l == AfterUpload(run[p])
  <1>1. ~At(p, "idle") /\ run[p].pc = "upload"
    BY DEF Upload, At
  <1>2. /\ Knows("upload", run[p]) /\ run[p].events \in Seq(Line) /\ Shape(run[p].events)
        /\ run[p].idx \in Nat
    BY <1>1, Running
  <1>3. l \in {"uploaded", "verify"} /\ (l = "uploaded" => StateOf(run[p].events, run[p].idx) = "prepared")
    BY DEF AfterUpload
  <1>4. l = "uploaded" =>
          \A n \in EventsOf(run[p].events, run[p].idx) : run[p].events[n].state = "prepared"
    BY <1>2, <1>3, StateFacts
  <1>5. Goto(p, l)
    BY DEF Upload
  <1> HIDE DEF l
  <1>6. Knows(l, run[p]) /\ l \in Phase
    BY <1>2, <1>3, <1>4 DEF Knows, Pending, Phase
  <1>7. QED
    BY <1>1, <1>5, <1>6, TransferStep DEF Upload

\* Uploading the manifest preserves the invariant.
LEMMA UploadManifestStep ==
  ASSUME CInv, NEW p \in Proc, UploadManifest(p)
  PROVE  CInv'
  <1>1. ~At(p, "idle") /\ run[p].pc = "manifest"
    BY DEF UploadManifest, At
  <1>2. Knows("manifest", run[p])
    BY <1>1, Running
  <1>3. Knows("report", run[p]) /\ "report" \in Phase
    BY <1>2 DEF Knows, Pending, Phase
  <1>4. QED
    BY <1>1, <1>3, TransferStep DEF UploadManifest

\* A process that ends leaves the invariant to the files it leaves behind.
LEMMA ExitStep ==
  ASSUME CInv, NEW p \in Proc, ~At(p, "idle"), Exit(p),
         UNCHANGED <<versions, journal, durable, stage, sessions>>,
         torn' \in BOOLEAN, partial' \subseteq Nat \X Nat, faults' \in Nat
  PROVE  CInv'
  <1>1. GotoOrExit(p, FALSE, "idle") /\ "idle" \in Phase
    BY DEF GotoOrExit, Phase
  <1>2. /\ lock' \in Proc \cup {NoProc} /\ run' \in [Proc -> Locals]
        /\ \A q \in Proc \ {p} : run'[q] = run[q]
        /\ run'[p].pc = "idle"
    BY <1>1, GotoType DEF CInv
  <1>3. TypeOK'
    BY <1>2 DEF CInv, TypeOK
  <1>4. Shape(journal)'
    BY DEF CInv, Shape
  <1>5. QED
    BY <1>2, <1>3, <1>4, Combine

\* A failed or killed process may leave part of a line.
LEMMA TornType ==
  ASSUME CInv, NEW p \in Proc, Error(p) \/ Kill(p)
  PROVE  torn' \in BOOLEAN /\ faults' \in Nat /\ partial' \subseteq Nat \X Nat
  <1>1. torn \in BOOLEAN /\ (run[p].pc \in AppendPoints) \in BOOLEAN
    BY DEF CInv, TypeOK
  <1>2. torn' = torn \/ torn' = (run[p].pc \in AppendPoints)
    BY Zenon DEF Error, Kill
  <1>3. torn' \in BOOLEAN
    BY <1>1, <1>2, Zenon
  <1>4. faults' \in Nat
    BY DEF Error, Kill, Fault, CInv, TypeOK
  <1>5. partial' \subseteq Nat \X Nat
    BY DEF Error, Kill, CInv, TypeOK, staging
  <1>6. QED
    BY <1>3, <1>4, <1>5

\* A failure of the helper preserves the invariant.
LEMMA ErrorStep ==
  ASSUME CInv, NEW p \in Proc, Error(p)
  PROVE  CInv'
  BY TornType, ExitStep DEF Error

\* Killing the helper preserves the invariant.
LEMMA KillStep ==
  ASSUME CInv, NEW p \in Proc, Kill(p)
  PROVE  CInv'
  BY TornType, ExitStep DEF Kill, staging

\* A step that leaves everything the invariant speaks of alone but the image.
LEMMA Elsewhere ==
  ASSUME CInv, versions' \in Seq([1..Size -> Byte]), Len(versions') > 0, faults' \in Nat,
         UNCHANGED <<file, staging, sessions, lock, run>>
  PROVE  CInv'
  <1>1. TypeOK'
    BY DEF CInv, TypeOK, file, staging
  <1>2. SingleWriter' /\ Uncut' /\ Shape(journal)'
    BY DEF CInv, SingleWriter, Uncut, Shape, At, file
  <1>3. ASSUME NEW p \in Proc PROVE Knows(run[p].pc, run[p])'
    BY DEF CInv, Knows, Unverified
  <1>4. QED
    BY <1>1, <1>2, <1>3 DEF CInv

\* The end of an orphaned upload changes the remote only.
LEMMA OrphanEndsStep ==
  ASSUME CInv, OrphanEnds
  PROVE  CInv'
  <1>1. UNCHANGED <<versions, file, staging, sessions, lock, run>> /\ faults' \in Nat
    BY DEF OrphanEnds, Fault, CInv, TypeOK
  <1>2. versions' \in Seq([1..Size -> Byte]) /\ Len(versions') > 0
    BY <1>1 DEF CInv, TypeOK
  <1>3. QED
    BY <1>1, <1>2, Elsewhere

\* A write to the image preserves the invariant.
LEMMA SourceWriteStep ==
  ASSUME CInv, SourceWrite
  PROVE  CInv'
  <1>1. PICK k \in 1..Size, b \in Byte : versions' = Append(versions, [Source EXCEPT ![k] = b])
    BY DEF SourceWrite
  <1>2. versions \in Seq([1..Size -> Byte]) /\ Len(versions) > 0 /\ Source \in [1..Size -> Byte]
    BY DEF CInv, TypeOK, Source
  <1>3. [Source EXCEPT ![k] = b] \in [1..Size -> Byte]
    BY <1>2
  <1>4. versions' \in Seq([1..Size -> Byte]) /\ Len(versions') > 0
    BY <1>1, <1>2, <1>3
  <1>5. QED
    BY <1>4, Elsewhere DEF SourceWrite, CInv, TypeOK

\* A power loss preserves the invariant.
LEMMA PowerLossStep ==
  ASSUME CInv, PowerLoss
  PROVE  CInv'
  <1>1. PICK n \in durable..Len(journal) : journal' = SubSeq(journal, 1, n) /\ durable' = n
    BY DEF PowerLoss
  <1>2. journal \in Seq(Line) /\ durable \in 0..Len(journal) /\ Shape(journal)
    BY DEF CInv, TypeOK
  <1>3. n \in 0..Len(journal)
    BY <1>1, <1>2
  <1>4. /\ journal' \in Seq(Line) /\ Len(journal') = n
        /\ \A k \in 1..n : journal'[k] = journal[k]
        /\ Shape(journal')
    BY <1>1, <1>2, <1>3, PrefixShape
  <1>5. run' = [p \in Proc |-> Idle] /\ lock' = NoProc
    BY DEF PowerLoss
  <1>6. TypeOK'
    <2>1. Idle \in Locals
      BY DEF Idle, Locals, Phase
    <2>2. run' \in [Proc -> Locals]
      BY <1>5, <2>1
    <2>3. torn' \in BOOLEAN
      BY Zenon DEF PowerLoss
    <2>4. /\ stage' \subseteq [session : Nat, index : Nat, raw : Seq(Byte)]
          /\ partial' \subseteq Nat \X Nat
      BY DEF PowerLoss, CInv, TypeOK
    <2>5. faults' \in Nat
      BY DEF PowerLoss, Fault, CInv, TypeOK
    <2>6. durable' \in 0..Len(journal')
      BY <1>1, <1>3, <1>4
    <2>7. versions' = versions /\ sessions' = sessions
      BY DEF PowerLoss
    <2>8. QED
      BY <1>4, <1>5, <2>2, <2>3, <2>4, <2>5, <2>6, <2>7 DEF CInv, TypeOK
  <1>7. \A p \in Proc : run'[p].pc = "idle"
    BY <1>5 DEF Idle
  <1>8. SingleWriter' /\ Uncut'
    BY <1>7 DEF SingleWriter, Uncut, At
  <1>9. Shape(journal)'
    BY <1>4 DEF Shape
  <1>10. \A p \in Proc : Knows(run[p].pc, run[p])'
    BY <1>7 DEF Knows, Pending
  <1>11. QED
    BY <1>6, <1>8, <1>9, <1>10 DEF CInv

\* The invariant holds before the first run.
LEMMA InitCInv == Init => CInv
  <1> SUFFICES ASSUME Init PROVE CInv
    OBVIOUS
  <1>1. Idle \in Locals /\ Idle.pc = "idle"
    BY DEF Idle, Locals, Phase
  <1>2. Size \in Nat /\ Image \in [1..Size -> Byte]
    BY RecoverAssumption
  <1>3. versions \in Seq([1..Size -> Byte]) /\ Len(versions) = 1
    BY <1>2 DEF Init
  <1>4. torn \in BOOLEAN
    BY Zenon DEF Init
  <1>5. run \in [Proc -> Locals] /\ \A p \in Proc : run[p].pc = "idle"
    BY <1>1 DEF Init
  <1>6. TypeOK
    BY <1>3, <1>4, <1>5 DEF Init, TypeOK
  <1>7. SingleWriter /\ Uncut
    BY <1>5 DEF SingleWriter, Uncut, At
  <1>8. \A p \in Proc : Knows(run[p].pc, run[p])
    BY <1>5 DEF Knows, Pending
  <1>9. Shape(journal)
    BY DEF Init, Shape
  <1>10. QED
    BY <1>6, <1>7, <1>8, <1>9 DEF CInv

\* Every step preserves the invariant.
LEMMA NextCInv == CInv /\ [Next]_vars => CInv'
  <1> SUFFICES ASSUME CInv, [Next]_vars PROVE CInv'
    OBVIOUS
  <1>1. CASE UNCHANGED vars
    BY <1>1, Elsewhere DEF vars, file, staging, CInv, TypeOK
  <1>2. ASSUME NEW p \in Proc, Open(p) \/ Step(p) \/ Error(p) \/ Kill(p)
        PROVE  CInv'
    <2>1. CASE Step(p)
      BY <2>1, GetIdentityStep, NewHeaderStep, ReplayStep, FsyncStep, NextChunkStep, ReadStep,
         PublishStep, RecheckStep, AppendPreparedStep, ReconcileStep, CheckStagedStep,
         UploadStep, AppendUploadedStep, VerifyStep, AppendVerifiedStep, CleanStep,
         FinalStep, UploadManifestStep, ReportStep DEF Step
    <2>2. QED
      BY <1>2, <2>1, OpenStep, ErrorStep, KillStep
  <1>3. CASE OrphanEnds \/ PowerLoss \/ SourceWrite
    BY <1>3, OrphanEndsStep, PowerLossStep, SourceWriteStep
  <1>4. QED
    BY <1>1, <1>2, <1>3 DEF Next

-----------------------------------------------------------------------------
(* What is stored *)

\* Storing an object leaves the others alone, and storing a chunk again is harmless.
LEMMA PutSecures ==
  ASSUME NEW store, NEW name, NEW body, NEW s, NEW c, Secured(store, s, c),
         ChunkName(s, c) # name \/ body \in {c.raw, Spoilt}
  PROVE  Secured(Put(store, name, body), s, c)
  BY DEF Secured, Holds, Put

\* The names of two chunks differ when their indexes do, and no chunk has the
\* name of a manifest.
LEMMA NamesDiffer ==
  ASSUME NEW s, NEW t, NEW c, NEW d
  PROVE  /\ c.index # d.index => ChunkName(s, c) # ChunkName(t, d)
         /\ ChunkName(s, c) # ManifestName(t)
         /\ ChunkName(s, c).kind = "chunk" /\ ChunkName(s, c).hash = c.raw
         /\ ManifestName(t).kind = "manifest"
  BY DEF ChunkName, ManifestName

\* What a process stores spares the verified chunks: the chunk at hand is not
\* verified yet, and a manifest has a name of its own.
LEMMA StoreSpares ==
  ASSUME CInv, SInv, NEW p \in Proc, run[p].pc \in {"upload", "manifest"},
         NEW name, NEW body,
         name = IF run[p].pc = "upload" THEN ThisName(run[p]) ELSE ManifestName(Session(run[p])),
         UNCHANGED journal, remote' = Put(remote, name, body)
  PROVE  VerifiedIsStored'
  <1> SUFFICES ASSUME NEW n \in 2..Len(journal), journal[n].state = "verified"
               PROVE  Secured(remote', journal[1].session, journal[n].chunk)
    BY DEF VerifiedIsStored
  <1> DEFINE mine == ChunkName(journal[1].session, journal[n].chunk)
  <1>1. Secured(remote, journal[1].session, journal[n].chunk)
    BY DEF SInv, VerifiedIsStored
  <1>2. mine # name
    <2>1. CASE run[p].pc = "manifest"
      BY <2>1, NamesDiffer
    <2>2. CASE run[p].pc = "upload"
      <3>1. /\ run[p].events = journal /\ journal \in Seq(Line) /\ Shape(journal)
            /\ run[p].idx \in Nat /\ Knows("upload", run[p])
        BY <2>2, Running DEF At
      <3>2. /\ EventsOf(journal, run[p].idx) # {}
            /\ \A k \in EventsOf(journal, run[p].idx) : journal[k].state # "verified"
        BY <3>1 DEF Knows, Pending, Unverified
      <3>3. ChunkOf(journal, run[p].idx).index = run[p].idx
        BY <3>1, <3>2, ThisChunk
      <3>4. journal[n].chunk.index # run[p].idx
        BY <3>2 DEF EventsOf
      <3>5. name = ChunkName(Session(run[p]), ChunkOf(journal, run[p].idx))
        BY <2>2, <3>1 DEF ThisName, This
      <3>6. QED
        BY <3>3, <3>4, <3>5, NamesDiffer
    <2>3. QED
      BY <2>1, <2>2
  <1>3. QED
    BY <1>1, <1>2, PutSecures

\* The object of an interrupted upload has the name of what is at hand, and
\* its true bytes.
LEMMA StoringFacts ==
  ASSUME NEW r, NEW o \in Storing(r)
  PROVE  /\ r.pc \in {"upload", "manifest"}
         /\ o.name = IF r.pc = "upload" THEN ThisName(r) ELSE ManifestName(Session(r))
         /\ o.name.kind = "chunk" => o.body = o.name.hash
  <1>1. r.pc \in {"upload", "manifest"}
    BY DEF Storing
  <1>2. CASE r.pc = "upload"
    <2>1. o = [name |-> ThisName(r), body |-> This(r).raw]
      BY <1>2 DEF Storing
    <2>2. QED
      BY <1>2, <2>1, NamesDiffer DEF ThisName
  <1>3. CASE r.pc = "manifest"
    <2>1. o = [name |-> ManifestName(Session(r)), body |-> Manifest(r)]
      BY <1>3 DEF Storing
    <2>2. QED
      BY <1>3, <2>1, NamesDiffer
  <1>4. QED
    BY <1>1, <1>2, <1>3

\* Steps of a process that neither journal nor transfer anything.
Silent(p) ==
  \/ Open(p) \/ GetIdentity(p) \/ Replay(p) \/ Fsync(p) \/ NextChunk(p) \/ Read(p) \/ Publish(p)
  \/ Recheck(p) \/ Reconcile(p) \/ CheckStaged(p) \/ Verify(p) \/ Clean(p) \/ Final(p) \/ Report(p)

\* Only reading the object back leads to the place before "verified".
LEMMA SilentFacts ==
  ASSUME CInv, NEW p \in Proc, Silent(p)
  PROVE  /\ UNCHANGED <<journal, remote, orphans>>
         /\ \A q \in Proc \ {p} : run'[q] = run[q]
         /\ run'[p].pc = "verified" =>
              Stored(run[p]) /\ run'[p].events = run[p].events /\ run'[p].idx = run[p].idx
  <1>1. UNCHANGED <<journal, remote, orphans>>
    BY DEF Silent, Open, GetIdentity, Replay, Fsync, NextChunk, Read, Publish, Recheck, Reconcile,
           CheckStaged, Verify, Clean, Final, Report, file, net
  <1>2. run \in [Proc -> Locals] /\ run[p] \in Locals
    BY DEF CInv, TypeOK
  <1>3. CASE Open(p) \/ GetIdentity(p) \/ Read(p) \/ CheckStaged(p) \/ Clean(p)
    <2>1. Idle.pc = "idle"
      BY DEF Idle
    <2>2. PICK x : run' = [run EXCEPT ![p] = x] /\ x.pc # "verified"
      <3>1. CASE Open(p)
        <4>1. PICK c \in ChunkSizes :
          run' = [run EXCEPT ![p] = [Idle EXCEPT !.pc = "identity", !.csize = c, !.events = journal]]
          BY <3>1 DEF Open
        <4>2. [Idle EXCEPT !.pc = "identity", !.csize = c, !.events = journal].pc = "identity"
          BY DEF Idle
        <4>3. QED
          BY <4>1, <4>2
      <3>2. CASE GetIdentity(p)
        <4> DEFINE l == IF run[p].events = <<>> THEN "header" ELSE "replay"
                   x == [run[p] EXCEPT !.ident = Identity, !.pc = l]
        <4>1. run' = [run EXCEPT ![p] = x]
          BY <3>2 DEF GetIdentity
        <4>2. x.pc = l /\ l # "verified"
          BY <1>2 DEF Locals
        <4> HIDE DEF x
        <4>3. QED
          BY <4>1, <4>2
      <3>3. CASE Read(p)
        <4>1. PICK b : run' = [run EXCEPT ![p] = [run[p] EXCEPT !.buf = b]] /\ run[p].pc = "read"
          BY <3>3 DEF Read, At
        <4>2. [run[p] EXCEPT !.buf = b].pc = "read"
          BY <1>2, <4>1 DEF Locals
        <4>3. QED
          BY <4>1, <4>2
      <3>4. CASE CheckStaged(p)
        <4>1. PICK l \in {"upload", "read"} :
                run' = [run EXCEPT ![p] = [run[p] EXCEPT !.buf = <<>>, !.pc = l]]
          BY <3>4 DEF CheckStaged
        <4>2. [run[p] EXCEPT !.buf = <<>>, !.pc = l].pc = l
          BY <1>2 DEF Locals
        <4>3. QED
          BY <4>1, <4>2
      <3>5. CASE Clean(p)
        <4>1. run' = [run EXCEPT ![p] = [run[p] EXCEPT !.pc = "chunk", !.idx = run[p].idx + 1]]
          BY <3>5, Zenon DEF Clean
        <4>2. [run[p] EXCEPT !.pc = "chunk", !.idx = run[p].idx + 1].pc = "chunk"
          BY <1>2 DEF Locals
        <4>3. QED
          BY <4>1, <4>2
      <3>6. QED
        BY <1>3, <3>1, <3>2, <3>3, <3>4, <3>5
    <2>3. QED
      BY <1>1, <1>2, <2>2
  <1>4. CASE \/ Replay(p) \/ Fsync(p) \/ NextChunk(p) \/ Publish(p) \/ Recheck(p) \/ Reconcile(p)
             \/ Verify(p) \/ Final(p) \/ Report(p)
    <2>1. PICK l, ok : GotoOrExit(p, ok, l) /\ (ok /\ l = "verified" => Stored(run[p]))
      <3>1. CASE Replay(p)
        <4>1. PICK ok : GotoOrExit(p, ok, "chunk")
          BY <3>1 DEF Replay
        <4>2. QED
          BY <4>1
      <3>2. CASE Fsync(p)
        <4> DEFINE ev == run[p].events
                   l == AfterFsync(ev[Len(ev)].state)
        <4>1. ~At(p, "idle") /\ run[p].pc = "fsync"
          BY <3>2 DEF Fsync, At
        <4>2. ev \in Seq(Line) /\ Shape(ev) /\ ev # <<>> /\ Len(ev) >= 1
          BY <4>1, Running DEF Knows
        <4>3. GotoOrExit(p, TRUE, l)
          BY <3>2 DEF Fsync, GotoOrExit
        <4> HIDE DEF ev
        <4>4. ev[Len(ev)].state \in StatesOK \cup {"header"}
          BY <4>2, LineFacts DEF Shape
        <4>5. l # "verified"
          BY <4>4 DEF AfterFsync, StatesOK
        <4> HIDE DEF l
        <4>6. QED
          BY <4>3, <4>5
      <3>3. CASE NextChunk(p)
        BY <3>3 DEF NextChunk
      <3>4. CASE Publish(p)
        BY <3>4 DEF Publish, GotoOrExit
      <3>5. CASE Recheck(p)
        <4> DEFINE l == IF StateOf(run[p].events, run[p].idx) # "none" THEN "upload" ELSE "prepared"
        <4>1. PICK ok : GotoOrExit(p, ok, l)
          BY <3>5 DEF Recheck
        <4>2. l # "verified"
          OBVIOUS
        <4> HIDE DEF l
        <4>3. QED
          BY <4>1, <4>2
      <3>6. CASE Reconcile(p)
        BY <3>6 DEF Reconcile, GotoOrExit
      <3>7. CASE Verify(p)
        <4>1. \/ Stored(run[p]) /\ GotoOrExit(p, TRUE, "verified")
              \/ GotoOrExit(p, FALSE, "verified")
          BY <3>7 DEF Verify, GotoOrExit
        <4>2. CASE Stored(run[p]) /\ GotoOrExit(p, TRUE, "verified")
          BY <4>2
        <4>3. CASE GotoOrExit(p, FALSE, "verified")
          BY <4>3
        <4>4. QED
          BY <4>1, <4>2, <4>3
      <3>8. CASE Final(p)
        BY <3>8 DEF Final
      <3>9. CASE Report(p)
        BY <3>9 DEF Report, GotoOrExit
      <3>10. QED
        BY <1>4, <3>1, <3>2, <3>3, <3>4, <3>5, <3>6, <3>7, <3>8, <3>9
    <2>2. CASE ok
      <3>1. run' = [run EXCEPT ![p].pc = l]
        BY <2>1, <2>2 DEF GotoOrExit, Goto
      <3>2. QED
        BY <1>1, <1>2, <2>1, <2>2, <3>1 DEF Locals
    <2>3. CASE ~ok
      <3>1. run' = [run EXCEPT ![p] = Idle]
        BY <2>1, <2>3 DEF GotoOrExit, Exit
      <3>2. QED
        BY <1>1, <1>2, <3>1 DEF Idle
    <2>4. QED
      BY <2>2, <2>3
  <1>5. QED
    BY <1>3, <1>4 DEF Silent

\* A process that is not at "verified" any more does not matter, and the
\* others are outside.
LEMMA ReadBackKept ==
  ASSUME CInv, NEW p \in Proc, ~At(p, "idle") \/ lock = NoProc,
         \A q \in Proc \ {p} : run'[q] = run[q], run'[p].pc # "verified"
  PROVE  ReadBack'
  BY RecoverAssumption DEF CInv, SingleWriter, At, ReadBack

\* Steps that neither journal nor transfer anything.
LEMMA SilentStored ==
  ASSUME CInv, SInv, NEW p \in Proc, Silent(p)
  PROVE  SInv'
  <1>1. /\ UNCHANGED <<journal, remote, orphans>>
        /\ \A q \in Proc \ {p} : run'[q] = run[q]
        /\ run'[p].pc = "verified" =>
              Stored(run[p]) /\ run'[p].events = run[p].events /\ run'[p].idx = run[p].idx
    BY SilentFacts
  <1>2. Honest' /\ VerifiedIsStored'
    BY <1>1 DEF SInv, Honest, VerifiedIsStored
  <1>3. ReadBack'
    <2> SUFFICES ASSUME NEW q \in Proc, run'[q].pc = "verified"
                 PROVE  Secured(remote, Session(run[q]), This(run[q]))'
      BY DEF ReadBack, At
    <2>1. \/ q = p /\ Stored(run[p])
          \/ Secured(remote, Session(run[q]), This(run[q]))
      BY <1>1 DEF SInv, ReadBack, At
    <2>2. Secured(remote, Session(run[q]), This(run[q]))
      BY <2>1 DEF Stored, ThisName, Secured
    <2>3. run'[q].events = run[q].events /\ run'[q].idx = run[q].idx
      BY <1>1
    <2>4. Session(run[q])' = Session(run[q]) /\ This(run[q])' = This(run[q])
      BY <2>3 DEF This, Session
    <2>5. QED
      BY <1>1, <2>2, <2>4
  <1>4. QED
    BY <1>2, <1>3 DEF SInv

\* Journaling: a "verified" line is written where the object has been read back.
LEMMA WriteStored ==
  ASSUME CInv, SInv, NEW p \in Proc, ~At(p, "idle"), NEW e, Write(p, e),
         journal # <<>> /\ e.state = "verified" =>
           Secured(remote, journal[1].session, e.chunk),
         UNCHANGED <<remote, orphans>>
  PROVE  SInv'
  <1> DEFINE new == Append(journal, e)
  <1>1. journal \in Seq(Line) /\ journal' = new
    BY WriteIs DEF CInv, TypeOK
  <1>2. /\ Len(new) = Len(journal) + 1
        /\ \A n \in 1..Len(journal) : new[n] = journal[n]
        /\ new[Len(journal) + 1] = e
    BY <1>1
  <1> HIDE DEF new
  <1>3. VerifiedIsStored'
    <2> SUFFICES ASSUME NEW n \in 2..Len(new), new[n].state = "verified"
                 PROVE  Secured(remote, new[1].session, new[n].chunk)
      BY <1>1 DEF VerifiedIsStored
    <2>1. journal # <<>> /\ new[1] = journal[1]
      BY <1>1, <1>2
    <2>2. CASE n <= Len(journal)
      BY <2>1, <2>2, <1>2 DEF SInv, VerifiedIsStored
    <2>3. CASE n = Len(journal) + 1
      BY <2>1, <2>3, <1>2
    <2>4. QED
      BY <2>2, <2>3, <1>1, <1>2
  <1>4. \A q \in Proc \ {p} : run'[q] = run[q]
    BY WriteIs DEF CInv, TypeOK
  <1>5. run'[p].pc = "fsync"
    <2>1. run' = [run EXCEPT ![p] = [run[p] EXCEPT !.pc = "fsync", !.buf = <<>>,
                                       !.events = Append(run[p].events, e)]]
      BY WriteIs
    <2>2. run \in [Proc -> Locals]
      BY DEF CInv, TypeOK
    <2>3. QED
      BY <2>1, <2>2 DEF Locals
  <1>6. ReadBack' /\ Honest'
    BY <1>4, <1>5, ReadBackKept DEF SInv, Honest
  <1>7. QED
    BY <1>3, <1>6 DEF SInv

\* What the places that journal something write.
LEMMA JournalStored ==
  ASSUME CInv, SInv, NEW p \in Proc,
         NewHeader(p) \/ AppendPrepared(p) \/ AppendUploaded(p) \/ AppendVerified(p)
  PROVE  SInv'
  <1>1. ~At(p, "idle")
    BY DEF NewHeader, AppendPrepared, AppendUploaded, AppendVerified, At
  <1>2. UNCHANGED <<remote, orphans>>
    BY DEF NewHeader, AppendPrepared, AppendUploaded, AppendVerified, net
  <1>3. CASE NewHeader(p)
    <2>1. Header(sessions + 1, run[p].ident, run[p].csize).state # "verified"
      BY DEF Header
    <2>2. QED
      BY <1>1, <1>2, <1>3, <2>1, WriteStored DEF NewHeader
  <1>4. CASE AppendPrepared(p)
    <2>1. Event("prepared", Chunk(run[p].idx, run[p].csize, run[p].buf)).state # "verified"
      BY DEF Event
    <2>2. QED
      BY <1>1, <1>2, <1>4, <2>1, WriteStored DEF AppendPrepared
  <1>5. CASE AppendUploaded(p)
    <2>1. Event("uploaded", This(run[p])).state # "verified"
      BY DEF Event
    <2>2. QED
      BY <1>1, <1>2, <1>5, <2>1, WriteStored DEF AppendUploaded
  <1>6. CASE AppendVerified(p)
    <2> DEFINE e == Event("verified", This(run[p]))
    <2>1. Secured(remote, Session(run[p]), This(run[p])) /\ run[p].events = journal
      BY <1>1, <1>6, Running DEF AppendVerified, SInv, ReadBack
    <2>2. e.chunk = This(run[p]) /\ Write(p, e)
      BY <1>6 DEF Event, AppendVerified
    <2> HIDE DEF e
    <2>3. Secured(remote, journal[1].session, e.chunk)
      BY <2>1, <2>2 DEF Session
    <2>4. QED
      BY <1>1, <1>2, <2>2, <2>3, WriteStored
  <1>7. QED
    BY <1>3, <1>4, <1>5, <1>6

\* Transfers, and failures that may have stored the object at hand.
LEMMA TransferStored ==
  ASSUME CInv, SInv, NEW p \in Proc, Upload(p) \/ UploadManifest(p) \/ Error(p) \/ Kill(p)
  PROVE  SInv'
  <1>1. ~At(p, "idle") /\ run \in [Proc -> Locals]
    BY DEF Upload, UploadManifest, Error, Kill, At, CInv, TypeOK
  <1>2. journal' = journal
    BY DEF Upload, UploadManifest, Error, Kill, file
  <1>3. Honest'
    BY StoringFacts DEF Upload, UploadManifest, Transfer, Error, Kill, SInv, Honest
  <1>4. VerifiedIsStored'
    <2>1. CASE Upload(p) \/ UploadManifest(p)
      <3>1. /\ run[p].pc \in {"upload", "manifest"}
            /\ \E name, body : /\ remote' = Put(remote, name, body)
                               /\ name = IF run[p].pc = "upload" THEN ThisName(run[p])
                                                                ELSE ManifestName(Session(run[p]))
        BY <2>1 DEF Upload, UploadManifest, Transfer, At
      <3>2. QED
        BY <1>2, <3>1, StoreSpares
    <2>2. CASE remote' = remote
      BY <1>2, <2>2 DEF SInv, VerifiedIsStored
    <2>3. CASE \E o \in Storing(run[p]) : \E body : remote' = Put(remote, o.name, body)
      BY <1>2, <2>3, StoringFacts, StoreSpares
    <2>4. QED
      BY <2>1, <2>2, <2>3 DEF Error, Kill
  <1>5. /\ run'[p].pc # "verified"
        /\ \A q \in Proc \ {p} : run'[q] = run[q]
    <2>1. CASE Upload(p) \/ UploadManifest(p)
      <3>1. PICK l \in {"uploaded", "verify", "report"} : run' = [run EXCEPT ![p].pc = l]
        BY <2>1 DEF Upload, UploadManifest, AfterUpload, Goto
      <3>2. QED
        BY <1>1, <3>1 DEF Locals
    <2>2. CASE Error(p) \/ Kill(p)
      BY <1>1, <2>2 DEF Error, Kill, Exit, Idle
    <2>3. QED
      BY <2>1, <2>2
  <1>6. QED
    BY <1>1, <1>3, <1>4, <1>5, ReadBackKept DEF SInv

\* An orphaned upload rewrites an object with the bytes it already has, unless
\* it is corrupted on the way.
LEMMA OrphanSpares ==
  ASSUME SInv, OrphanEnds, NEW s, NEW c, Secured(remote, s, c)
  PROVE  Secured(remote', s, c)
  <1>1. PICK o \in orphans : \/ remote' = remote
                             \/ \E body \in {o.body, Spoilt} : remote' = Put(remote, o.name, body)
    BY DEF OrphanEnds
  <1>2. o.name.kind = "chunk" => o.body = o.name.hash
    BY DEF SInv, Honest
  <1>3. ChunkName(s, c) = o.name => c.raw = o.body
    BY <1>2, NamesDiffer
  <1>4. QED
    BY <1>1, <1>3, PutSecures

\* The end of an orphaned upload, a power loss and a write to the image.
LEMMA WorldStored ==
  ASSUME CInv, SInv, OrphanEnds \/ PowerLoss \/ SourceWrite
  PROVE  SInv'
  <1>1. CASE OrphanEnds
    <2>1. UNCHANGED <<journal, run>> /\ orphans' \subseteq orphans
      BY <1>1 DEF OrphanEnds, file
    <2>2. Honest' /\ VerifiedIsStored'
      BY <1>1, <2>1, OrphanSpares DEF SInv, Honest, VerifiedIsStored
    <2>3. ReadBack'
      BY <1>1, <2>1, OrphanSpares DEF SInv, ReadBack, At, This, Session
    <2>4. QED
      BY <2>2, <2>3 DEF SInv
  <1>2. CASE PowerLoss
    <2>1. PICK n \in durable..Len(journal) : journal' = SubSeq(journal, 1, n)
      BY <1>2 DEF PowerLoss
    <2>2. journal \in Seq(Line) /\ durable \in 0..Len(journal) /\ Shape(journal)
      BY DEF CInv, TypeOK
    <2>3. Len(journal') = n /\ n \in 0..Len(journal) /\ \A k \in 1..n : journal'[k] = journal[k]
      BY <2>1, <2>2, PrefixShape
    <2>4. VerifiedIsStored'
      BY <1>2, <2>2, <2>3 DEF PowerLoss, SInv, VerifiedIsStored
    <2>5. Honest' /\ ReadBack'
      BY <1>2 DEF PowerLoss, Honest, ReadBack, At, Idle
    <2>6. QED
      BY <2>4, <2>5 DEF SInv
  <1>3. CASE SourceWrite
    BY <1>3 DEF SourceWrite, SInv, Honest, VerifiedIsStored, ReadBack, At, This, Session, file, net
  <1>4. QED
    BY <1>1, <1>2, <1>3

\* Every step keeps the objects of the verified chunks.
LEMMA NextSInv == CInv /\ SInv /\ [Next]_vars => SInv'
  <1> SUFFICES ASSUME CInv, SInv, [Next]_vars PROVE SInv'
    OBVIOUS
  <1>1. CASE UNCHANGED vars
    BY <1>1 DEF vars, SInv, Honest, VerifiedIsStored, ReadBack, At, This, Session,
               file, net
  <1>2. ASSUME NEW p \in Proc, Open(p) \/ Step(p) \/ Error(p) \/ Kill(p)
        PROVE  SInv'
    BY <1>2, SilentStored, JournalStored, TransferStored DEF Step, Silent
  <1>3. QED
    BY <1>1, <1>2, WorldStored DEF Next

-----------------------------------------------------------------------------
(* Theorems *)

\* The state of the uploader, its journal and its staging directory stays
\* within its type, for any image, chunk size, processes and faults.
THEOREM Typed == Spec => []TypeOK
  BY InitCInv, NextCInv, PTL DEF Spec, CInv

\* Two helpers never work on one journal at a time, and the list of events a
\* helper decides by is what the file holds (Journal, the flock).
THEOREM OneWriter == Spec => []SingleWriter
  BY InitCInv, NextCInv, PTL DEF Spec, CInv

\* A chunk that the journal calls verified is on the remote with the bytes
\* the journal records, whatever fails and whenever it fails.
THEOREM VerifiedStays == Spec => []VerifiedIsStored
  <1>1. Init => SInv
    BY DEF Init, SInv, Honest, VerifiedIsStored, ReadBack, At, Idle
  <1>2. QED
    BY <1>1, InitCInv, NextCInv, NextSInv, PTL DEF Spec, SInv

-----------------------------------------------------------------------------
(***************************************************************************)
(* On top of this: the journal is one upload() can resume from and records *)
(* the bytes of the image, which does not depend on the remote; and then   *)
(* what is in the staging directory, where the bytes of a journaled chunk  *)
(* are, and what an announced manifest promises.                           *)
(***************************************************************************)

(* Predicates on journals and locals *)

\* The chunk with index i is verified by one of the first n lines.
Verified(ev, i, n) == \E m \in 2..n : ev[m].chunk.index = i /\ ev[m].state = "verified"

\* The chunks before k are.
Through(ev, k) == \A i \in 0..(k - 1) : Verified(ev, i, Len(ev))

\* A line comes after the "verified" lines of all chunks before its own.
InOrder(ev) == \A n \in 2..Len(ev) : \A i \in 0..(ev[n].chunk.index - 1) : Verified(ev, i, n - 1)

\* The chunks lie where the header's chunk size puts them.
Laid(ev) ==
  \A n \in 2..Len(ev) : ValidChunk(ev[n].chunk, ev[n].chunk.index, ev[1].chunk_size)

\* The header is of this world: its session was drawn, its settings were given
\* and its source was a version of the image.
Headed(ev) ==
  ev # <<>> =>
    /\ ev[1].chunk_size \in ChunkSizes
    /\ ev[1].session \in 1..sessions
    /\ Detectable => ev[1].source \in 1..Len(versions)

\* Where the helper has the settings of the session.
InSession == Phase \ {"idle", "identity", "header", "replay"}

\* Where it is through with the loop.
After == {"final", "manifest", "report"}

\* Where the chunk at hand is one of the image.
AtChunk(l, r) ==
  \/ l \in InSession \ (After \cup {"chunk", "fsync"})
  \/ l = "fsync" /\ Len(r.events) > 1

\* What a process with locals r has done of its loop at place l of upload().
Placed(l, r) ==
  /\ r.csize \in ChunkSizes
  /\ Through(r.events, r.idx)
  /\ l = "clean" => Verified(r.events, r.idx, Len(r.events))
  /\ l \notin InSession => r.idx = 0
  /\ l \in InSession => r.events[1].chunk_size = r.csize /\ r.events[1].source = r.ident
  /\ Detectable /\ l # "identity" => r.ident \in 1..Len(versions)
  /\ AtChunk(l, r) => ~Beyond(r.idx, r.csize)
  /\ r.idx > 0 => ~Beyond(r.idx - 1, r.csize)
  /\ l \in After => Beyond(r.idx, r.csize)

\* Every byte in the buffer is from that version of the image.
ReadFrom(r, v) == \A k \in 1..Len(r.buf) : r.buf[k] = versions[v][Offset(r.idx, r.csize) + k]

\* What prepare() has read: all from the version of the session, unless the
\* image has another version by now, which identity() will tell.
Buffered(l, r) ==
  /\ l \in {"identity", "header", "replay", "chunk", "fsync", "clean"} => r.buf = <<>>
  /\ l = "read" => Len(r.buf) <= Length(r.idx, r.csize)
  /\ l \in {"recheck", "prepared"} => Len(r.buf) = Length(r.idx, r.csize)
  /\ Detectable /\ l \in {"read", "recheck"} /\ Len(versions) = r.ident => ReadFrom(r, r.ident)
  /\ Detectable /\ l = "prepared" => ReadFrom(r, r.ident)

\* The inductive invariant about the journal, on top of CInv.
JInv ==
  /\ Headed(journal)
  /\ InOrder(journal)
  /\ Replayable(journal)
  /\ Laid(journal)
  /\ JournalIsSnapshot
  /\ \A p \in Proc : ~At(p, "idle") => Placed(run[p].pc, run[p]) /\ Buffered(run[p].pc, run[p])

-----------------------------------------------------------------------------
(* Facts about the layout and about journals *)

\* Where chunks begin and how long they are.
LEMMA LayoutFacts ==
  ASSUME NEW i \in Nat, NEW c \in ChunkSizes
  PROVE  /\ c \in Nat \ {0} /\ Offset(i, c) \in Nat /\ Length(i, c) \in Int
         /\ Offset(i + 1, c) = Offset(i, c) + c
         /\ Offset(0, c) = 0
         /\ ~Beyond(i, c) => Length(i, c) \in Nat \ {0}
         /\ Offset(i, c) + Length(i, c) <= Size
  <1>1. c \in Nat \ {0} /\ Size \in Nat \ {0}
    BY RecoverAssumption
  <1>2. i * c \in Nat /\ (i + 1) * c = i * c + c /\ 0 * c = 0
    BY <1>1
  <1>3. QED
    BY <1>1, <1>2 DEF Offset, Length, Beyond

\* Once beyond the image, always beyond.
LEMMA BeyondUp ==
  ASSUME NEW i \in Nat, NEW j \in Nat, NEW c \in ChunkSizes, i <= j, Beyond(i, c)
  PROVE  Beyond(j, c)
  <1>1. c \in Nat \ {0} /\ Size \in Nat \ {0}
    BY RecoverAssumption
  <1>2. i * c \in Nat /\ j * c \in Nat
    BY <1>1
  <1>3. \E d \in Nat : j * c = i * c + d
    <2>1. j - i \in Nat
      OBVIOUS
    <2>2. (j - i) * c \in Nat
      BY <1>1, <2>1
    <2>3. j * c = i * c + (j - i) * c
      BY <1>1
    <2>4. QED
      BY <2>2, <2>3
  <1>4. i * c <= j * c
    BY <1>2, <1>3
  <1>5. QED
    BY <1>1, <1>2, <1>4 DEF Beyond, Offset

\* Whether a line is valid depends on the lines up to it.
LEMMA ValidPrefix ==
  ASSUME NEW ev \in Seq(Line), Shape(ev), NEW new, NEW n \in 2..Len(ev),
         \A k \in 1..n : new[k] = ev[k], ValidEvent(ev, n)
  PROVE  ValidEvent(new, n)
  <1> DEFINE E == {m \in 2..(n - 1) : ev[m].chunk.index = ev[n].chunk.index}
             F == {m \in 2..(n - 1) : new[m].chunk.index = new[n].chunk.index}
             e == CHOOSE m \in E : \A k \in E : k <= m
             f == CHOOSE m \in F : \A k \in F : k <= m
  <1>1. E = F
    OBVIOUS
  <1>2. e = f
    BY <1>1
  <1>3. E # {} => e \in E
    <2> DEFINE pre == SubSeq(ev, 1, n - 1)
               i == ev[n].chunk.index
    <2>1. /\ pre \in Seq(Line) /\ Len(pre) = n - 1 /\ Shape(pre)
          /\ \A k \in 1..(n - 1) : pre[k] = ev[k]
      BY PrefixShape
    <2>2. i \in Nat
      BY LineFacts DEF ChunkRec
    <2> HIDE DEF pre
    <2>3. EventsOf(pre, i) = E
      BY <2>1 DEF EventsOf
    <2>4. E # {} => LastOf(pre, i) \in EventsOf(pre, i)
      BY <2>1, <2>2, <2>3, LastExists
    <2>5. LastOf(pre, i) = e
      BY <2>3 DEF LastOf
    <2>6. QED
      BY <2>3, <2>4, <2>5
  <1>4. new[n] = ev[n] /\ (n # 2 => new[n - 1] = ev[n - 1])
    OBVIOUS
  <1>5. \/ /\ ev[n].state = "prepared"
           /\ E = {}
           /\ IF n = 2 THEN ev[n].chunk.index = 0
                       ELSE /\ ev[n].chunk.index = ev[n - 1].chunk.index + 1
                            /\ ev[n - 1].state = "verified"
        \/ /\ E # {}
           /\ ev[e].chunk = ev[n].chunk
           /\ <<ev[e].state, ev[n].state>> \in Steps
    BY DEF ValidEvent
  <1>6. ValidEvent(new, n) <=>
        \/ /\ new[n].state = "prepared"
           /\ F = {}
           /\ IF n = 2 THEN new[n].chunk.index = 0
                       ELSE /\ new[n].chunk.index = new[n - 1].chunk.index + 1
                            /\ new[n - 1].state = "verified"
        \/ /\ F # {}
           /\ new[f].chunk = new[n].chunk
           /\ <<new[f].state, new[n].state>> \in Steps
    BY DEF ValidEvent
  <1>7. E # {} => new[e] = ev[e]
    BY <1>3, SMTT(30)
  <1> HIDE DEF E, F, e, f
  <1>8. QED
    BY <1>1, <1>2, <1>4, <1>5, <1>6, <1>7

\* A line that starts a new chunk comes right after the "verified" line of the
\* chunk before it.
LEMMA StartsNext ==
  ASSUME NEW ev \in Seq(Line), Shape(ev), ev # <<>>, InOrder(ev),
         NEW i \in Nat, Through(ev, i), EventsOf(ev, i) = {}
  PROVE  /\ Len(ev) >= 1
         /\ Len(ev) = 1 => i = 0
         /\ Len(ev) > 1 => ev[Len(ev)].chunk.index + 1 = i /\ ev[Len(ev)].state = "verified"
  <1>1. Len(ev) \in Nat \ {0}
    OBVIOUS
  <1>2. Len(ev) = 1 => i = 0
    <2> SUFFICES ASSUME Len(ev) = 1, i > 0 PROVE FALSE
      OBVIOUS
    <2>1. 0 \in 0..(i - 1)
      OBVIOUS
    <2>2. QED
      BY <2>1 DEF Through, Verified
  <1>3. ASSUME Len(ev) > 1
        PROVE  ev[Len(ev)].chunk.index + 1 = i /\ ev[Len(ev)].state = "verified"
    <2> DEFINE L == Len(ev)
               j == ev[L].chunk.index
    <2>1. L \in 2..Len(ev) /\ \A n \in 2..L : ev[n].chunk.index \in Nat /\ ev[n].state \in StatesOK
      BY <1>1, <1>3, LineFacts DEF ChunkRec
    <2>2. j \in Nat /\ j # i
      BY <2>1 DEF EventsOf
    <2>3. ~(j > i)
      <3> SUFFICES ASSUME j > i PROVE FALSE
        OBVIOUS
      <3>1. i \in 0..(j - 1)
        BY <2>2
      <3>2. Verified(ev, i, L - 1)
        BY <2>1, <3>1 DEF InOrder
      <3>3. QED
        BY <2>1, <3>2 DEF Verified, EventsOf
    <2>4. i > 0 /\ i - 1 \in 0..(i - 1)
      BY <2>2, <2>3
    <2>5. PICK m \in 2..L : ev[m].chunk.index = i - 1 /\ ev[m].state = "verified"
      BY <2>4 DEF Through, Verified
    <2>6. \A k \in 2..L : k < L /\ ev[k].chunk.index = j => ev[k].state # "verified"
      <3> SUFFICES ASSUME NEW k \in 2..L, k < L, ev[k].chunk.index = j, ev[k].state = "verified"
                   PROVE  FALSE
        OBVIOUS
      <3>1. Rank(ev[k].state) < Rank(ev[L].state)
        BY <2>1 DEF Shape
      <3>2. QED
        BY <3>1, <2>1, RankFacts DEF StatesOK
    <2>7. j = i - 1
      <3> SUFFICES ASSUME j < i - 1 PROVE FALSE
        BY <2>2, <2>3
      <3>1. m < L /\ j \in 0..(ev[m].chunk.index - 1)
        BY <2>1, <2>2, <2>5
      <3>2. Verified(ev, j, m - 1)
        BY <2>5, <3>1 DEF InOrder
      <3>3. PICK k \in 2..(m - 1) : ev[k].chunk.index = j /\ ev[k].state = "verified"
        BY <3>2 DEF Verified
      <3>4. QED
        BY <2>1, <2>6, <3>1, <3>3
    <2>8. QED
      BY <2>1, <2>2, <2>5, <2>6, <2>7
  <1>4. QED
    BY <1>1, <1>2, <1>3

\* A line about the chunk after those that are through, or about that chunk
\* again, leaves a journal that upload() accepts.
LEMMA AppendAccepted ==
  ASSUME NEW ev \in Seq(Line), Shape(ev), ev # <<>>, InOrder(ev), Replayable(ev), Laid(ev),
         NEW st \in StatesOK, NEW ch \in ChunkRec,
         Through(ev, ch.index), ValidChunk(ch, ch.index, ev[1].chunk_size),
         \/ st = "prepared" /\ EventsOf(ev, ch.index) = {}
         \/ /\ EventsOf(ev, ch.index) # {}
            /\ \A n \in EventsOf(ev, ch.index) : ev[n].chunk = ch /\ <<ev[n].state, st>> \in Steps
  PROVE  LET new == Append(ev, Event(st, ch))
         IN InOrder(new) /\ Replayable(new) /\ Laid(new)
  <1> DEFINE e == Event(st, ch)
             new == Append(ev, e)
             L == Len(ev)
  <1>1. e.state = st /\ e.chunk = ch /\ ch.index \in Nat
    BY DEF Event, ChunkRec
  <1> HIDE DEF e
  <1>2. /\ Len(new) = L + 1 /\ L \in Nat /\ L >= 1
        /\ \A n \in 1..L : new[n] = ev[n]
        /\ new[L + 1] = e
    OBVIOUS
  <1> HIDE DEF new
  <1>3. InOrder(new)
    <2> SUFFICES ASSUME NEW n \in 2..(L + 1), NEW i \in 0..(new[n].chunk.index - 1)
                 PROVE  Verified(new, i, n - 1)
      BY <1>2 DEF InOrder
    <2>1. Verified(ev, i, n - 1)
      <3>1. CASE n <= L
        BY <1>2, <3>1 DEF InOrder
      <3>2. CASE n = L + 1
        BY <1>1, <1>2, <3>2 DEF Through
      <3>3. QED
        BY <1>2, <3>1, <3>2
    <2>2. QED
      BY <1>2, <2>1 DEF Verified
  <1>4. Laid(new)
    <2> SUFFICES ASSUME NEW n \in 2..(L + 1)
                 PROVE  ValidChunk(new[n].chunk, new[n].chunk.index, new[1].chunk_size)
      BY <1>2 DEF Laid
    <2>1. CASE n <= L
      BY <1>2, <2>1 DEF Laid
    <2>2. CASE n = L + 1
      BY <1>1, <1>2, <2>2
    <2>3. QED
      BY <1>2, <2>1, <2>2
  <1>5. Replayable(new)
    <2> SUFFICES ASSUME NEW n \in 2..(L + 1) PROVE ValidEvent(new, n)
      BY <1>2 DEF Replayable
    <2>1. CASE n <= L
      <3>1. ValidEvent(ev, n) /\ n \in 2..Len(ev) /\ \A k \in 1..n : new[k] = ev[k]
        BY <1>2, <2>1 DEF Replayable
      <3>2. QED
        BY <3>1, ValidPrefix
    <2>2. CASE n = L + 1
      <3> DEFINE E == {m \in 2..(n - 1) : new[m].chunk.index = new[n].chunk.index}
                 last == CHOOSE m \in E : \A k \in E : k <= m
      <3>1. E = EventsOf(ev, ch.index)
        BY <1>1, <1>2, <2>2 DEF EventsOf
      <3>2. last = LastOf(ev, ch.index)
        BY <3>1 DEF LastOf
      <3>3. E # {} => last \in E
        BY <1>1, <3>1, <3>2, LastExists
      <3>4. ValidEvent(new, n) <=>
              \/ /\ new[n].state = "prepared"
                 /\ E = {}
                 /\ IF n = 2 THEN new[n].chunk.index = 0
                             ELSE /\ new[n].chunk.index = new[n - 1].chunk.index + 1
                                  /\ new[n - 1].state = "verified"
              \/ /\ E # {}
                 /\ new[last].chunk = new[n].chunk
                 /\ <<new[last].state, new[n].state>> \in Steps
        BY DEF ValidEvent
      <3>5. CASE EventsOf(ev, ch.index) = {}
        <4>1. /\ L = 1 => ch.index = 0
              /\ L > 1 => ev[L].chunk.index + 1 = ch.index /\ ev[L].state = "verified"
          BY <1>1, <3>5, StartsNext
        <4>2. st = "prepared" /\ E = {}
          BY <3>1, <3>5
        <4> HIDE DEF E, last
        <4>3. /\ new[n].state = "prepared" /\ new[n].chunk.index = ch.index
              /\ new[n - 1] = ev[L]
              /\ n = 2 => L = 1
              /\ n # 2 => L > 1
          <5>1. n - 1 = L /\ L \in 1..L
            BY <1>2, <2>2
          <5>2. new[n] = e /\ new[n - 1] = ev[L]
            BY <1>2, <2>2, <5>1
          <5>3. new[n].state = "prepared" /\ new[n].chunk.index = ch.index
            BY <1>1, <4>2, <5>2
          <5>4. (n = 2 => L = 1) /\ (n # 2 => L > 1)
            <6>1. L \in Nat \ {0} /\ n = L + 1
              BY <1>2, <2>2
            <6> HIDE DEF L
            <6>2. QED
              BY <6>1
          <5>5. QED
            BY <5>2, <5>3, <5>4
        <4>4. IF n = 2 THEN new[n].chunk.index = 0
                       ELSE /\ new[n].chunk.index = new[n - 1].chunk.index + 1
                            /\ new[n - 1].state = "verified"
          BY <4>1, <4>3
        <4>5. QED
          BY <3>4, <4>2, <4>3, <4>4
      <3>6. CASE EventsOf(ev, ch.index) # {}
        <4>1. last \in EventsOf(ev, ch.index) /\ last \in 2..L
          BY <3>1, <3>3, <3>6 DEF EventsOf
        <4>3. E # {}
          BY <3>1, <3>6
        <4> HIDE DEF E, last
        <4>2. ev[last].chunk = ch /\ <<ev[last].state, st>> \in Steps /\ new[last] = ev[last]
          <5>1. \A m \in EventsOf(ev, ch.index) : ev[m].chunk = ch /\ <<ev[m].state, st>> \in Steps
            BY <3>6
          <5>2. QED
            BY <1>2, <4>1, <5>1
        <4>4. QED
          BY <1>1, <1>2, <2>2, <3>4, <4>2, <4>3
      <3>7. QED
        BY <3>5, <3>6
    <2>3. QED
      BY <1>2, <2>1, <2>2
  <1>6. QED
    BY <1>3, <1>4, <1>5 DEF new, e

\* What a power loss leaves is accepted, too.
LEMMA PrefixAccepted ==
  ASSUME NEW ev \in Seq(Line), Shape(ev), InOrder(ev), Replayable(ev), Laid(ev),
         NEW n \in 0..Len(ev)
  PROVE  LET new == SubSeq(ev, 1, n)
         IN InOrder(new) /\ Replayable(new) /\ Laid(new)
  <1> DEFINE new == SubSeq(ev, 1, n)
  <1>1. Len(new) = n /\ \A k \in 1..n : new[k] = ev[k]
    BY PrefixShape
  <1> HIDE DEF new
  <1>2. InOrder(new)
    <2> SUFFICES ASSUME NEW k \in 2..n, NEW i \in 0..(new[k].chunk.index - 1)
                 PROVE  Verified(new, i, k - 1)
      BY <1>1 DEF InOrder
    <2>1. Verified(ev, i, k - 1)
      BY <1>1 DEF InOrder
    <2>2. QED
      BY <1>1, <2>1 DEF Verified
  <1>3. Laid(new)
    BY <1>1 DEF Laid
  <1>4. Replayable(new)
    <2> SUFFICES ASSUME NEW k \in 2..n PROVE ValidEvent(new, k)
      BY <1>1 DEF Replayable
    <2>1. ValidEvent(ev, k) /\ k \in 2..Len(ev) /\ \A m \in 1..k : new[m] = ev[m]
      BY <1>1 DEF Replayable
    <2>2. QED
      BY <2>1, ValidPrefix
  <1>5. QED
    BY <1>2, <1>3, <1>4 DEF new

-----------------------------------------------------------------------------
(* JInv: steps that leave the journal alone *)

\* What is known of a process that is in the command.
LEMMA JRunning ==
  ASSUME CInv, JInv, NEW p \in Proc, ~At(p, "idle")
  PROVE  /\ run[p] \in Locals /\ run[p].events = journal /\ journal \in Seq(Line) /\ Shape(journal)
         /\ run[p].idx \in Nat /\ run[p].csize \in ChunkSizes /\ run[p].buf \in Seq(Byte)
         /\ Knows(run[p].pc, run[p]) /\ Placed(run[p].pc, run[p]) /\ Buffered(run[p].pc, run[p])
  <1>1. /\ run[p] \in Locals /\ run[p].events = journal /\ journal \in Seq(Line) /\ Shape(journal)
        /\ run[p].idx \in Nat /\ Knows(run[p].pc, run[p])
    BY Running
  <1>2. Placed(run[p].pc, run[p]) /\ Buffered(run[p].pc, run[p])
    BY DEF JInv
  <1>3. QED
    BY <1>1, <1>2 DEF Placed, Locals

\* Only the place itself differs.
LEMMA SamePlaced ==
  ASSUME NEW l, NEW r, NEW x,
         x.csize = r.csize, x.ident = r.ident, x.events = r.events, x.idx = r.idx, x.buf = r.buf,
         Placed(l, r), Buffered(l, r)
  PROVE  Placed(l, x) /\ Buffered(l, x)
  BY DEF Placed, Buffered, AtChunk, ReadFrom

\* A step of the only process in the command.
LEMMA JCombine ==
  ASSUME CInv, NEW p \in Proc, ~At(p, "idle") \/ lock = NoProc,
         Headed(journal)', InOrder(journal)', Replayable(journal)', Laid(journal)',
         JournalIsSnapshot',
         \A q \in Proc \ {p} : run'[q] = run[q],
         run'[p].pc # "idle" => Placed(run[p].pc, run[p])' /\ Buffered(run[p].pc, run[p])'
  PROVE  JInv'
  <1>1. \A q \in Proc \ {p} : run'[q].pc = "idle"
    BY RecoverAssumption DEF CInv, SingleWriter, At
  <1>2. QED
    BY <1>1 DEF JInv, At

\* The same for a step that leaves the journal and the image alone.
LEMMA JQuiet ==
  ASSUME CInv, JInv, NEW p \in Proc, ~At(p, "idle") \/ lock = NoProc,
         UNCHANGED <<journal, versions, sessions>>,
         \A q \in Proc \ {p} : run'[q] = run[q],
         run'[p].pc # "idle" => Placed(run'[p].pc, run'[p]) /\ Buffered(run'[p].pc, run'[p])
  PROVE  JInv'
  <1>1. Headed(journal)' /\ Laid(journal)' /\ JournalIsSnapshot'
    BY DEF JInv, Headed, Laid, JournalIsSnapshot
  <1>2. InOrder(journal)'
    BY DEF JInv, InOrder, Verified
  <1>3. Replayable(journal)'
    BY DEF JInv
  <1>4. run'[p].pc # "idle" => Placed(run[p].pc, run[p])' /\ Buffered(run[p].pc, run[p])'
    BY DEF Placed, Buffered, ReadFrom
  <1>5. QED
    BY <1>1, <1>2, <1>3, <1>4, JCombine

\* A step that moves on to l or ends the process.
LEMMA JGoto ==
  ASSUME CInv, JInv, NEW p \in Proc, ~At(p, "idle"), NEW l \in Phase, NEW ok, GotoOrExit(p, ok, l),
         UNCHANGED <<journal, versions, sessions>>,
         ok => Placed(l, run[p]) /\ Buffered(l, run[p])
  PROVE  JInv'
  <1>1. /\ \A q \in Proc \ {p} : run'[q] = run[q]
        /\ \/ ok /\ run'[p] = [run[p] EXCEPT !.pc = l]
           \/ ~ok /\ run'[p].pc = "idle"
    BY GotoType DEF CInv
  <1>2. CASE ok /\ run'[p] = [run[p] EXCEPT !.pc = l]
    <2>1. run[p] \in Locals
      BY Running
    <2>2. /\ run'[p].pc = l /\ run'[p].csize = run[p].csize /\ run'[p].ident = run[p].ident
          /\ run'[p].events = run[p].events /\ run'[p].idx = run[p].idx /\ run'[p].buf = run[p].buf
      BY <1>2, <2>1 DEF Locals
    <2>3. Placed(l, run'[p]) /\ Buffered(l, run'[p])
      BY <1>2, <2>2, SamePlaced
    <2>4. QED
      BY <1>1, <2>2, <2>3, JQuiet
  <1>3. CASE ~ok /\ run'[p].pc = "idle"
    BY <1>1, <1>3, JQuiet
  <1>4. QED
    BY <1>1, <1>2, <1>3

\* Opening the journal: the loop has not begun.
LEMMA JOpen ==
  ASSUME CInv, JInv, NEW p \in Proc, Open(p)
  PROVE  JInv'
  <1>1. PICK c \in ChunkSizes :
          run' = [run EXCEPT ![p] = [Idle EXCEPT !.pc = "identity", !.csize = c, !.events = journal]]
    BY DEF Open
  <1> DEFINE x == [Idle EXCEPT !.pc = "identity", !.csize = c, !.events = journal]
  <1>2. x.pc = "identity" /\ x.csize = c /\ x.events = journal /\ x.idx = 0 /\ x.buf = <<>>
    BY DEF Idle
  <1> HIDE DEF x
  <1>3. run'[p] = x /\ \A q \in Proc \ {p} : run'[q] = run[q]
    BY <1>1 DEF CInv, TypeOK, x
  <1>4. Placed("identity", x)
    BY <1>2 DEF Placed, Through, InSession, After, AtChunk
  <1>5. Buffered("identity", x)
    BY <1>2 DEF Buffered
  <1>6. QED
    BY <1>2, <1>3, <1>4, <1>5, JQuiet DEF Open, LockFree

\* The identity of the source is that of a version it has had.
LEMMA JGetIdentity ==
  ASSUME CInv, JInv, NEW p \in Proc, GetIdentity(p)
  PROVE  JInv'
  <1> DEFINE l == IF run[p].events = <<>> THEN "header" ELSE "replay"
             x == [run[p] EXCEPT !.ident = Identity, !.pc = l]
  <1>1. ~At(p, "idle") /\ run[p].pc = "identity" /\ run' = [run EXCEPT ![p] = x]
    BY DEF GetIdentity, At
  <1>2. /\ run[p] \in Locals /\ run[p].csize \in ChunkSizes /\ run[p].idx = 0 /\ run[p].buf = <<>>
    BY <1>1, JRunning DEF Placed, Buffered, InSession
  <1>3. /\ x.pc = l /\ x.csize = run[p].csize /\ x.ident = Identity /\ x.events = run[p].events
        /\ x.idx = 0 /\ x.buf = <<>>
    BY <1>2 DEF Locals
  <1>4. Detectable => Identity \in 1..Len(versions)
    BY DEF Identity, CInv, TypeOK
  <1>5. l \in {"header", "replay"}
    OBVIOUS
  <1> HIDE DEF x, l
  <1>6. run'[p] = x /\ \A q \in Proc \ {p} : run'[q] = run[q]
    BY <1>1 DEF CInv, TypeOK
  <1>7. Placed(l, x)
    BY <1>2, <1>3, <1>4, <1>5 DEF Placed, Through, InSession, After, AtChunk
  <1>8. Buffered(l, x)
    BY <1>3, <1>5 DEF Buffered
  <1>9. QED
    BY <1>1, <1>3, <1>6, <1>7, <1>8, JQuiet DEF GetIdentity, file

\* A resumed session has the settings of the header.
LEMMA JReplay ==
  ASSUME CInv, JInv, NEW p \in Proc, Replay(p)
  PROVE  JInv'
  <1>1. ~At(p, "idle") /\ run[p].pc = "replay"
    BY DEF Replay, At
  <1>2. PICK ok : /\ GotoOrExit(p, ok, "chunk")
                  /\ ok => /\ run[p].events[1].source = run[p].ident
                           /\ run[p].events[1].chunk_size = run[p].csize
    BY DEF Replay
  <1>3. Placed("replay", run[p]) /\ Buffered("replay", run[p])
    BY <1>1, JRunning
  <1>4. ok => Placed("chunk", run[p])
    BY <1>2, <1>3 DEF Placed, InSession, After, AtChunk
  <1>5. Buffered("chunk", run[p])
    BY <1>3 DEF Buffered
  <1>6. QED
    BY <1>1, <1>2, <1>4, <1>5, JGoto DEF Replay, file, Phase

\* Moving on within the work on a chunk, or to the head of the loop.
LEMMA PlacedOn ==
  ASSUME NEW r, NEW k \in InSession, NEW l \in InSession \ After, Placed(k, r),
         AtChunk(k, r) \/ ~AtChunk(l, r),
         l = "clean" => Verified(r.events, r.idx, Len(r.events))
  PROVE  Placed(l, r)
  <1>1. k # "identity" /\ l # "identity"
    BY DEF InSession
  <1>2. QED
    BY <1>1 DEF Placed

\* After a line is safe the chunk it is about is still at hand.
LEMMA JFsync ==
  ASSUME CInv, JInv, NEW p \in Proc, Fsync(p)
  PROVE  JInv'
  <1> DEFINE ev == run[p].events
             last == ev[Len(ev)]
             l == AfterFsync(last.state)
  <1>1. ~At(p, "idle") /\ run[p].pc = "fsync"
    BY DEF Fsync, At
  <1>2. /\ ev = journal /\ ev \in Seq(Line) /\ Shape(ev) /\ run[p].idx \in Nat /\ ev # <<>>
        /\ Len(ev) > 1 => last.chunk.index = run[p].idx
        /\ Placed("fsync", run[p]) /\ Buffered("fsync", run[p])
    BY <1>1, JRunning DEF Knows
  <1>3. GotoOrExit(p, TRUE, l)
    BY DEF Fsync, GotoOrExit
  <1>4. /\ Len(ev) \in Nat /\ Len(ev) >= 1
        /\ Len(ev) = 1 => last.state = "header"
        /\ Len(ev) > 1 => last.state \in StatesOK /\ Len(ev) \in 2..Len(ev)
    <2> HIDE DEF ev
    <2>1. Len(ev) \in Nat /\ Len(ev) >= 1
      BY <1>2
    <2>2. ev[1].state = "header"
      BY <1>2 DEF Shape
    <2>3. \A n \in 2..Len(ev) : ev[n].state \in StatesOK
      BY <1>2, LineFacts
    <2>4. QED
      BY <2>1, <2>2, <2>3
  <1>4a. Len(ev) = 1 \/ Len(ev) > 1
    <2> DEFINE L == Len(ev)
    <2>1. L \in Nat /\ L >= 1
      BY <1>4
    <2> HIDE DEF L
    <2>2. L = 1 \/ L > 1
      BY <2>1
    <2>3. QED
      BY <2>2 DEF L
  <1>5. run[p].buf = <<>>
    BY <1>2 DEF Buffered
  <1>6. /\ l \in {"chunk", "staged", "verify", "clean"}
        /\ Len(ev) = 1 => l = "chunk"
        /\ l = "clean" => Len(ev) > 1 /\ last.state = "verified"
    <2> HIDE DEF ev, last
    <2>1. CASE Len(ev) = 1
      BY <1>4, <2>1 DEF AfterFsync
    <2>2. CASE Len(ev) > 1
      BY <1>4, <2>2 DEF AfterFsync, StatesOK
    <2>3. Len(ev) = 1 \/ Len(ev) > 1
      BY <1>4a
    <2>4. QED
      BY <2>1, <2>2, <2>3
  <1>7. l = "clean" => Verified(ev, run[p].idx, Len(ev))
    BY <1>2, <1>4, <1>6 DEF Verified
  <1> HIDE DEF l, last
  <1>8. AtChunk("fsync", run[p]) \/ ~AtChunk(l, run[p])
    <2>1. Len(ev) > 1 \/ l = "chunk"
      BY <1>4a, <1>6
    <2>2. QED
      BY <2>1 DEF AtChunk
  <1>9. Placed(l, run[p])
    BY <1>2, <1>6, <1>7, <1>8, PlacedOn DEF InSession, After, Phase
  <1>10. Buffered(l, run[p])
    BY <1>5, <1>6 DEF Buffered
  <1>11. QED
    BY <1>1, <1>3, <1>6, <1>9, <1>10, JGoto DEF Fsync, Phase

\* The head of the loop turns to a chunk of the image, or leaves the loop.
LEMMA JNextChunk ==
  ASSUME CInv, JInv, NEW p \in Proc, NextChunk(p)
  PROVE  JInv'
  <1> DEFINE r == run[p]
             st == StateOf(r.events, r.idx)
             l == IF Beyond(r.idx, r.csize) THEN "final"
                  ELSE CASE st = "none" -> "read"
                         [] st = "verified" -> "clean"
                         [] OTHER -> "reconcile"
  <1>1. ~At(p, "idle") /\ r.pc = "chunk"
    BY DEF NextChunk, At
  <1>2. PICK ok : GotoOrExit(p, ok, l)
    BY DEF NextChunk
  <1>3. /\ r.events \in Seq(Line) /\ Shape(r.events) /\ r.idx \in Nat /\ r.csize \in ChunkSizes
        /\ Placed("chunk", r) /\ Buffered("chunk", r)
    BY <1>1, JRunning
  <1>4. /\ l \in {"final", "read", "clean", "reconcile"}
        /\ l = "final" => Beyond(r.idx, r.csize)
        /\ l # "final" => ~Beyond(r.idx, r.csize)
        /\ l = "clean" => st = "verified"
    OBVIOUS
  <1>5. st = "verified" => Verified(r.events, r.idx, Len(r.events))
    <2> SUFFICES ASSUME st = "verified" PROVE Verified(r.events, r.idx, Len(r.events))
      OBVIOUS
    <2>1. EventsOf(r.events, r.idx) # {} /\ r.events[LastOf(r.events, r.idx)].state = "verified"
      BY DEF StateOf
    <2>2. LastOf(r.events, r.idx) \in EventsOf(r.events, r.idx)
      BY <1>3, <2>1, LastExists
    <2>3. QED
      BY <2>1, <2>2 DEF EventsOf, Verified
  <1> HIDE DEF l, st, r
  <1>6. Placed(l, r)
    BY <1>3, <1>4, <1>5 DEF Placed, InSession, After, AtChunk, Phase
  <1>7. r.buf = <<>> /\ Len(r.buf) = 0
    BY <1>3 DEF Buffered
  <1>8. l = "read" => Len(r.buf) <= Length(r.idx, r.csize)
    <2> HIDE DEF r, l
    <2>1. l = "read" => Length(r.idx, r.csize) \in Nat \ {0}
      BY <1>3, <1>4, LayoutFacts
    <2>2. QED
      BY <1>7, <2>1
  <1>9. Buffered(l, r)
    BY <1>4, <1>7, <1>8 DEF Buffered, ReadFrom
  <1>10. QED
    BY <1>1, <1>2, <1>4, <1>6, <1>9, JGoto DEF NextChunk, file, Phase, r

\* A step that changes other locals than the place.
LEMMA JLocals ==
  ASSUME CInv, JInv, NEW p \in Proc, ~At(p, "idle"), NEW x, run' = [run EXCEPT ![p] = x],
         UNCHANGED <<journal, versions, sessions>>,
         Placed(x.pc, x), Buffered(x.pc, x)
  PROVE  JInv'
  <1>1. run'[p] = x /\ \A q \in Proc \ {p} : run'[q] = run[q]
    BY DEF CInv, TypeOK
  <1>2. QED
    BY <1>1, JQuiet

\* The elements of a concatenation.
LEMMA ConcatFacts ==
  ASSUME NEW S, NEW s \in Seq(S), NEW t \in Seq(S)
  PROVE  /\ s \o t \in Seq(S) /\ Len(s \o t) = Len(s) + Len(t)
         /\ \A k \in 1..(Len(s) + Len(t)) : (s \o t)[k] = IF k <= Len(s) THEN s[k] ELSE t[k - Len(s)]
  OBVIOUS

\* One pread() reads the current version of the image.
LEMMA JRead ==
  ASSUME CInv, JInv, NEW p \in Proc, Read(p)
  PROVE  JInv'
  <1> DEFINE r == run[p]
             b == r.buf
             off == Offset(r.idx, r.csize)
             len == Length(r.idx, r.csize)
             left == len - Len(b)
             n == IF Block < left THEN Block ELSE left
             more == SubSeq(Source, off + Len(b) + 1, off + Len(b) + n)
             x == [r EXCEPT !.buf = b \o more]
  <1>1. ~At(p, "idle") /\ r.pc = "read" /\ left > 0
    BY DEF Read, At
  <1>2. /\ r \in Locals /\ r.idx \in Nat /\ r.csize \in ChunkSizes /\ b \in Seq(Byte)
        /\ Placed("read", r) /\ Buffered("read", r)
    BY <1>1, JRunning
  <1>3. run' = [run EXCEPT ![p] = x]
    BY DEF Read, CInv, TypeOK
  <1>4. off \in Nat /\ len \in Int /\ off + len <= Size
    BY <1>2, LayoutFacts
  <1>5. Source \in Seq(Byte) /\ Len(Source) = Size /\ Size \in Nat /\ Block \in Nat \ {0}
    <2>1. Source \in [1..Size -> Byte] /\ Size \in Nat /\ Block \in Nat \ {0}
      BY RecoverAssumption DEF Source, CInv, TypeOK
    <2>2. QED
      BY <2>1
  <1> DEFINE lb == Len(b)
  <1>6. lb \in Nat
    BY <1>2
  <1> HIDE DEF off, len, lb
  <1>7. left \in Int /\ left > 0 /\ lb + left = len
    BY <1>1, <1>4, <1>6 DEF lb
  <1> HIDE DEF left
  <1>8. n \in 1..left
    BY <1>5, <1>7
  <1> HIDE DEF n
  <1>9. /\ off + lb + 1 \in 1..Size /\ off + lb + n \in 1..Size
        /\ (off + lb + n) - (off + lb + 1) + 1 = n
    BY <1>4, <1>5, <1>6, <1>7, <1>8
  <1>10. /\ more \in Seq(Byte) /\ Len(more) = n
         /\ \A k \in 1..n : more[k] = Source[off + lb + k]
    <2> DEFINE u == off + lb + 1
               v == off + lb + n
    <2>1. u \in 1..Size /\ v \in 1..Size /\ v - u + 1 = n /\ u <= v
      BY <1>8, <1>9
    <2>2. more = SubSeq(Source, u, v)
      BY DEF lb
    <2>3. \A k \in 1..n : u + k - 1 = off + lb + k
      BY <1>4, <1>6, <1>8
    <2> HIDE DEF u, v, more
    <2>4. /\ SubSeq(Source, u, v) \in Seq(Byte) /\ Len(SubSeq(Source, u, v)) = v - u + 1
          /\ \A k \in 1..(v - u + 1) : SubSeq(Source, u, v)[k] = Source[u + k - 1]
      BY <1>5, <2>1
    <2>5. QED
      BY <2>1, <2>2, <2>3, <2>4
  <1> HIDE DEF more
  <1>11. /\ Len(b \o more) = lb + n
         /\ \A k \in 1..(lb + n) : (b \o more)[k] = IF k <= lb THEN b[k] ELSE more[k - lb]
    BY <1>2, <1>10, ConcatFacts DEF lb
  <1>12. /\ x.pc = "read" /\ x.csize = r.csize /\ x.ident = r.ident /\ x.events = r.events
         /\ x.idx = r.idx /\ x.buf = b \o more
    BY <1>1, <1>2 DEF Locals
  <1> HIDE DEF x, r
  <1>13. Placed("read", x)
    BY <1>2, <1>12 DEF Placed, AtChunk
  <1>14. Detectable /\ Len(versions) = r.ident => ReadFrom(x, r.ident)
    <2> SUFFICES ASSUME Detectable, Len(versions) = r.ident, NEW k \in 1..(lb + n)
                 PROVE  (b \o more)[k] = versions[r.ident][off + k]
      BY <1>11, <1>12 DEF ReadFrom, off
    <2>1. Source = versions[r.ident]
      BY DEF Source
    <2>2. CASE k <= lb
      <3>1. k \in 1..Len(r.buf) /\ ReadFrom(r, r.ident)
        BY <1>2, <2>2, <1>6 DEF Buffered, b, lb
      <3>2. QED
        BY <1>11, <2>2, <3>1 DEF ReadFrom, off, b
    <2>3. CASE k > lb
      <3>1. k - lb \in 1..n /\ off + lb + (k - lb) = off + k
        BY <1>4, <1>6, <1>8, <2>3
      <3>2. (b \o more)[k] = more[k - lb]
        BY <1>11, <1>6, <1>8, <2>3
      <3>3. QED
        BY <1>10, <2>1, <3>1, <3>2
    <2>4. k <= lb \/ k > lb
      BY <1>6, <1>8
    <2>5. QED
      BY <2>2, <2>3, <2>4
  <1>15. Buffered("read", x)
    <2>1. lb + n <= len
      BY <1>4, <1>6, <1>7, <1>8
    <2>2. QED
      BY <1>11, <1>12, <1>14, <2>1 DEF Buffered, len
  <1>16. ~At(p, "idle") /\ UNCHANGED <<journal, versions, sessions>>
    BY DEF Read, file, At
  <1>17. QED
    BY <1>3, <1>12, <1>13, <1>15, <1>16, JLocals

\* A file is published when the chunk has been read as a whole.
LEMMA JPublish ==
  ASSUME CInv, JInv, NEW p \in Proc, Publish(p)
  PROVE  JInv'
  <1>1. ~At(p, "idle") /\ run[p].pc = "read" /\ Len(run[p].buf) = Length(run[p].idx, run[p].csize)
    BY DEF Publish, At
  <1>2. Placed("read", run[p]) /\ Buffered("read", run[p])
    BY <1>1, JRunning
  <1>3. AtChunk("read", run[p])
    BY DEF AtChunk, InSession, After, Phase
  <1>4. Placed("recheck", run[p])
    BY <1>2, <1>3, PlacedOn DEF InSession, After, Phase
  <1>5. Buffered("recheck", run[p])
    BY <1>1, <1>2 DEF Buffered
  <1>6. GotoOrExit(p, TRUE, "recheck")
    BY DEF Publish, GotoOrExit
  <1>7. QED
    BY <1>1, <1>4, <1>5, <1>6, JGoto DEF Publish, file, Phase

\* A chunk is accepted when the image is still the version of the session, and
\* then all its bytes are of that version.
LEMMA JRecheck ==
  ASSUME CInv, JInv, NEW p \in Proc, Recheck(p)
  PROVE  JInv'
  <1> DEFINE r == run[p]
             l == IF StateOf(r.events, r.idx) # "none" THEN "upload" ELSE "prepared"
  <1>1. ~At(p, "idle") /\ r.pc = "recheck"
    BY DEF Recheck, At
  <1>2. PICK ok : GotoOrExit(p, ok, l) /\ (ok => Identity = r.ident)
    BY DEF Recheck
  <1>3. Placed("recheck", r) /\ Buffered("recheck", r)
    BY <1>1, JRunning
  <1>4. l \in {"upload", "prepared"}
    OBVIOUS
  <1> HIDE DEF l
  <1>5. AtChunk("recheck", r)
    BY DEF AtChunk, InSession, After, Phase
  <1>6. Placed(l, r)
    BY <1>3, <1>4, <1>5, PlacedOn DEF InSession, After, Phase
  <1>7. ok => Buffered(l, r)
    BY <1>2, <1>3, <1>4 DEF Buffered, Identity
  <1>8. QED
    BY <1>1, <1>2, <1>4, <1>6, <1>7, JGoto DEF Recheck, file, Phase

\* Steps on a chunk that is in the journal, which move on or give up.
LEMMA JOnward ==
  ASSUME CInv, JInv, NEW p \in Proc, run[p].pc \in Pending, NEW ok,
         NEW l \in Pending, GotoOrExit(p, ok, l), UNCHANGED <<journal, versions, sessions>>
  PROVE  JInv'
  <1>1. ~At(p, "idle") /\ l \in Phase /\ l # "clean"
    BY DEF At, Pending, Phase
  <1>2. AtChunk(run[p].pc, run[p]) /\ run[p].pc \in InSession /\ l \in InSession \ After
    BY DEF AtChunk, InSession, After, Phase, Pending
  <1>3. Placed(l, run[p])
    BY <1>1, <1>2, PlacedOn, JRunning
  <1>4. Buffered(l, run[p])
    BY DEF Buffered, Pending
  <1>5. QED
    BY <1>1, <1>3, <1>4, JGoto

\* Reconciling, uploading and reading back concern the chunk at hand.
LEMMA JOnwardSteps ==
  ASSUME CInv, JInv, NEW p \in Proc, Reconcile(p) \/ Upload(p) \/ Verify(p)
  PROVE  JInv'
  <1>1. run[p].pc \in Pending
    BY DEF Reconcile, Upload, Verify, At, Pending
  <1>2. UNCHANGED <<journal, versions, sessions>>
    BY DEF Reconcile, Upload, Verify, file
  <1>3. PICK l \in Pending, ok \in {TRUE, FALSE} : GotoOrExit(p, ok, l)
    <2>1. CASE Reconcile(p)
      BY <2>1 DEF Reconcile, GotoOrExit, Pending
    <2>2. CASE Upload(p)
      BY <2>2 DEF Upload, AfterUpload, GotoOrExit, Pending
    <2>3. CASE Verify(p)
      <3>1. GotoOrExit(p, TRUE, "verified") \/ GotoOrExit(p, FALSE, "verified")
        BY <2>3 DEF Verify, GotoOrExit
      <3>2. QED
        BY <3>1 DEF Pending
    <2>4. QED
      BY <2>1, <2>2, <2>3
  <1>4. QED
    BY <1>1, <1>2, <1>3, JOnward

\* A chunk whose staged file is gone is read again from its start.
LEMMA JCheckStaged ==
  ASSUME CInv, JInv, NEW p \in Proc, CheckStaged(p)
  PROVE  JInv'
  <1>1. ~At(p, "idle") /\ run[p].pc = "staged"
    BY DEF CheckStaged, At
  <1>2. /\ run[p] \in Locals /\ run[p].idx \in Nat /\ run[p].csize \in ChunkSizes
        /\ Placed("staged", run[p])
    BY <1>1, JRunning
  <1>3. PICK l \in {"upload", "read"} :
          run' = [run EXCEPT ![p] = [run[p] EXCEPT !.buf = <<>>, !.pc = l]]
    BY DEF CheckStaged
  <1> DEFINE x == [run[p] EXCEPT !.buf = <<>>, !.pc = l]
  <1>4. /\ x.pc = l /\ x.csize = run[p].csize /\ x.ident = run[p].ident
        /\ x.events = run[p].events /\ x.idx = run[p].idx /\ x.buf = <<>>
    BY <1>2 DEF Locals
  <1>5. run' = [run EXCEPT ![p] = x]
    BY <1>3
  <1> HIDE DEF x
  <1>6. AtChunk("staged", run[p])
    BY DEF AtChunk, InSession, After, Phase
  <1>7. Placed(l, run[p])
    BY <1>2, <1>3, <1>6, PlacedOn DEF InSession, After, Phase
  <1>8. Placed(l, x)
    BY <1>4, <1>7 DEF Placed, AtChunk
  <1>9. Buffered(l, x)
    <2>1. ~Beyond(run[p].idx, run[p].csize)
      BY <1>2, <1>6 DEF Placed
    <2>2. Length(run[p].idx, run[p].csize) \in Nat /\ Len(x.buf) = 0
      BY <1>2, <1>4, <2>1, LayoutFacts
    <2>3. QED
      BY <1>3, <1>4, <2>2 DEF Buffered, ReadFrom
  <1>10. QED
    BY <1>1, <1>4, <1>5, <1>8, <1>9, JLocals DEF CheckStaged, file

\* The loop goes on to the next chunk when this one is verified.
LEMMA JClean ==
  ASSUME CInv, JInv, NEW p \in Proc, Clean(p)
  PROVE  JInv'
  <1> DEFINE r == run[p]
             x == [r EXCEPT !.pc = "chunk", !.idx = r.idx + 1]
  <1>1. ~At(p, "idle") /\ r.pc = "clean"
    BY DEF Clean, At
  <1>2. r \in Locals /\ r.idx \in Nat /\ Placed("clean", r) /\ Buffered("clean", r)
    BY <1>1, JRunning
  <1>3. run' = [run EXCEPT ![p] = x]
    BY Zenon DEF Clean
  <1>4. /\ x.pc = "chunk" /\ x.csize = r.csize /\ x.ident = r.ident
        /\ x.events = r.events /\ x.idx = r.idx + 1 /\ x.buf = r.buf
    BY <1>2 DEF Locals
  <1> HIDE DEF x, r
  <1>5. Through(r.events, r.idx + 1)
    <2> SUFFICES ASSUME NEW i \in 0..r.idx PROVE Verified(r.events, i, Len(r.events))
      BY <1>2 DEF Through
    <2>1. CASE i = r.idx
      BY <1>2, <2>1 DEF Placed
    <2>2. CASE i \in 0..(r.idx - 1)
      BY <1>2, <2>2 DEF Placed, Through
    <2>3. QED
      BY <1>2, <2>1, <2>2
  <1>6. ~Beyond(r.idx, r.csize) /\ (r.idx + 1) - 1 = r.idx
    BY <1>2 DEF Placed, AtChunk, InSession, After, Phase
  <1>7. Placed("chunk", x)
    BY <1>2, <1>4, <1>5, <1>6 DEF Placed, AtChunk, InSession, After, Phase
  <1>8. Buffered("chunk", x)
    BY <1>2, <1>4 DEF Buffered
  <1>9. ~At(p, "idle") /\ UNCHANGED <<journal, versions, sessions>>
    BY DEF Clean, file, At
  <1>10. QED
    BY <1>3, <1>4, <1>7, <1>8, <1>9, JLocals

\* The end of the command, and what ends it early.
LEMMA JLast ==
  ASSUME CInv, JInv, NEW p \in Proc,
         Final(p) \/ UploadManifest(p) \/ Report(p) \/ Error(p) \/ Kill(p)
  PROVE  JInv'
  <1>1. ~At(p, "idle")
    BY DEF Final, UploadManifest, Report, Error, Kill, At
  <1>2. UNCHANGED <<journal, versions, sessions>>
    BY DEF Final, UploadManifest, Report, Error, Kill, file
  <1>3. CASE Final(p)
    <2>1. PICK ok : GotoOrExit(p, ok, "manifest")
      BY <1>3 DEF Final
    <2>2. run[p].pc = "final" /\ Placed("final", run[p])
      BY <1>1, <1>3, JRunning DEF Final, At
    <2>3. Placed("manifest", run[p]) /\ Buffered("manifest", run[p])
      BY <2>2 DEF Placed, Buffered, AtChunk, InSession, After, Phase
    <2>4. QED
      BY <1>1, <1>2, <2>1, <2>3, JGoto DEF Phase
  <1>4. CASE UploadManifest(p)
    <2>1. GotoOrExit(p, TRUE, "report")
      BY <1>4 DEF UploadManifest, GotoOrExit
    <2>2. run[p].pc = "manifest" /\ Placed("manifest", run[p])
      BY <1>1, <1>4, JRunning DEF UploadManifest, At
    <2>3. Placed("report", run[p]) /\ Buffered("report", run[p])
      BY <2>2 DEF Placed, Buffered, AtChunk, InSession, After, Phase
    <2>4. QED
      BY <1>1, <1>2, <2>1, <2>3, JGoto DEF Phase
  <1>5. CASE Report(p) \/ Error(p) \/ Kill(p)
    <2>1. GotoOrExit(p, FALSE, "idle")
      BY <1>5 DEF Report, Error, Kill, GotoOrExit
    <2>2. QED
      BY <1>1, <1>2, <2>1, JGoto DEF Phase
  <1>6. QED
    BY <1>3, <1>4, <1>5

-----------------------------------------------------------------------------
(* JInv: steps that write a line, and the world *)

\* A line written by the process at hand.
LEMMA JWrite ==
  ASSUME CInv, JInv, NEW p \in Proc, ~At(p, "idle"), NEW e, Write(p, e),
         Headed(journal)', InOrder(journal'), Replayable(journal'), Laid(journal'),
         JournalIsSnapshot', UNCHANGED versions,
         run[p].pc # "identity",
         Through(journal', run[p].idx),
         journal'[1].chunk_size = run[p].csize /\ journal'[1].source = run[p].ident,
         Len(journal') > 1 => ~Beyond(run[p].idx, run[p].csize)
  PROVE  JInv'
  <1> DEFINE x == [run[p] EXCEPT !.pc = "fsync", !.buf = <<>>, !.events = journal']
  <1>1. /\ run[p] \in Locals /\ run[p].events = journal /\ Placed(run[p].pc, run[p])
    BY JRunning
  <1>2. run' = [run EXCEPT ![p] = x]
    BY <1>1, WriteIs
  <1>3. /\ x.pc = "fsync" /\ x.csize = run[p].csize /\ x.ident = run[p].ident
        /\ x.events = journal' /\ x.idx = run[p].idx /\ x.buf = <<>>
    BY <1>1 DEF Locals
  <1> HIDE DEF x
  <1>4. run'[p] = x /\ \A q \in Proc \ {p} : run'[q] = run[q]
    BY <1>2 DEF CInv, TypeOK
  <1>5. Placed("fsync", x)
    BY <1>1, <1>3 DEF Placed, AtChunk, InSession, After, Phase
  <1>6. Buffered("fsync", x)
    BY <1>3 DEF Buffered
  <1>7. Placed(run[p].pc, run[p])' /\ Buffered(run[p].pc, run[p])'
    BY <1>3, <1>4, <1>5, <1>6 DEF Placed, Buffered, ReadFrom
  <1>8. InOrder(journal)' /\ Replayable(journal)' /\ Laid(journal)'
    BY DEF InOrder, Verified, Laid
  <1>9. QED
    BY <1>4, <1>7, <1>8, JCombine

\* A journal with a header only says nothing of chunks.
LEMMA HeaderOnly ==
  ASSUME NEW ev, Len(ev) = 1
  PROVE  InOrder(ev) /\ Replayable(ev) /\ Laid(ev)
  BY DEF InOrder, Replayable, Laid

\* The header has the settings of the run and a new session.
LEMMA JNewHeader ==
  ASSUME CInv, JInv, NEW p \in Proc, NewHeader(p)
  PROVE  JInv'
  <1> DEFINE e == Header(sessions + 1, run[p].ident, run[p].csize)
  <1>1. ~At(p, "idle") /\ run[p].pc = "header"
    BY DEF NewHeader, At
  <1>2. /\ run[p].csize \in ChunkSizes /\ run[p].idx = 0 /\ journal = <<>>
        /\ Detectable => run[p].ident \in 1..Len(versions)
    BY <1>1, JRunning DEF Knows, Placed, InSession
  <1>3. /\ e.session = sessions + 1 /\ e.source = run[p].ident /\ e.chunk_size = run[p].csize
    BY DEF Header
  <1>4. Write(p, e) /\ UNCHANGED versions /\ sessions' = sessions + 1
    BY DEF NewHeader
  <1> HIDE DEF e
  <1>5. Len(journal') = 1 /\ journal'[1] = e
    <2>1. journal' = Append(journal, e)
      BY <1>1, <1>4, WriteIs
    <2>2. QED
      BY <1>2, <2>1
  <1>6. Headed(journal)'
    <2>1. sessions \in Nat
      BY DEF CInv, TypeOK
    <2>2. QED
      BY <1>2, <1>3, <1>4, <1>5, <2>1 DEF Headed
  <1>7. InOrder(journal') /\ Replayable(journal') /\ Laid(journal')
    BY <1>5, HeaderOnly
  <1>8. JournalIsSnapshot'
    BY <1>5 DEF JournalIsSnapshot
  <1>9. Through(journal', run[p].idx)
    BY <1>2 DEF Through
  <1>10. QED
    BY <1>1, <1>3, <1>4, <1>5, <1>6, <1>7, <1>8, <1>9, JWrite

\* A line about the chunk at hand, with the bytes of the session's version.
LEMMA JEvent ==
  ASSUME CInv, JInv, NEW p \in Proc, AtChunk(run[p].pc, run[p]), run[p].pc \in InSession,
         NEW st \in StatesOK, NEW ch \in ChunkRec, Write(p, Event(st, ch)),
         ch.index = run[p].idx, ValidChunk(ch, run[p].idx, run[p].csize),
         \/ st = "prepared" /\ EventsOf(journal, ch.index) = {}
         \/ /\ EventsOf(journal, ch.index) # {}
            /\ \A n \in EventsOf(journal, ch.index) :
                 journal[n].chunk = ch /\ <<journal[n].state, st>> \in Steps,
         Detectable => ch.raw = Raw(versions[run[p].ident], run[p].idx, run[p].csize),
         UNCHANGED <<versions, sessions>>
  PROVE  JInv'
  <1> DEFINE e == Event(st, ch)
             L == Len(journal)
  <1>1. ~At(p, "idle") /\ run[p].pc \notin {"idle", "identity", "header"}
    BY DEF At, InSession
  <1>2. /\ run[p].events = journal /\ journal \in Seq(Line) /\ Shape(journal) /\ run[p].idx \in Nat
        /\ journal # <<>> /\ Placed(run[p].pc, run[p])
    BY <1>1, JRunning DEF Knows
  <1>3. /\ Through(journal, run[p].idx) /\ ~Beyond(run[p].idx, run[p].csize)
        /\ journal[1].chunk_size = run[p].csize /\ journal[1].source = run[p].ident
    BY <1>2 DEF Placed
  <1>4. InOrder(journal) /\ Replayable(journal) /\ Laid(journal) /\ Headed(journal) /\ JournalIsSnapshot
    BY DEF JInv
  <1>5. e.chunk = ch /\ journal' = Append(journal, e)
    BY <1>1, WriteIs DEF Event
  <1>6. InOrder(journal') /\ Replayable(journal') /\ Laid(journal')
    BY <1>2, <1>3, <1>4, <1>5, AppendAccepted
  <1> HIDE DEF e
  <1>7. /\ Len(journal') = L + 1 /\ L \in Nat \ {0} /\ journal' # <<>>
        /\ \A n \in 1..L : journal'[n] = journal[n]
        /\ journal'[L + 1] = e /\ journal'[1] = journal[1]
    <2>1. /\ Len(journal') = L + 1 /\ L \in Nat \ {0}
          /\ \A n \in 1..L : journal'[n] = journal[n]
          /\ journal'[L + 1] = e
      BY <1>2, <1>5
    <2>2. journal' # <<>>
      BY <1>2, <1>5
    <2>3. 1 \in 1..L
      BY <2>1
    <2>4. QED
      BY <2>1, <2>2, <2>3
  <1> HIDE DEF L
  <1>8. Headed(journal)'
    BY <1>2, <1>4, <1>7 DEF Headed
  <1>9. JournalIsSnapshot'
    <2> SUFFICES ASSUME Detectable, NEW n \in 2..(L + 1)
                 PROVE  journal'[n].chunk.raw =
                          Raw(versions[journal[1].source], journal'[n].chunk.index, journal[1].chunk_size)
      BY <1>7 DEF JournalIsSnapshot, Raw
    <2>1. CASE n <= L
      BY <1>4, <1>7, <2>1 DEF JournalIsSnapshot, L
    <2>2. CASE n = L + 1
      BY <1>3, <1>5, <1>7, <2>2
    <2>3. QED
      BY <1>7, <2>1, <2>2
  <1>10. Through(journal', run[p].idx)
    <2> SUFFICES ASSUME NEW i \in 0..(run[p].idx - 1) PROVE Verified(journal', i, L + 1)
      BY <1>7 DEF Through
    <2>1. PICK m \in 2..L : journal[m].chunk.index = i /\ journal[m].state = "verified"
      BY <1>3 DEF Through, Verified, L
    <2>2. QED
      BY <1>7, <2>1 DEF Verified
  <1>11. Write(p, e)
    BY DEF e
  <1>12. QED
    BY <1>1, <1>3, <1>6, <1>7, <1>8, <1>9, <1>10, <1>11, JWrite

\* A chunk is journaled as prepared when its bytes have been checked.
LEMMA JAppendPrepared ==
  ASSUME CInv, JInv, NEW p \in Proc, AppendPrepared(p)
  PROVE  JInv'
  <1> DEFINE r == run[p]
             ch == Chunk(r.idx, r.csize, r.buf)
  <1>1. ~At(p, "idle") /\ r.pc = "prepared"
    BY DEF AppendPrepared, At
  <1>2. /\ r \in Locals /\ r.events = journal /\ Knows("prepared", r) /\ Buffered("prepared", r)
        /\ r.idx \in Nat /\ r.csize \in ChunkSizes /\ r.buf \in Seq(Byte)
    BY <1>1, JRunning
  <1>3. /\ ch \in ChunkRec /\ ch.index = r.idx /\ ch.raw = r.buf /\ ValidChunk(ch, r.idx, r.csize)
    BY <1>2, LayoutFacts DEF Chunk, ChunkRec, ValidChunk
  <1>4. EventsOf(journal, r.idx) = {}
    BY <1>2 DEF Knows
  <1>5. Detectable => r.buf = Raw(versions[r.ident], r.idx, r.csize)
    <2> SUFFICES ASSUME Detectable PROVE r.buf = Raw(versions[r.ident], r.idx, r.csize)
      OBVIOUS
    <2>1. /\ Len(r.buf) = Length(r.idx, r.csize)
          /\ \A k \in 1..Len(r.buf) : r.buf[k] = versions[r.ident][Offset(r.idx, r.csize) + k]
      BY <1>2 DEF Buffered, ReadFrom
    <2>2. r.buf = [k \in 1..Len(r.buf) |-> r.buf[k]]
      BY <1>2
    <2>3. QED
      BY <2>1, <2>2 DEF Raw
  <1>6. Write(p, Event("prepared", ch)) /\ UNCHANGED <<versions, sessions>>
    BY DEF AppendPrepared
  <1>7. AtChunk(r.pc, r) /\ r.pc \in InSession
    BY <1>1 DEF AtChunk, InSession, After, Phase
  <1> HIDE DEF ch
  <1>8. QED
    BY <1>3, <1>4, <1>5, <1>6, <1>7, JEvent DEF StatesOK

\* The next line of a chunk repeats the chunk.
LEMMA JAgain ==
  ASSUME CInv, JInv, NEW p \in Proc, run[p].pc \in {"uploaded", "verified"},
         NEW st \in {"uploaded", "verified"}, run[p].pc = st,
         Write(p, Event(st, This(run[p]))), UNCHANGED <<versions, sessions>>
  PROVE  JInv'
  <1> DEFINE r == run[p]
             ch == This(r)
  <1>1. ~At(p, "idle")
    BY DEF At
  <1>2. /\ r.events = journal /\ journal \in Seq(Line) /\ Shape(journal) /\ r.idx \in Nat
        /\ Knows(r.pc, r) /\ Placed(r.pc, r)
    BY <1>1, JRunning
  <1>3. EventsOf(journal, r.idx) # {}
    BY <1>2 DEF Knows, Pending
  <1>4. /\ ch \in ChunkRec /\ ch.index = r.idx
        /\ \A n \in EventsOf(journal, r.idx) : journal[n].chunk = ch
    BY <1>2, <1>3, ThisChunk DEF This
  <1>5. AtChunk(r.pc, r) /\ r.pc \in InSession
    BY DEF AtChunk, InSession, After, Phase
  <1>6. journal[1].chunk_size = r.csize /\ journal[1].source = r.ident
    BY <1>2, <1>5 DEF Placed
  <1>7. PICK n \in EventsOf(journal, r.idx) : n \in 2..Len(journal) /\ journal[n].chunk = ch
    BY <1>3, <1>4 DEF EventsOf
  <1>8. ValidChunk(ch, r.idx, r.csize)
    BY <1>4, <1>6, <1>7 DEF JInv, Laid
  <1>9. Detectable => ch.raw = Raw(versions[r.ident], r.idx, r.csize)
    BY <1>4, <1>6, <1>7 DEF JInv, JournalIsSnapshot
  <1>10. \A m \in EventsOf(journal, r.idx) : <<journal[m].state, st>> \in Steps
    <2>1. \A m \in EventsOf(journal, r.idx) : journal[m].state \in {"prepared", "uploaded"}
      BY <1>2, LineFacts DEF EventsOf, StatesOK, Knows, Pending, Unverified
    <2>2. st = "uploaded" => \A m \in EventsOf(journal, r.idx) : journal[m].state = "prepared"
      BY <1>2 DEF Knows
    <2>3. QED
      BY <2>1, <2>2 DEF Steps
  <1> HIDE DEF ch
  <1>11. Write(p, Event(st, ch))
    BY DEF ch
  <1>12. QED
    BY <1>3, <1>4, <1>5, <1>8, <1>9, <1>10, <1>11, JEvent DEF StatesOK

\* Journaling the upload and the verification of a chunk.
LEMMA JAppendState ==
  ASSUME CInv, JInv, NEW p \in Proc, AppendUploaded(p) \/ AppendVerified(p)
  PROVE  JInv'
  BY JAgain DEF AppendUploaded, AppendVerified, At

\* A write to the image leaves the versions it had, and is seen by identity().
LEMMA JSourceWrite ==
  ASSUME CInv, JInv, SourceWrite
  PROVE  JInv'
  <1>1. PICK new : versions' = Append(versions, new)
    BY DEF SourceWrite
  <1>2. versions \in Seq([1..Size -> Byte])
    BY DEF CInv, TypeOK
  <1>3. /\ Len(versions') = Len(versions) + 1 /\ Len(versions) \in Nat
        /\ \A v \in 1..Len(versions) : versions'[v] = versions[v]
    BY <1>1, <1>2
  <1>4. UNCHANGED <<journal, sessions, run>>
    BY DEF SourceWrite, file
  <1>5. Headed(journal)'
    BY <1>3, <1>4 DEF JInv, Headed
  <1>6. InOrder(journal)' /\ Replayable(journal)' /\ Laid(journal)'
    BY <1>4 DEF JInv, InOrder, Verified, Laid
  <1>7. JournalIsSnapshot'
    <2> SUFFICES ASSUME Detectable, NEW n \in 2..Len(journal)
                 PROVE  journal[n].chunk.raw =
                          Raw(versions'[journal[1].source], journal[n].chunk.index, journal[1].chunk_size)
      BY <1>4 DEF JournalIsSnapshot, Raw
    <2>1. journal # <<>>
      OBVIOUS
    <2>2. versions'[journal[1].source] = versions[journal[1].source]
      BY <1>3, <2>1 DEF JInv, Headed
    <2>3. QED
      BY <2>2 DEF JInv, JournalIsSnapshot
  <1>8. ASSUME NEW p \in Proc, ~At(p, "idle")
        PROVE  Placed(run[p].pc, run[p])' /\ Buffered(run[p].pc, run[p])'
    <2> DEFINE r == run[p]
    <2>1. Placed(r.pc, r) /\ Buffered(r.pc, r)
      BY <1>8 DEF JInv
    <2>2. Placed(r.pc, r)'
      BY <1>3, <1>4, <2>1 DEF Placed
    <2>3. Detectable /\ r.pc # "identity" => r.ident \in 1..Len(versions)
      BY <2>1 DEF Placed
    <2>4. Buffered(r.pc, r)'
      BY <1>3, <1>4, <2>1, <2>3, SMTT(30) DEF Buffered, ReadFrom
    <2>5. QED
      BY <2>2, <2>4
  <1>9. QED
    BY <1>4, <1>5, <1>6, <1>7, <1>8 DEF JInv, At

\* What a power loss leaves is a journal of the same session, if any.
LEMMA JPowerLoss ==
  ASSUME CInv, JInv, PowerLoss
  PROVE  JInv'
  <1>1. PICK n \in durable..Len(journal) : journal' = SubSeq(journal, 1, n)
    BY DEF PowerLoss
  <1>2. journal \in Seq(Line) /\ durable \in 0..Len(journal) /\ Shape(journal)
    BY DEF CInv, TypeOK
  <1>3. /\ n \in 0..Len(journal) /\ Len(journal') = n
        /\ \A k \in 1..n : journal'[k] = journal[k]
        /\ journal' # <<>> => n >= 1 /\ journal # <<>>
    BY <1>1, <1>2, PrefixShape
  <1>4. InOrder(journal') /\ Replayable(journal') /\ Laid(journal')
    BY <1>1, <1>2, <1>3, PrefixAccepted DEF JInv
  <1>5. UNCHANGED <<versions, sessions>> /\ \A p \in Proc : run'[p].pc = "idle"
    BY DEF PowerLoss, Idle
  <1>6. Headed(journal)'
    BY <1>3, <1>5 DEF JInv, Headed
  <1>7. JournalIsSnapshot'
    <2> SUFFICES ASSUME Detectable, NEW k \in 2..n
                 PROVE  journal'[k].chunk.raw =
                          Raw(versions[journal'[1].source], journal'[k].chunk.index, journal'[1].chunk_size)
      BY <1>3, <1>5 DEF JournalIsSnapshot, Raw
    <2>1. k \in 2..Len(journal) /\ journal'[k] = journal[k] /\ journal'[1] = journal[1]
      BY <1>3
    <2>2. QED
      BY <2>1 DEF JInv, JournalIsSnapshot
  <1>8. InOrder(journal)' /\ Replayable(journal)' /\ Laid(journal)'
    BY <1>4 DEF InOrder, Verified, Laid
  <1>9. QED
    BY <1>5, <1>6, <1>7, <1>8 DEF JInv, At

\* Steps that change nothing JInv speaks of.
LEMMA JElsewhere ==
  ASSUME JInv, UNCHANGED <<journal, versions, sessions, run>>
  PROVE  JInv'
  <1>1. Headed(journal)' /\ Laid(journal)' /\ JournalIsSnapshot' /\ InOrder(journal)'
    BY DEF JInv, Headed, Laid, JournalIsSnapshot, InOrder, Verified
  <1>2. Replayable(journal)'
    BY DEF JInv
  <1>3. ASSUME NEW p \in Proc, ~At(p, "idle")
        PROVE  Placed(run[p].pc, run[p])' /\ Buffered(run[p].pc, run[p])'
    BY <1>3 DEF JInv, Placed, Buffered, ReadFrom
  <1>4. QED
    BY <1>1, <1>2, <1>3 DEF JInv, At

\* The invariant holds before the first run.
LEMMA InitJInv == Init => JInv
  <1> SUFFICES ASSUME Init PROVE JInv
    OBVIOUS
  <1>1. journal = <<>> /\ Len(journal) = 0 /\ \A p \in Proc : run[p].pc = "idle"
    BY DEF Init, Idle
  <1>2. InOrder(journal) /\ Replayable(journal) /\ Laid(journal) /\ Headed(journal) /\ JournalIsSnapshot
    BY <1>1 DEF InOrder, Replayable, Laid, Headed, JournalIsSnapshot
  <1>3. QED
    BY <1>1, <1>2 DEF JInv, At

\* Every step preserves it.
LEMMA NextJInv == CInv /\ JInv /\ [Next]_vars => JInv'
  <1> SUFFICES ASSUME CInv, JInv, [Next]_vars PROVE JInv'
    OBVIOUS
  <1>1. CASE UNCHANGED vars
    BY <1>1, JElsewhere DEF vars, file
  <1>2. ASSUME NEW p \in Proc, Open(p) \/ Step(p) \/ Error(p) \/ Kill(p)
        PROVE  JInv'
    <2>1. CASE Step(p)
      BY <2>1, JGetIdentity, JNewHeader, JReplay, JFsync, JNextChunk, JRead, JPublish, JRecheck,
         JAppendPrepared, JOnwardSteps, JCheckStaged, JAppendState, JClean, JLast DEF Step
    <2>2. QED
      BY <1>2, <2>1, JOpen, JLast
  <1>3. CASE OrphanEnds
    BY <1>3, JElsewhere DEF OrphanEnds, file
  <1>4. QED
    BY <1>1, <1>2, <1>3, JPowerLoss, JSourceWrite DEF Next

-----------------------------------------------------------------------------
(* Theorems *)

\* Whatever was killed, torn or lost, the journal left behind is one that
\* upload() accepts when it is run again with the same settings.
THEOREM AlwaysResumable == Spec => []Resumable
  <1>1. CInv /\ JInv => Resumable
    BY DEF CInv, JInv, Shape, Laid, Resumable
  <1>2. QED
    BY <1>1, InitCInv, InitJInv, NextCInv, NextJInv, PTL DEF Spec

\* What the journal records of a chunk are the bytes the image had when the
\* session began, although the image may be written to at any time: reading
\* is not atomic, but identity() is compared after it.
THEOREM JournalTrue == Spec => []JournalIsSnapshot
  <1>1. JInv => JournalIsSnapshot
    BY DEF JInv
  <1>2. QED
    BY <1>1, InitCInv, InitJInv, NextCInv, NextJInv, PTL DEF Spec

-----------------------------------------------------------------------------
(* The inductive invariants *)

\* The file prepare() made of the chunk at hand.
Staged(r, raw) == [session |-> Session(r), index |-> r.idx, raw |-> raw]

\* What is left of earlier chunks, and of the one at hand.
Tidy(l, r) ==
  /\ \A f \in stage : f.session = Session(r) => f.index >= r.idx
  /\ \A x \in partial : x[1] = Session(r) => x[2] >= r.idx
  /\ AtChunk(l, r) /\ l # "read" => <<Session(r), r.idx>> \notin partial
  /\ l \in {"recheck", "prepared"} => Staged(r, r.buf) \in stage
  /\ l = "upload" => Staged(r, This(r).raw) \in stage
  /\ l = "read" /\ EventsOf(r.events, r.idx) # {} => Staged(r, This(r).raw) \notin stage

\* A file of the session is of a chunk of the image.
Sensible(s, i) ==
  /\ s \in 1..sessions
  /\ journal # <<>> /\ journal[1].session = s => ~Beyond(i, journal[1].chunk_size)

\* The inductive invariant about the staging directory, on top of those.
StInv ==
  /\ \A f \in stage : Sensible(f.session, f.index)
  /\ \A x \in partial : Sensible(x[1], x[2])
  /\ \A p \in Proc : run[p].pc \in InSession => Tidy(run[p].pc, run[p])

\* The chunks of a manifest cover the image without gap or overlap.
Layouted(c) ==
  /\ c # <<>>
  /\ c[1].offset = 0 /\ c[Len(c)].offset + c[Len(c)].length = Size
  /\ \A k \in 1..(Len(c) - 1) : c[k + 1].offset = c[k].offset + c[k].length

OfSession(m) == journal # <<>> /\ journal[1].session = m.header.session

\* The journal has a "verified" line for each chunk of the manifest.
AllVerified(m) ==
  \A k \in 1..Len(m.chunks) :
    \E n \in 2..Len(journal) : journal[n].state = "verified" /\ journal[n].chunk = m.chunks[k]

\* The remote has each chunk of the manifest.
AllHeld(m) ==
  \A k \in 1..Len(m.chunks) :
    Secured(remote, m.header.session, m.chunks[k])

\* A session may lose its "verified" lines as long as its header is safe; a
\* session that is over has all its chunks on the remote for good.
Announced(m) ==
  /\ Layouted(m.chunks)
  /\ m.header.session \in 1..sessions
  /\ OfSession(m) => durable >= 1 \/ AllVerified(m)
  /\ ~OfSession(m) => AllHeld(m)

\* The inductive invariant about announced manifests, on top of the others.
RepInv == \A m \in reported : Announced(m)

-----------------------------------------------------------------------------
(* StInv *)

\* A step of the only process in the command, which leaves the journal alone.
LEMMA StQuiet ==
  ASSUME CInv, NEW p \in Proc, ~At(p, "idle") \/ lock = NoProc,
         UNCHANGED <<journal, sessions>>, \A q \in Proc \ {p} : run'[q] = run[q],
         \A f \in stage' : Sensible(f.session, f.index),
         \A x \in partial' : Sensible(x[1], x[2]),
         run'[p].pc \in InSession => Tidy(run[p].pc, run[p])'
  PROVE  StInv'
  <1>1. \A q \in Proc \ {p} : run'[q].pc \notin InSession
    BY RecoverAssumption DEF CInv, SingleWriter, At, InSession
  <1>2. /\ \A f \in stage' : Sensible(f.session, f.index)'
        /\ \A x \in partial' : Sensible(x[1], x[2])'
    BY DEF Sensible
  <1>3. QED
    BY <1>1, <1>2 DEF StInv

\* A process that has not come to its session yet, or that ends.
LEMMA StOutside ==
  ASSUME CInv, StInv, NEW p \in Proc, ~At(p, "idle") \/ lock = NoProc,
         UNCHANGED <<journal, sessions>>, \A q \in Proc \ {p} : run'[q] = run[q],
         stage' \subseteq stage, partial' \subseteq partial, run'[p].pc \notin InSession
  PROVE  StInv'
  <1>1. /\ \A f \in stage' : Sensible(f.session, f.index)
        /\ \A x \in partial' : Sensible(x[1], x[2])
    BY DEF StInv
  <1>2. QED
    BY <1>1, StQuiet

\* What is known of a process in its session.
LEMMA StRunning ==
  ASSUME CInv, JInv, StInv, NEW p \in Proc, run[p].pc \in InSession
  PROVE  /\ ~At(p, "idle") /\ run[p] \in Locals /\ run[p].events = journal
         /\ journal \in Seq(Line) /\ Shape(journal) /\ journal # <<>>
         /\ run[p].idx \in Nat /\ run[p].csize \in ChunkSizes
         /\ Session(run[p]) = journal[1].session /\ Session(run[p]) \in 1..sessions
         /\ journal[1].chunk_size = run[p].csize
         /\ Knows(run[p].pc, run[p]) /\ Placed(run[p].pc, run[p]) /\ Tidy(run[p].pc, run[p])
  <1>1. ~At(p, "idle")
    BY DEF InSession, At
  <1>2. /\ run[p] \in Locals /\ run[p].events = journal
        /\ journal \in Seq(Line) /\ Shape(journal)
        /\ run[p].idx \in Nat /\ run[p].csize \in ChunkSizes
        /\ Knows(run[p].pc, run[p]) /\ Placed(run[p].pc, run[p])
    BY <1>1, JRunning
  <1>3. journal # <<>>
    BY <1>2 DEF Knows, InSession
  <1>4. Session(run[p]) = journal[1].session /\ Session(run[p]) \in 1..sessions
    BY <1>2, <1>3 DEF Session, JInv, Headed
  <1>5. journal[1].chunk_size = run[p].csize /\ Tidy(run[p].pc, run[p])
    BY <1>2 DEF Placed, StInv
  <1>6. QED
    BY <1>1, <1>2, <1>3, <1>4, <1>5

\* A step that moves on within the session.
LEMMA StGoto ==
  ASSUME CInv, JInv, StInv, NEW p \in Proc, run[p].pc \in InSession, NEW l \in Phase, NEW ok,
         GotoOrExit(p, ok, l), UNCHANGED <<journal, sessions, stage>>, partial' \subseteq partial,
         AtChunk(l, run[p]) /\ l # "read" => <<Session(run[p]), run[p].idx>> \notin partial',
         l \in {"recheck", "prepared"} => Staged(run[p], run[p].buf) \in stage,
         ok /\ l = "upload" => Staged(run[p], This(run[p]).raw) \in stage,
         l = "read" => EventsOf(run[p].events, run[p].idx) = {}
  PROVE  StInv'
  <1>1. /\ \A q \in Proc \ {p} : run'[q] = run[q]
        /\ \/ ok /\ run'[p] = [run[p] EXCEPT !.pc = l]
           \/ ~ok /\ run'[p].pc = "idle"
    BY GotoType DEF CInv
  <1>2. ~At(p, "idle") /\ run[p] \in Locals /\ Tidy(run[p].pc, run[p])
    BY StRunning
  <1>3. CASE ok /\ run'[p] = [run[p] EXCEPT !.pc = l]
    <2>1. /\ run'[p].pc = l /\ run'[p].events = run[p].events /\ run'[p].idx = run[p].idx
          /\ run'[p].buf = run[p].buf
      BY <1>2, <1>3 DEF Locals
    <2>2. /\ Session(run[p])' = Session(run[p]) /\ This(run[p])' = This(run[p])
      BY <2>1 DEF Session, This
    <2>3. Tidy(run[p].pc, run[p])'
      <3>1. /\ \A f \in stage : f.session = Session(run[p]) => f.index >= run[p].idx
            /\ \A x \in partial : x[1] = Session(run[p]) => x[2] >= run[p].idx
        BY <1>2 DEF Tidy
      <3>2. AtChunk(run[p].pc, run[p])' <=> AtChunk(l, run[p])
        BY <2>1 DEF AtChunk
      <3>3. QED
        BY <1>3, <2>1, <2>2, <3>1, <3>2 DEF Tidy, Staged
    <2>4. /\ \A f \in stage' : Sensible(f.session, f.index)
          /\ \A x \in partial' : Sensible(x[1], x[2])
      BY DEF StInv
    <2>5. QED
      BY <1>1, <1>2, <2>3, <2>4, StQuiet
  <1>4. CASE ~ok /\ run'[p].pc = "idle"
    BY <1>1, <1>2, <1>4, StOutside DEF InSession
  <1>5. QED
    BY <1>1, <1>3, <1>4

\* Steps on a chunk in the journal that move on.
LEMMA StOnward ==
  ASSUME CInv, JInv, StInv, NEW p \in Proc, run[p].pc \in InSession, NEW ok,
         NEW l \in Phase \ {"recheck", "prepared", "upload", "read"}, GotoOrExit(p, ok, l),
         UNCHANGED <<journal, sessions, stage, partial>>,
         ~AtChunk(l, run[p]) \/ (AtChunk(run[p].pc, run[p]) /\ run[p].pc # "read")
  PROVE  StInv'
  <1>1. Tidy(run[p].pc, run[p])
    BY StRunning
  <1>2. AtChunk(l, run[p]) => <<Session(run[p]), run[p].idx>> \notin partial'
    BY <1>1 DEF Tidy
  <1>3. QED
    BY <1>2, StGoto

\* The steps of the session that leave the staging directory alone.
LEMMA StOnwardSteps ==
  ASSUME CInv, JInv, StInv, NEW p \in Proc,
         Reconcile(p) \/ Upload(p) \/ Verify(p) \/ Final(p) \/ UploadManifest(p)
  PROVE  StInv'
  <1>1. run[p].pc \in {"reconcile", "upload", "verify", "final", "manifest"}
    BY DEF Reconcile, Upload, Verify, Final, UploadManifest, At
  <1>2. UNCHANGED <<journal, sessions, stage, partial>> /\ run[p].pc \in InSession
    BY <1>1 DEF Reconcile, Upload, Verify, Final, UploadManifest, file, staging, InSession, Phase
  <1>3. CASE Reconcile(p) \/ Upload(p) \/ Verify(p)
    <2>1. PICK l \in {"verified", "staged", "uploaded", "verify"}, ok \in {TRUE, FALSE} : GotoOrExit(p, ok, l)
      <3>1. CASE Reconcile(p)
        BY <3>1 DEF Reconcile, GotoOrExit
      <3>2. CASE Upload(p)
        BY <3>2 DEF Upload, AfterUpload, GotoOrExit
      <3>3. CASE Verify(p)
        <4>1. GotoOrExit(p, TRUE, "verified") \/ GotoOrExit(p, FALSE, "verified")
          BY <3>3 DEF Verify, GotoOrExit
        <4>2. QED
          BY <4>1
      <3>4. QED
        BY <1>3, <3>1, <3>2, <3>3
    <2>2. AtChunk(run[p].pc, run[p]) /\ run[p].pc # "read"
      BY <1>3 DEF Reconcile, Upload, Verify, At, AtChunk, InSession, After, Phase
    <2>3. QED
      BY <1>2, <2>1, <2>2, StOnward DEF Phase
  <1>4. CASE Final(p) \/ UploadManifest(p)
    <2>1. PICK l \in {"manifest", "report"}, ok \in {TRUE, FALSE} : GotoOrExit(p, ok, l)
      <3>1. CASE Final(p)
        <4>1. GotoOrExit(p, TRUE, "manifest") \/ GotoOrExit(p, FALSE, "manifest")
          BY <3>1 DEF Final, GotoOrExit
        <4>2. QED
          BY <4>1
      <3>2. CASE UploadManifest(p)
        BY <3>2 DEF UploadManifest, GotoOrExit
      <3>3. QED
        BY <1>4, <3>1, <3>2
    <2>2. ~AtChunk(l, run[p]) /\ l \in Phase \ {"recheck", "prepared", "upload", "read"}
      BY DEF AtChunk, After, Phase
    <2>3. QED
      BY <1>2, <2>1, <2>2, StOnward
  <1>5. QED
    BY <1>3, <1>4

\* Before the session, and at the end of the process.
LEMMA StOutsideSteps ==
  ASSUME CInv, JInv, StInv, NEW p \in Proc,
         Open(p) \/ GetIdentity(p) \/ Report(p) \/ Error(p) \/ Kill(p)
  PROVE  StInv'
  <1>1. ~At(p, "idle") \/ lock = NoProc
    BY DEF Open, GetIdentity, Report, Error, Kill, At, LockFree
  <1>2. UNCHANGED <<journal, sessions, stage>> /\ partial' \subseteq partial
    BY DEF Open, GetIdentity, Report, Error, Kill, file, staging
  <1>3. PICK x : run' = [run EXCEPT ![p] = x] /\ x.pc \notin InSession
    <2>1. CASE Open(p)
      <3>1. PICK c \in ChunkSizes :
          run' = [run EXCEPT ![p] = [Idle EXCEPT !.pc = "identity", !.csize = c, !.events = journal]]
        BY <2>1 DEF Open
      <3>2. [Idle EXCEPT !.pc = "identity", !.csize = c, !.events = journal].pc = "identity"
        BY DEF Idle
      <3>3. QED
        BY <3>1, <3>2 DEF InSession
    <2>2. CASE GetIdentity(p)
      <3> DEFINE l == IF run[p].events = <<>> THEN "header" ELSE "replay"
                 x == [run[p] EXCEPT !.ident = Identity, !.pc = l]
      <3>1. run' = [run EXCEPT ![p] = x]
        BY <2>2 DEF GetIdentity
      <3>2. x.pc = l /\ l \in {"header", "replay"}
        BY DEF CInv, TypeOK, Locals
      <3> HIDE DEF x, l
      <3>3. QED
        BY <3>1, <3>2 DEF InSession
    <2>3. CASE Report(p) \/ Error(p) \/ Kill(p)
      <3>1. run' = [run EXCEPT ![p] = Idle]
        BY <2>3 DEF Report, Error, Kill, Exit
      <3>2. Idle.pc \notin InSession
        BY DEF Idle, InSession
      <3>3. QED
        BY <3>1, <3>2
    <2>4. QED
      BY <2>1, <2>2, <2>3
  <1>4. run'[p].pc \notin InSession /\ \A q \in Proc \ {p} : run'[q] = run[q]
    BY <1>3 DEF CInv, TypeOK
  <1>5. QED
    BY <1>1, <1>2, <1>4, StOutside

\* A step that changes the locals and the files of the chunk at hand only.
LEMMA StLocals ==
  ASSUME CInv, JInv, StInv, NEW p \in Proc, run[p].pc \in InSession, NEW x,
         run' = [run EXCEPT ![p] = x], UNCHANGED <<journal, sessions>>,
         x.events = run[p].events,
         \A f \in stage' \ stage : f.session = Session(run[p]) /\ f.index = run[p].idx,
         \A y \in partial' \ partial : y = <<Session(run[p]), run[p].idx>>,
         AtChunk(run[p].pc, run[p]),
         \A f \in stage' : f.session = Session(run[p]) => f.index >= x.idx,
         \A y \in partial' : y[1] = Session(run[p]) => y[2] >= x.idx,
         AtChunk(x.pc, x) /\ x.pc # "read" => <<Session(run[p]), x.idx>> \notin partial',
         x.pc \in {"recheck", "prepared"} => Staged(x, x.buf) \in stage',
         x.pc = "upload" => Staged(x, This(x).raw) \in stage',
         x.pc = "read" /\ EventsOf(x.events, x.idx) # {} => Staged(x, This(x).raw) \notin stage'
  PROVE  StInv'
  <1>1. /\ ~At(p, "idle") /\ run[p].idx \in Nat /\ run[p].csize \in ChunkSizes
        /\ Session(run[p]) = journal[1].session /\ Session(run[p]) \in 1..sessions
        /\ journal[1].chunk_size = run[p].csize /\ Placed(run[p].pc, run[p])
    BY StRunning
  <1>2. run'[p] = x /\ \A q \in Proc \ {p} : run'[q] = run[q]
    BY DEF CInv, TypeOK
  <1>3. Sensible(Session(run[p]), run[p].idx)
    BY <1>1 DEF Sensible, Placed
  <1>4. /\ \A f \in stage' : Sensible(f.session, f.index)
        /\ \A y \in partial' : Sensible(y[1], y[2])
    BY <1>3 DEF StInv
  <1>5. Session(x) = Session(run[p])
    BY DEF Session
  <1>6. Tidy(run[p].pc, run[p])'
    BY <1>2, <1>5 DEF Tidy, Staged, This, Session, AtChunk
  <1>7. QED
    BY <1>1, <1>2, <1>4, <1>6, StQuiet

\* One pread() goes to the temporary file of the chunk.
LEMMA StRead ==
  ASSUME CInv, JInv, StInv, NEW p \in Proc, Read(p)
  PROVE  StInv'
  <1> DEFINE r == run[p]
  <1>1. r.pc = "read" /\ r.pc \in InSession
    BY DEF Read, At, InSession, Phase
  <1>2. r \in Locals /\ r.idx \in Nat /\ Tidy("read", r) /\ AtChunk(r.pc, r)
    BY <1>1, StRunning DEF AtChunk, InSession, After, Phase
  <1>3. PICK b : run' = [run EXCEPT ![p] = [r EXCEPT !.buf = b]]
    BY DEF Read
  <1> DEFINE x == [r EXCEPT !.buf = b]
  <1>4. x.pc = "read" /\ x.events = r.events /\ x.idx = r.idx
    BY <1>1, <1>2 DEF Locals
  <1>5. run' = [run EXCEPT ![p] = x]
    BY <1>3
  <1> HIDE DEF x
  <1>6. /\ UNCHANGED <<journal, sessions, stage>>
        /\ partial' = partial \cup {<<Session(r), r.idx>>}
    BY DEF Read, file
  <1>7. /\ \A f \in stage' : f.session = Session(r) => f.index >= x.idx
        /\ \A y \in partial' : y[1] = Session(r) => y[2] >= x.idx
    BY <1>2, <1>4, <1>6 DEF Tidy
  <1>8. EventsOf(x.events, x.idx) # {} => Staged(x, This(x).raw) \notin stage'
    BY <1>2, <1>4, <1>6 DEF Tidy, Staged, This, Session
  <1>9. QED
    BY <1>1, <1>2, <1>4, <1>5, <1>6, <1>7, <1>8, StLocals

\* The published file holds what has been read.
LEMMA StPublish ==
  ASSUME CInv, JInv, StInv, NEW p \in Proc, Publish(p)
  PROVE  StInv'
  <1> DEFINE r == run[p]
             x == [r EXCEPT !.pc = "recheck"]
  <1>1. r.pc = "read" /\ r.pc \in InSession
    BY DEF Publish, At, InSession, Phase
  <1>2. r \in Locals /\ r.idx \in Nat /\ Tidy("read", r) /\ AtChunk(r.pc, r)
    BY <1>1, StRunning DEF AtChunk, InSession, After, Phase
  <1>3. run' = [run EXCEPT ![p] = x]
    BY DEF Publish, Goto, CInv, TypeOK
  <1>4. x.pc = "recheck" /\ x.events = r.events /\ x.idx = r.idx /\ x.buf = r.buf
    BY <1>2 DEF Locals
  <1> HIDE DEF x
  <1>5. /\ UNCHANGED <<journal, sessions>>
        /\ partial' = partial \ {<<Session(r), r.idx>>}
        /\ stage' = Unstage(Session(r), r.idx) \cup {Staged(r, r.buf)}
    BY DEF Publish, file, Staged
  <1>6. Staged(r, r.buf).session = Session(r) /\ Staged(r, r.buf).index = r.idx
    BY DEF Staged
  <1>7. /\ \A f \in stage' : f.session = Session(r) => f.index >= x.idx
        /\ \A f \in stage' \ stage : f.session = Session(r) /\ f.index = r.idx
    BY <1>2, <1>4, <1>5, <1>6 DEF Tidy, Unstage
  <1>8. \A y \in partial' : y[1] = Session(r) => y[2] >= x.idx
    BY <1>2, <1>4, <1>5 DEF Tidy
  <1>9. Staged(x, x.buf) \in stage'
    BY <1>4, <1>5 DEF Staged, Session
  <1>10. QED
    BY <1>1, <1>2, <1>3, <1>4, <1>5, <1>7, <1>8, <1>9, StLocals

\* A chunk prepared again is uploaded when it is the one in the journal.
LEMMA StRecheck ==
  ASSUME CInv, JInv, StInv, NEW p \in Proc, Recheck(p)
  PROVE  StInv'
  <1> DEFINE r == run[p]
             again == StateOf(r.events, r.idx) # "none"
             l == IF again THEN "upload" ELSE "prepared"
  <1>1. r.pc = "recheck" /\ r.pc \in InSession
    BY DEF Recheck, At, InSession, Phase
  <1>2. Tidy("recheck", r) /\ AtChunk("recheck", r)
    BY <1>1, StRunning DEF AtChunk, InSession, After, Phase
  <1>3. PICK ok : GotoOrExit(p, ok, l) /\ (ok /\ again => This(r) = Chunk(r.idx, r.csize, r.buf))
    BY DEF Recheck
  <1>4. l \in {"upload", "prepared"} /\ (l = "upload" => again)
    OBVIOUS
  <1> HIDE DEF l, again
  <1>5. ok /\ l = "upload" => This(r).raw = r.buf
    BY <1>3, <1>4 DEF Chunk
  <1>6. Staged(r, r.buf) \in stage /\ <<Session(r), r.idx>> \notin partial
    BY <1>2 DEF Tidy
  <1>7. UNCHANGED <<journal, sessions, stage, partial>>
    BY DEF Recheck, file, staging
  <1>8. l \in Phase /\ l # "read"
    BY <1>4 DEF Phase
  <1>9. QED
    BY <1>1, <1>3, <1>5, <1>6, <1>7, <1>8, StGoto

\* A staged file with the recorded bytes is uploaded; else there is none.
LEMMA StCheckStaged ==
  ASSUME CInv, JInv, StInv, NEW p \in Proc, CheckStaged(p)
  PROVE  StInv'
  <1> DEFINE r == run[p]
             l == IF Staged(r, This(r).raw) \in stage THEN "upload" ELSE "read"
             x == [r EXCEPT !.buf = <<>>, !.pc = l]
  <1>1. r.pc = "staged" /\ r.pc \in InSession
    BY DEF CheckStaged, At, InSession, Phase
  <1>2. r \in Locals /\ r.idx \in Nat /\ Tidy("staged", r) /\ AtChunk("staged", r)
    BY <1>1, StRunning DEF AtChunk, InSession, After, Phase
  <1>3. run' = [run EXCEPT ![p] = x]
    BY DEF CheckStaged, Staged
  <1>4. x.pc = l /\ x.events = r.events /\ x.idx = r.idx
    BY <1>2 DEF Locals
  <1>5. /\ l \in {"upload", "read"}
        /\ l = "upload" => Staged(r, This(r).raw) \in stage
        /\ l = "read" => Staged(r, This(r).raw) \notin stage
    OBVIOUS
  <1> HIDE DEF x, l
  <1>6. UNCHANGED <<journal, sessions, stage, partial>>
    BY DEF CheckStaged, file, staging
  <1>7. Staged(x, This(x).raw) = Staged(r, This(r).raw)
    BY <1>4 DEF Staged, This, Session
  <1>8. /\ \A f \in stage' : f.session = Session(r) => f.index >= x.idx
        /\ \A y \in partial' : y[1] = Session(r) => y[2] >= x.idx
        /\ <<Session(r), x.idx>> \notin partial'
    BY <1>2, <1>4, <1>6 DEF Tidy
  <1>9. QED
    BY <1>1, <1>2, <1>3, <1>4, <1>5, <1>6, <1>7, <1>8, StLocals

\* Nothing of a chunk that is through is left.
LEMMA StClean ==
  ASSUME CInv, JInv, StInv, NEW p \in Proc, Clean(p)
  PROVE  StInv'
  <1> DEFINE r == run[p]
             x == [r EXCEPT !.pc = "chunk", !.idx = r.idx + 1]
  <1>1. r.pc = "clean" /\ r.pc \in InSession
    BY DEF Clean, At, InSession, Phase
  <1>2. r \in Locals /\ r.idx \in Nat /\ Tidy("clean", r) /\ AtChunk("clean", r)
    BY <1>1, StRunning DEF AtChunk, InSession, After, Phase
  <1>3. run' = [run EXCEPT ![p] = x]
    BY Zenon DEF Clean
  <1>4. x.pc = "chunk" /\ x.events = r.events /\ x.idx = r.idx + 1
    BY <1>2 DEF Locals
  <1> HIDE DEF x
  <1>5. /\ UNCHANGED <<journal, sessions, partial>> /\ stage' = Unstage(Session(r), r.idx)
    BY DEF Clean, file
  <1>6. \A f \in stage' : f.session = Session(r) => f.index >= x.idx
    <2> SUFFICES ASSUME NEW f \in stage', f.session = Session(r) PROVE f.index >= x.idx
      OBVIOUS
    <2>1. f \in stage /\ f.index # r.idx
      BY <1>5 DEF Unstage
    <2>2. f.index >= r.idx /\ f.index \in Nat
      BY <1>2, <2>1 DEF Tidy, CInv, TypeOK
    <2>3. QED
      BY <1>2, <1>4, <2>1, <2>2
  <1>7. \A y \in partial' : y[1] = Session(r) => y[2] >= x.idx
    <2> SUFFICES ASSUME NEW y \in partial, y[1] = Session(r) PROVE y[2] >= x.idx
      BY <1>5
    <2>1. y[2] \in Nat /\ y = <<y[1], y[2]>>
      BY DEF CInv, TypeOK
    <2>2. y[2] >= r.idx /\ y[2] # r.idx
      BY <1>2, <2>1 DEF Tidy
    <2>3. QED
      BY <1>2, <1>4, <2>1, <2>2
  <1>8. ~AtChunk(x.pc, x) /\ stage' \subseteq stage
    BY <1>4, <1>5 DEF AtChunk, Unstage
  <1>9. QED
    BY <1>1, <1>2, <1>3, <1>4, <1>5, <1>6, <1>7, <1>8, StLocals

\* The head of the loop deletes a left temporary file.
LEMMA StNextChunk ==
  ASSUME CInv, JInv, StInv, NEW p \in Proc, NextChunk(p)
  PROVE  StInv'
  <1> DEFINE r == run[p]
             st == StateOf(r.events, r.idx)
             l == IF Beyond(r.idx, r.csize) THEN "final"
                  ELSE CASE st = "none" -> "read"
                         [] st = "verified" -> "clean"
                         [] OTHER -> "reconcile"
  <1>1. r.pc = "chunk" /\ r.pc \in InSession
    BY DEF NextChunk, At, InSession, Phase
  <1>2. PICK ok : GotoOrExit(p, ok, l)
    BY DEF NextChunk
  <1>3. l \in {"final", "read", "clean", "reconcile"} /\ (l = "read" => st = "none")
    OBVIOUS
  <1>4. st = "none" => EventsOf(r.events, r.idx) = {}
    BY <1>1, StRunning, StateFacts
  <1> HIDE DEF l, st
  <1>5. /\ UNCHANGED <<journal, sessions, stage>> /\ partial' = partial \ {<<Session(r), r.idx>>}
    BY DEF NextChunk, file
  <1>6. l \in Phase /\ l \notin {"recheck", "prepared", "upload"}
    BY <1>3 DEF Phase
  <1>7. <<Session(r), r.idx>> \notin partial' /\ partial' \subseteq partial
    BY <1>5
  <1>8. QED
    BY <1>1, <1>2, <1>3, <1>4, <1>5, <1>6, <1>7, StGoto

\* After a line is safe the temporary file is still gone.
LEMMA StFsync ==
  ASSUME CInv, JInv, StInv, NEW p \in Proc, Fsync(p)
  PROVE  StInv'
  <1> DEFINE r == run[p]
             l == AfterFsync(r.events[Len(r.events)].state)
  <1>1. r.pc = "fsync" /\ r.pc \in InSession
    BY DEF Fsync, At, InSession, Phase
  <1>2. Len(journal) >= 1 /\ (Len(journal) = 1 => journal[1].state = "header") /\ r.events = journal
        /\ \A n \in 2..Len(journal) : journal[n].state \in StatesOK
    BY <1>1, StRunning, LineFacts DEF Shape
  <1>3. GotoOrExit(p, TRUE, l) /\ UNCHANGED <<journal, sessions, stage, partial>>
    BY DEF Fsync, GotoOrExit, staging
  <1>4. /\ l \in {"chunk", "staged", "verify", "clean"}
        /\ l = "chunk" \/ Len(journal) > 1
    <2> DEFINE L == Len(journal)
    <2>1. journal \in Seq(Line)
      BY DEF CInv, TypeOK
    <2>2. L \in Nat /\ L >= 1
      BY <1>2, <2>1
    <2>3. L = 1 => journal[L].state = "header"
      BY <1>2
    <2>4. L > 1 => journal[L].state \in StatesOK
      BY <1>2, <2>2
    <2>5. l = AfterFsync(journal[L].state)
      BY <1>2
    <2> HIDE DEF L, l
    <2>6. L = 1 \/ L > 1
      BY <2>2
    <2>7. QED
      BY <2>3, <2>4, <2>5, <2>6 DEF AfterFsync, StatesOK, L
  <1> HIDE DEF l
  <1>5. ~AtChunk(l, r) \/ (AtChunk(r.pc, r) /\ r.pc # "read")
    BY <1>1, <1>2, <1>4 DEF AtChunk
  <1>6. l \in Phase \ {"recheck", "prepared", "upload", "read"}
    BY <1>4 DEF Phase
  <1>7. QED
    BY <1>1, <1>3, <1>5, <1>6, StOnward

\* A resumed session starts with the first chunk.
LEMMA StReplay ==
  ASSUME CInv, JInv, StInv, NEW p \in Proc, Replay(p)
  PROVE  StInv'
  <1>1. ~At(p, "idle") /\ run[p].pc = "replay"
    BY DEF Replay, At
  <1>2. run[p] \in Locals /\ run[p].idx = 0
    BY <1>1, JRunning DEF Placed, InSession
  <1>3. PICK ok : GotoOrExit(p, ok, "chunk")
    BY DEF Replay
  <1>4. UNCHANGED <<journal, sessions, stage, partial>>
    BY DEF Replay, file, staging
  <1>5. /\ \A q \in Proc \ {p} : run'[q] = run[q]
        /\ \/ ok /\ run'[p] = [run[p] EXCEPT !.pc = "chunk"]
           \/ ~ok /\ run'[p].pc = "idle"
    <2>1. "chunk" \in Phase
      BY DEF Phase
    <2>2. QED
      BY <1>3, <2>1, GotoType DEF CInv
  <1>6. run'[p].pc = "idle" \/ (run'[p].pc = "chunk" /\ run'[p].idx = 0)
    BY <1>2, <1>5 DEF Locals
  <1>7. run'[p].pc = "chunk" => Tidy(run[p].pc, run[p])'
    <2> SUFFICES ASSUME run'[p].pc = "chunk" PROVE Tidy(run[p].pc, run[p])'
      OBVIOUS
    <2>1. run'[p].idx = 0 /\ ~AtChunk(run[p].pc, run[p])'
      BY <1>6 DEF AtChunk
    <2>2. /\ \A f \in stage : f.index \in Nat
          /\ \A y \in partial : y[2] \in Nat
      BY DEF CInv, TypeOK
    <2>3. QED
      BY <1>4, <2>1, <2>2 DEF Tidy
  <1>8. /\ \A f \in stage' : Sensible(f.session, f.index)
        /\ \A y \in partial' : Sensible(y[1], y[2])
    BY <1>4 DEF StInv
  <1>9. QED
    BY <1>1, <1>4, <1>5, <1>6, <1>7, <1>8, StQuiet DEF InSession

\* The locals after a line has been written.
LEMMA WriteFacts ==
  ASSUME CInv, NEW p \in Proc, ~At(p, "idle"), NEW e, Write(p, e)
  PROVE  /\ journal' = Append(journal, e)
         /\ \A q \in Proc \ {p} : run'[q] = run[q]
         /\ run'[p].pc = "fsync" /\ run'[p].idx = run[p].idx /\ run'[p].events = journal'
  <1> DEFINE x == [run[p] EXCEPT !.pc = "fsync", !.buf = <<>>, !.events = journal']
  <1>1. run[p] \in Locals /\ run[p].events = journal
    BY Running
  <1>2. run' = [run EXCEPT ![p] = x] /\ journal' = Append(journal, e)
    BY <1>1, WriteIs
  <1>3. x.pc = "fsync" /\ x.idx = run[p].idx /\ x.events = journal'
    BY <1>1 DEF Locals
  <1> HIDE DEF x
  <1>4. run'[p] = x /\ \A q \in Proc \ {p} : run'[q] = run[q]
    BY <1>2 DEF CInv, TypeOK
  <1>5. QED
    BY <1>2, <1>3, <1>4

\* A new session has no files yet.
LEMMA StNewHeader ==
  ASSUME CInv, JInv, StInv, NEW p \in Proc, NewHeader(p)
  PROVE  StInv'
  <1> DEFINE e == Header(sessions + 1, run[p].ident, run[p].csize)
  <1>1. ~At(p, "idle") /\ run[p].pc = "header"
    BY DEF NewHeader, At
  <1>2. run[p].idx = 0 /\ journal = <<>> /\ sessions \in Nat
    BY <1>1, JRunning DEF Knows, Placed, InSession, CInv, TypeOK
  <1>3. e.session = sessions + 1
    BY DEF Header
  <1>4. Write(p, e) /\ UNCHANGED <<stage, partial>> /\ sessions' = sessions + 1
    BY DEF NewHeader, staging
  <1> HIDE DEF e
  <1>5. /\ \A q \in Proc \ {p} : run'[q] = run[q]
        /\ run'[p].pc = "fsync" /\ run'[p].idx = 0 /\ run'[p].events = journal'
        /\ journal' = Append(journal, e)
    BY <1>1, <1>2, <1>4, WriteFacts
  <1>6. Len(journal') = 1 /\ journal'[1].session = sessions + 1
    BY <1>2, <1>3, <1>5
  <1>7. /\ \A f \in stage : f.session \in 1..sessions
        /\ \A y \in partial : y[1] \in 1..sessions
    BY DEF StInv, Sensible
  <1>8. /\ \A f \in stage' : Sensible(f.session, f.index)'
        /\ \A y \in partial' : Sensible(y[1], y[2])'
    BY <1>2, <1>4, <1>6, <1>7 DEF Sensible
  <1>9. Tidy(run[p].pc, run[p])'
    <2>1. Session(run[p])' = sessions + 1 /\ ~AtChunk(run[p].pc, run[p])'
      BY <1>5, <1>6 DEF Session, AtChunk
    <2>2. /\ \A f \in stage : f.session # sessions + 1
          /\ \A y \in partial : y[1] # sessions + 1
      BY <1>2, <1>7
    <2>3. QED
      BY <1>4, <1>5, <2>1, <2>2 DEF Tidy
  <1>10. \A q \in Proc \ {p} : run'[q].pc \notin InSession
    BY <1>1, <1>5, RecoverAssumption DEF CInv, SingleWriter, At, InSession
  <1>11. QED
    BY <1>8, <1>9, <1>10 DEF StInv

\* A line about the chunk at hand.
LEMMA StAppend ==
  ASSUME CInv, JInv, StInv, NEW p \in Proc,
         AppendPrepared(p) \/ AppendUploaded(p) \/ AppendVerified(p)
  PROVE  StInv'
  <1>1. run[p].pc \in {"prepared", "uploaded", "verified"}
    BY DEF AppendPrepared, AppendUploaded, AppendVerified, At
  <1>2. run[p].pc \in InSession /\ AtChunk(run[p].pc, run[p]) /\ run[p].pc # "read" /\ ~At(p, "idle")
    BY <1>1 DEF AtChunk, InSession, After, Phase, At
  <1>3. /\ journal \in Seq(Line) /\ journal # <<>> /\ run[p].events = journal
        /\ Tidy(run[p].pc, run[p])
    BY <1>2, StRunning
  <1>4. UNCHANGED <<stage, partial, sessions>>
    BY DEF AppendPrepared, AppendUploaded, AppendVerified, staging
  <1>5. PICK e : Write(p, e)
    BY DEF AppendPrepared, AppendUploaded, AppendVerified
  <1>6. /\ \A q \in Proc \ {p} : run'[q] = run[q]
        /\ run'[p].pc = "fsync" /\ run'[p].idx = run[p].idx /\ run'[p].events = journal'
        /\ journal' = Append(journal, e)
    BY <1>2, <1>5, WriteFacts
  <1>7. journal'[1] = journal[1] /\ journal' # <<>>
    BY <1>3, <1>6
  <1>8. /\ \A f \in stage' : Sensible(f.session, f.index)'
        /\ \A y \in partial' : Sensible(y[1], y[2])'
    BY <1>3, <1>4, <1>7 DEF StInv, Sensible
  <1>9. Tidy(run[p].pc, run[p])'
    <2>1. Session(run[p])' = Session(run[p])
      BY <1>3, <1>6, <1>7 DEF Session
    <2>2. QED
      BY <1>2, <1>3, <1>4, <1>6, <2>1 DEF Tidy
  <1>10. \A q \in Proc \ {p} : run'[q].pc \notin InSession
    BY <1>2, <1>6, RecoverAssumption DEF CInv, SingleWriter, At, InSession
  <1>11. QED
    BY <1>8, <1>9, <1>10 DEF StInv

\* A power loss ends all processes and may end the session.
LEMMA StPowerLoss ==
  ASSUME CInv, JInv, StInv, PowerLoss
  PROVE  StInv'
  <1>1. PICK n \in durable..Len(journal) : journal' = SubSeq(journal, 1, n)
    BY DEF PowerLoss
  <1>2. journal \in Seq(Line) /\ durable \in 0..Len(journal) /\ Shape(journal)
    BY DEF CInv, TypeOK
  <1>3. journal' # <<>> => journal # <<>> /\ journal'[1] = journal[1]
    <2>1. n \in 0..Len(journal) /\ Len(journal') = n /\ \A k \in 1..n : journal'[k] = journal[k]
      BY <1>1, <1>2, PrefixShape
    <2>2. journal' # <<>> => n >= 1
      BY <1>1, <1>2, <2>1
    <2>3. QED
      BY <2>1, <2>2
  <1>4. /\ stage' \subseteq stage /\ partial' \subseteq partial /\ sessions' = sessions
        /\ \A p \in Proc : run'[p].pc = "idle"
    BY DEF PowerLoss, Idle
  <1>5. QED
    BY <1>3, <1>4 DEF StInv, Sensible, InSession

\* Steps that change nothing StInv speaks of.
LEMMA StElsewhere ==
  ASSUME StInv, UNCHANGED <<journal, sessions, stage, partial, run>>
  PROVE  StInv'
  <1>1. /\ \A f \in stage' : Sensible(f.session, f.index)'
        /\ \A y \in partial' : Sensible(y[1], y[2])'
    BY DEF StInv, Sensible
  <1>2. ASSUME NEW p \in Proc, run'[p].pc \in InSession PROVE Tidy(run[p].pc, run[p])'
    BY <1>2 DEF StInv, Tidy
  <1>3. QED
    BY <1>1, <1>2 DEF StInv

\* Every step preserves StInv.
LEMMA NextStInv == CInv /\ JInv /\ StInv /\ [Next]_vars => StInv'
  <1> SUFFICES ASSUME CInv, JInv, StInv, [Next]_vars PROVE StInv'
    OBVIOUS
  <1>1. CASE UNCHANGED vars
    BY <1>1, StElsewhere DEF vars, file, staging
  <1>2. ASSUME NEW p \in Proc, Open(p) \/ Step(p) \/ Error(p) \/ Kill(p)
        PROVE  StInv'
    <2>1. CASE Step(p)
      BY <2>1, StOutsideSteps, StNewHeader, StReplay, StFsync, StNextChunk, StRead, StPublish,
         StRecheck, StAppend, StOnwardSteps, StCheckStaged, StClean DEF Step
    <2>2. QED
      BY <1>2, <2>1, StOutsideSteps
  <1>3. CASE OrphanEnds \/ SourceWrite
    BY <1>3, StElsewhere DEF OrphanEnds, SourceWrite, file, staging
  <1>4. QED
    BY <1>1, <1>2, <1>3, StPowerLoss DEF Next

\* The staging directory is empty before the first run.
LEMMA InitStInv == Init => StInv
  BY DEF Init, StInv, Idle, InSession

\* When the loop is over nothing of the session is left in staging.
LEMMA CleanAtTheEnd ==
  ASSUME CInv, JInv, StInv
  PROVE  StagingIsClean
  <1> SUFFICES ASSUME NEW p \in Proc, run[p].pc \in After
               PROVE  /\ \A f \in stage : f.session # Session(run[p])
                      /\ \A y \in partial : y[1] # Session(run[p])
    BY DEF StagingIsClean, After
  <1> DEFINE r == run[p]
  <1>1. r.pc \in InSession
    BY DEF After, InSession, Phase
  <1>2. /\ r.idx \in Nat /\ r.csize \in ChunkSizes /\ journal # <<>>
        /\ Session(r) = journal[1].session /\ journal[1].chunk_size = r.csize
        /\ Placed(r.pc, r) /\ Tidy(r.pc, r)
    BY <1>1, StRunning
  <1>3. Beyond(r.idx, r.csize)
    BY <1>2 DEF Placed
  <1> HIDE DEF r
  <1>4. ASSUME NEW i \in Nat, i >= r.idx PROVE ~Sensible(Session(r), i)
    <2>1. Beyond(i, r.csize)
      BY <1>2, <1>3, <1>4, BeyondUp
    <2>2. QED
      BY <1>2, <2>1 DEF Sensible
  <1>5. ASSUME NEW f \in stage, f.session = Session(r) PROVE FALSE
    <2>1. f.index \in Nat /\ f.index >= r.idx /\ Sensible(f.session, f.index)
      BY <1>2, <1>5 DEF Tidy, StInv, CInv, TypeOK
    <2>2. QED
      BY <1>4, <1>5, <2>1
  <1>6. ASSUME NEW y \in partial, y[1] = Session(r) PROVE FALSE
    <2>1. y[2] \in Nat /\ y[2] >= r.idx /\ Sensible(y[1], y[2])
      BY <1>2, <1>6 DEF Tidy, StInv, CInv, TypeOK
    <2>2. QED
      BY <1>4, <1>6, <2>1
  <1>7. QED
    BY <1>5, <1>6 DEF r

-----------------------------------------------------------------------------
(* The bytes of a journaled chunk *)

\* The staged file or the remote object holds the bytes of a chunk.
Kept(s, c) ==
  \/ [session |-> s, index |-> c.index, raw |-> c.raw] \in stage
  \/ Secured(remote, s, c)

\* BytesSurvive says it of the chunks in the journal.
LEMMA KeptFacts ==
  /\ BytesSurvive <=>
       (~StageIsRam => \A n \in 2..Len(journal) : Kept(journal[1].session, journal[n].chunk))
  /\ BytesSurvive' <=>
       (~StageIsRam => \A n \in 2..Len(journal') : Kept(journal[1].session, journal[n].chunk)')
  BY DEF BytesSurvive, Kept

\* A step that writes no line need only keep the chunks of the lines there are.
LEMMA BytesQuiet ==
  ASSUME BytesSurvive, UNCHANGED journal,
         ~StageIsRam =>
           \A n \in 2..Len(journal) : Kept(journal[1].session, journal[n].chunk) =>
                                        Kept(journal[1].session, journal[n].chunk)'
  PROVE  BytesSurvive'
  BY KeptFacts DEF Kept

\* A staged file is replaced when neither it nor anything else staged has the
\* recorded bytes: the remote has them.
LEMMA BytesPublish ==
  ASSUME CInv, JInv, StInv, BytesSurvive, NEW p \in Proc, Publish(p)
  PROVE  BytesSurvive'
  <1> DEFINE r == run[p]
  <1>1. r.pc = "read" /\ r.pc \in InSession
    BY DEF Publish, At, InSession, Phase
  <1>2. /\ r.events = journal /\ journal \in Seq(Line) /\ Shape(journal) /\ r.idx \in Nat
        /\ Session(r) = journal[1].session /\ Tidy("read", r)
    BY <1>1, StRunning
  <1>3. /\ UNCHANGED <<journal, remote>>
        /\ stage' = Unstage(Session(r), r.idx) \cup {Staged(r, r.buf)}
    BY DEF Publish, file, net, Staged
  <1>4. ASSUME NEW n \in 2..Len(journal), Kept(journal[1].session, journal[n].chunk)
        PROVE  Kept(journal[1].session, journal[n].chunk)'
    <2> DEFINE s == journal[1].session
               c == journal[n].chunk
    <2>1. CASE Secured(remote, s, c)
      BY <1>3, <2>1 DEF Kept
    <2>2. CASE [session |-> s, index |-> c.index, raw |-> c.raw] \in stage
      <3>1. c.index # r.idx
        <4> SUFFICES ASSUME c.index = r.idx PROVE FALSE
          OBVIOUS
        <4>1. n \in EventsOf(journal, r.idx)
          BY DEF EventsOf
        <4>2. c = ChunkOf(journal, r.idx)
          BY <1>2, <4>1, ThisChunk
        <4>3. Staged(r, This(r).raw) \notin stage
          BY <1>2, <4>1 DEF Tidy
        <4>4. Staged(r, This(r).raw) = [session |-> s, index |-> c.index, raw |-> c.raw]
          BY <1>2, <4>2 DEF Staged, This
        <4>5. QED
          BY <2>2, <4>3, <4>4
      <3>2. [session |-> s, index |-> c.index, raw |-> c.raw] \in Unstage(Session(r), r.idx)
        BY <2>2, <3>1 DEF Unstage
      <3>3. QED
        BY <1>3, <3>2 DEF Kept
    <2>3. QED
      BY <1>4, <2>1, <2>2 DEF Kept
  <1>5. QED
    BY <1>3, <1>4, BytesQuiet

\* The staged file is deleted when the chunk is verified.
LEMMA BytesClean ==
  ASSUME CInv, SInv, JInv, StInv, BytesSurvive, NEW p \in Proc, Clean(p)
  PROVE  BytesSurvive'
  <1> DEFINE r == run[p]
  <1>1. r.pc = "clean" /\ r.pc \in InSession
    BY DEF Clean, At, InSession, Phase
  <1>2. /\ r.events = journal /\ journal \in Seq(Line) /\ Shape(journal) /\ r.idx \in Nat
        /\ Session(r) = journal[1].session /\ Placed("clean", r)
    BY <1>1, StRunning
  <1>3. UNCHANGED <<journal, remote>> /\ stage' = Unstage(Session(r), r.idx)
    BY DEF Clean, file, net
  <1>4. PICK m \in 2..Len(journal) : journal[m].chunk.index = r.idx /\ journal[m].state = "verified"
    BY <1>2 DEF Placed, Verified
  <1>5. Secured(remote, journal[1].session, journal[m].chunk)
    BY <1>4 DEF SInv, VerifiedIsStored
  <1>6. ASSUME NEW n \in 2..Len(journal), Kept(journal[1].session, journal[n].chunk)
        PROVE  Kept(journal[1].session, journal[n].chunk)'
    <2> DEFINE s == journal[1].session
               c == journal[n].chunk
    <2>1. CASE c.index = r.idx
      <3>1. m \in EventsOf(journal, r.idx) /\ n \in EventsOf(journal, r.idx)
        BY <1>4, <2>1 DEF EventsOf
      <3>2. c = journal[m].chunk
        BY <1>2, <3>1, ThisChunk
      <3>3. QED
        BY <1>3, <1>5, <3>2 DEF Kept
    <2>2. CASE c.index # r.idx
      <3>1. [session |-> s, index |-> c.index, raw |-> c.raw] \in stage =>
              [session |-> s, index |-> c.index, raw |-> c.raw] \in Unstage(Session(r), r.idx)
        BY <2>2 DEF Unstage
      <3>2. QED
        BY <1>3, <1>6, <3>1 DEF Kept
    <2>3. QED
      BY <2>1, <2>2
  <1>7. QED
    BY <1>3, <1>6, BytesQuiet

\* An upload, or one that fails, replaces the object of the chunk at hand only,
\* which is staged.
LEMMA BytesTransfer ==
  ASSUME CInv, JInv, StInv, BytesSurvive, NEW p \in Proc,
         \/ Upload(p) \/ UploadManifest(p)
         \/ Error(p) /\ remote' # remote
  PROVE  BytesSurvive'
  <1> DEFINE r == run[p]
             name == IF r.pc = "upload" THEN ThisName(r) ELSE ManifestName(Session(r))
  <1>1. r.pc \in {"upload", "manifest"} /\ r.pc \in InSession
    BY StoringFacts DEF Upload, UploadManifest, Error, At, InSession, Phase
  <1>2. /\ r.events = journal /\ journal \in Seq(Line) /\ Shape(journal) /\ r.idx \in Nat
        /\ Session(r) = journal[1].session /\ Tidy(r.pc, r) /\ Knows(r.pc, r)
    BY <1>1, StRunning
  <1>3. PICK body : remote' = Put(remote, name, body)
    BY StoringFacts DEF Upload, UploadManifest, Transfer, Error, At
  <1>4. UNCHANGED <<journal, stage>>
    BY DEF Upload, UploadManifest, Error, file, staging
  <1>5. ASSUME NEW n \in 2..Len(journal), Kept(journal[1].session, journal[n].chunk)
        PROVE  Kept(journal[1].session, journal[n].chunk)'
    <2> DEFINE s == journal[1].session
               c == journal[n].chunk
    <2>1. CASE r.pc = "upload" /\ c.index = r.idx
      <3>1. n \in EventsOf(journal, r.idx)
        BY <2>1 DEF EventsOf
      <3>2. c = ChunkOf(journal, r.idx)
        BY <1>2, <3>1, ThisChunk
      <3>3. Staged(r, This(r).raw) \in stage
        BY <1>2, <2>1 DEF Tidy
      <3>4. Staged(r, This(r).raw) = [session |-> s, index |-> c.index, raw |-> c.raw]
        BY <1>2, <2>1, <3>2 DEF Staged, This
      <3>5. QED
        BY <1>4, <3>3, <3>4 DEF Kept
    <2>2. CASE r.pc = "manifest" \/ c.index # r.idx
      <3>1. ChunkName(s, c) # name
        <4>1. CASE r.pc = "manifest"
          BY <4>1, NamesDiffer
        <4>2. CASE r.pc = "upload"
          <5>1. ChunkOf(journal, r.idx).index = r.idx
            BY <1>2, <4>2, ThisChunk DEF Knows, Pending
          <5>2. name = ChunkName(Session(r), ChunkOf(journal, r.idx))
            BY <1>2, <4>2 DEF ThisName, This
          <5>3. QED
            BY <2>2, <4>2, <5>1, <5>2, NamesDiffer
        <4>3. QED
          BY <1>1, <4>1, <4>2
      <3> HIDE DEF name
      <3>2. Secured(remote, s, c) => Secured(remote', s, c)
        BY <1>3, <3>1, PutSecures
      <3>3. QED
        BY <1>4, <1>5, <3>2 DEF Kept
    <2>3. QED
      BY <1>1, <2>1, <2>2
  <1>6. QED
    BY <1>4, <1>5, BytesQuiet

\* An orphaned upload stores an object with its true bytes, or spoils it.
LEMMA BytesOrphan ==
  ASSUME SInv, BytesSurvive, OrphanEnds
  PROVE  BytesSurvive'
  <1>1. UNCHANGED <<journal, stage>>
    BY DEF OrphanEnds, file, staging
  <1>2. \A n \in 2..Len(journal) : Kept(journal[1].session, journal[n].chunk) =>
                                    Kept(journal[1].session, journal[n].chunk)'
    BY <1>1, OrphanSpares DEF Kept
  <1>3. QED
    BY <1>1, <1>2, BytesQuiet

\* A line is written about a chunk that is staged, or again about one that is kept.
LEMMA BytesAppend ==
  ASSUME CInv, JInv, StInv, BytesSurvive, NEW p \in Proc,
         AppendPrepared(p) \/ AppendUploaded(p) \/ AppendVerified(p)
  PROVE  BytesSurvive'
  <1> DEFINE r == run[p]
             L == Len(journal)
  <1>1. r.pc \in {"prepared", "uploaded", "verified"} /\ r.pc \in InSession /\ ~At(p, "idle")
    BY DEF AppendPrepared, AppendUploaded, AppendVerified, At, InSession, Phase
  <1>2. /\ r.events = journal /\ journal \in Seq(Line) /\ Shape(journal) /\ r.idx \in Nat
        /\ Session(r) = journal[1].session /\ Tidy(r.pc, r) /\ Knows(r.pc, r) /\ journal # <<>>
    BY <1>1, StRunning
  <1>3. UNCHANGED <<stage, remote>>
    BY DEF AppendPrepared, AppendUploaded, AppendVerified, staging, net
  <1>4. SUFFICES ASSUME ~StageIsRam
                 PROVE  \A n \in 2..Len(journal') : Kept(journal[1].session, journal[n].chunk)'
    BY KeptFacts
  <1>5. \A n \in 2..L : Kept(journal[1].session, journal[n].chunk)
    BY <1>4, KeptFacts
  <1>6. PICK e : Write(p, e) /\ Kept(journal[1].session, e.chunk)
    <2>1. CASE AppendPrepared(p)
      <3> DEFINE ch == Chunk(r.idx, r.csize, r.buf)
                 e == Event("prepared", ch)
      <3>1. e.chunk = ch /\ ch.index = r.idx /\ ch.raw = r.buf /\ Write(p, e)
        BY <2>1 DEF Event, Chunk, AppendPrepared
      <3>2. Staged(r, r.buf) \in stage
        BY <1>2, <2>1 DEF Tidy, AppendPrepared, At
      <3> HIDE DEF ch, e
      <3>3. Staged(r, r.buf) = [session |-> journal[1].session, index |-> ch.index, raw |-> ch.raw]
        BY <1>2, <3>1 DEF Staged
      <3>4. Kept(journal[1].session, ch)
        BY <3>2, <3>3 DEF Kept
      <3>5. QED
        BY <3>1, <3>4
    <2>2. CASE AppendUploaded(p) \/ AppendVerified(p)
      <3>1. EventsOf(journal, r.idx) # {}
        BY <1>2, <2>2 DEF Knows, Pending, AppendUploaded, AppendVerified, At
      <3>2. PICK n \in EventsOf(journal, r.idx) : journal[n].chunk = This(r)
        BY <1>2, <3>1, ThisChunk DEF This
      <3>3. Kept(journal[1].session, This(r))
        BY <1>5, <3>2 DEF EventsOf
      <3>4. PICK e : Write(p, e) /\ e.chunk = This(r)
        BY <2>2 DEF AppendUploaded, AppendVerified, Event
      <3>5. QED
        BY <3>3, <3>4
    <2>3. QED
      BY <2>1, <2>2
  <1>7. /\ Len(journal') = L + 1 /\ L \in Nat \ {0}
        /\ \A n \in 1..L : journal'[n] = journal[n]
        /\ journal'[L + 1] = e
    BY <1>1, <1>2, <1>6, WriteFacts
  <1> HIDE DEF L
  <1>8. journal'[1] = journal[1]
    BY <1>7
  <1> SUFFICES ASSUME NEW n \in 2..(L + 1) PROVE Kept(journal[1].session, journal[n].chunk)'
    BY <1>7
  <1>9. Kept(journal'[1].session, journal'[n].chunk)
    <2>1. CASE n <= L
      BY <1>5, <1>7, <1>8, <2>1
    <2>2. CASE n = L + 1
      BY <1>6, <1>7, <1>8, <2>2
    <2>3. QED
      BY <1>7, <2>1, <2>2
  <1>10. QED
    BY <1>3, <1>9 DEF Kept

\* The other steps leave both the files and the objects alone, or have no
\* line to answer for.
LEMMA BytesOther ==
  ASSUME CInv, JInv, BytesSurvive,
         \/ UNCHANGED vars \/ SourceWrite \/ PowerLoss
         \/ \E p \in Proc :
              \/ Open(p) \/ GetIdentity(p) \/ NewHeader(p) \/ Replay(p) \/ Fsync(p) \/ NextChunk(p)
              \/ Read(p) \/ Recheck(p) \/ Reconcile(p) \/ CheckStaged(p) \/ Verify(p) \/ Final(p)
              \/ Report(p) \/ Kill(p)
  PROVE  BytesSurvive'
  <1>1. CASE UNCHANGED <<journal, stage, remote>>
    BY <1>1, BytesQuiet DEF Kept
  <1>2. ASSUME NEW p \in Proc, NewHeader(p) PROVE BytesSurvive'
    <2>1. ~At(p, "idle") /\ run[p].pc = "header"
      BY <1>2 DEF NewHeader, At
    <2>2. journal = <<>>
      BY <2>1, Running DEF Knows
    <2>3. PICK e : journal' = Append(journal, e)
      BY <1>2 DEF NewHeader, Write
    <2>3a. Len(journal') = 1
      BY <2>2, <2>3
    <2>4. QED
      BY <2>3a, KeptFacts
  <1>3. CASE PowerLoss
    <2>1. PICK n \in durable..Len(journal) : journal' = SubSeq(journal, 1, n)
      BY <1>3 DEF PowerLoss
    <2>2. journal \in Seq(Line) /\ durable \in 0..Len(journal) /\ Shape(journal)
      BY DEF CInv, TypeOK
    <2>3. n \in 0..Len(journal) /\ Len(journal') = n /\ \A k \in 1..n : journal'[k] = journal[k]
      BY <2>1, <2>2, PrefixShape
    <2>4. SUFFICES ASSUME ~StageIsRam, NEW k \in 2..n
                   PROVE  Kept(journal[1].session, journal[k].chunk)'
      BY <2>3, KeptFacts
    <2>5. Kept(journal[1].session, journal[k].chunk)
      BY <2>3, <2>4, KeptFacts
    <2>6. journal'[1] = journal[1] /\ journal'[k] = journal[k]
      BY <2>3
    <2>7. UNCHANGED <<stage, remote>>
      BY <1>3, <2>4 DEF PowerLoss
    <2>8. QED
      BY <2>5, <2>6, <2>7 DEF Kept
  <1>4. CASE UNCHANGED vars \/ SourceWrite
    BY <1>1, <1>4 DEF vars, SourceWrite, file, staging, net
  <1>5. ASSUME NEW p \in Proc,
               \/ Open(p) \/ GetIdentity(p) \/ Replay(p) \/ Fsync(p) \/ NextChunk(p)
               \/ Read(p) \/ Recheck(p) \/ Reconcile(p) \/ CheckStaged(p) \/ Verify(p) \/ Final(p)
               \/ Report(p) \/ Kill(p)
        PROVE  UNCHANGED <<journal, stage, remote>>
    BY <1>5 DEF Open, GetIdentity, Replay, Fsync, NextChunk, Read, Recheck, Reconcile, CheckStaged,
                Verify, Final, Report, Kill, file, staging, net
  <1>6. QED
    BY <1>1, <1>2, <1>3, <1>4, <1>5

\* Every step leaves the bytes of the journaled chunks somewhere.
LEMMA NextBytes ==
  CInv /\ SInv /\ JInv /\ StInv /\ BytesSurvive /\ [Next]_vars => BytesSurvive'
  <1> SUFFICES ASSUME CInv, SInv, JInv, StInv, BytesSurvive, [Next]_vars PROVE BytesSurvive'
    OBVIOUS
  <1>1. ASSUME NEW p \in Proc, Open(p) \/ Step(p) \/ Error(p) \/ Kill(p)
        PROVE  BytesSurvive'
    <2>1. CASE Error(p)
      <3>1. CASE remote' = remote
        <4>1. UNCHANGED <<journal, stage>>
          BY <2>1 DEF Error
        <4>2. \A n \in 2..Len(journal) : Kept(journal[1].session, journal[n].chunk) =>
                                          Kept(journal[1].session, journal[n].chunk)'
          BY <3>1, <4>1 DEF Kept
        <4>3. QED
          BY <4>1, <4>2, BytesQuiet
      <3>2. QED
        BY <2>1, <3>1, BytesTransfer
    <2>2. QED
      BY <1>1, <2>1, BytesPublish, BytesClean, BytesTransfer, BytesAppend, BytesOther DEF Step
  <1>2. CASE OrphanEnds
    BY <1>2, BytesOrphan
  <1>3. QED
    BY <1>1, <1>2, BytesOther DEF Next

-----------------------------------------------------------------------------
(* Announced manifests *)

\* Chunks of two sessions have different names.
LEMMA SessionsDiffer ==
  ASSUME NEW s, NEW t, NEW c, NEW d, s # t
  PROVE  ChunkName(s, c) # ChunkName(t, d)
  BY DEF ChunkName

\* The manifest of a process that is through with the loop.
LEMMA ManifestFacts ==
  ASSUME CInv, JInv, NEW p \in Proc, run[p].pc \in After
  PROVE  /\ Layouted(Manifest(run[p]).chunks)
         /\ Manifest(run[p]).header = journal[1]
         /\ AllVerified(Manifest(run[p]))
         /\ journal # <<>>
  <1> DEFINE r == run[p]
             ev == r.events
             N == r.idx
             c == r.csize
             ch == [k \in 1..N |-> ChunkOf(ev, k - 1)]
  <1>1. ~At(p, "idle")
    BY DEF After, At
  <1>2. /\ ev = journal /\ journal \in Seq(Line) /\ Shape(journal) /\ N \in Nat /\ c \in ChunkSizes
        /\ Knows(r.pc, r) /\ Placed(r.pc, r)
    BY <1>1, JRunning
  <1>3. /\ ev # <<>> /\ ev[1].chunk_size = c /\ Through(ev, N) /\ Beyond(N, c)
        /\ N > 0 => ~Beyond(N - 1, c)
    BY <1>2 DEF Knows, Placed, After, InSession, Phase
  <1>4. Manifest(r).header = ev[1] /\ Manifest(r).chunks = ch
    BY DEF Manifest
  <1>5. Laid(ev)
    BY <1>2 DEF JInv
  <1> HIDE DEF N, c, ev
  <1>6. ASSUME NEW i \in 0..(N - 1)
        PROVE  /\ ChunkOf(ev, i).offset = Offset(i, c)
               /\ ChunkOf(ev, i).length = Length(i, c)
               /\ \E n \in 2..Len(ev) : ev[n].state = "verified" /\ ev[n].chunk = ChunkOf(ev, i)
    <2>1. PICK n \in 2..Len(ev) : ev[n].chunk.index = i /\ ev[n].state = "verified"
      BY <1>3 DEF Through, Verified
    <2>2. n \in EventsOf(ev, i) /\ i \in Nat
      BY <1>2, <2>1 DEF EventsOf
    <2>3. ev[n].chunk = ChunkOf(ev, i)
      BY <1>2, <2>2, ThisChunk
    <2>4. ValidChunk(ev[n].chunk, i, c)
      BY <1>3, <1>5, <2>1 DEF Laid
    <2>5. QED
      BY <2>1, <2>3, <2>4 DEF ValidChunk
  <1>7. N > 0
    <2>1. 0 \in Nat /\ Offset(0, c) = 0 /\ Size > 0 /\ Size \in Nat
      BY <1>2, LayoutFacts, RecoverAssumption
    <2>2. ~Beyond(0, c)
      BY <2>1 DEF Beyond
    <2>3. N # 0
      BY <1>3, <2>2
    <2>4. QED
      BY <1>2, <2>3
  <1>8. Len(ch) = N /\ ch # <<>> /\ \A k \in 1..N : ch[k] = ChunkOf(ev, k - 1)
    <2>1. Len(ch) = N /\ \A k \in 1..N : ch[k] = ChunkOf(ev, k - 1)
      BY <1>2
    <2> HIDE DEF ch
    <2>2. ch # <<>>
      BY <1>7, <2>1
    <2>3. QED
      BY <2>1, <2>2
  <1> HIDE DEF ch
  <1>9. \A k \in 1..N : ch[k].offset = Offset(k - 1, c) /\ ch[k].length = Length(k - 1, c)
    <2> SUFFICES ASSUME NEW k \in 1..N
                 PROVE  ch[k].offset = Offset(k - 1, c) /\ ch[k].length = Length(k - 1, c)
      OBVIOUS
    <2>1. k - 1 \in 0..(N - 1)
      BY <1>2
    <2>2. QED
      BY <1>6, <1>8, <2>1
  <1>10. ch[1].offset = 0
    <2>1. 1 \in 1..N /\ 1 - 1 = 0
      BY <1>2, <1>7
    <2>2. ch[1].offset = Offset(0, c)
      BY <1>9, <2>1
    <2>3. QED
      BY <1>2, <2>2, LayoutFacts
  <1>11. ch[N].offset + ch[N].length = Size
    <2>1. N - 1 \in Nat /\ N \in 1..N /\ (N - 1) + 1 = N
      BY <1>2, <1>7
    <2>2. /\ Offset(N, c) = Offset(N - 1, c) + c /\ Offset(N - 1, c) \in Nat /\ c \in Nat \ {0}
      BY <1>2, <2>1, LayoutFacts
    <2>3. Offset(N, c) >= Size /\ Size \in Nat
      BY <1>3, RecoverAssumption DEF Beyond
    <2>4. Length(N - 1, c) = Size - Offset(N - 1, c)
      BY <2>2, <2>3 DEF Length
    <2>5. QED
      BY <1>9, <2>1, <2>2, <2>3, <2>4
  <1>12. ASSUME NEW k \in 1..(N - 1)
         PROVE  ch[k + 1].offset = ch[k].offset + ch[k].length
    <2>1. k \in 1..N /\ k + 1 \in 1..N /\ k - 1 \in Nat /\ k \in Nat /\ N - 1 \in Nat /\ k <= N - 1
          /\ (k - 1) + 1 = k /\ (k + 1) - 1 = k
      BY <1>2
    <2>2. /\ Offset(k, c) = Offset(k - 1, c) + c /\ Offset(k - 1, c) \in Nat /\ c \in Nat \ {0}
      BY <1>2, <2>1, LayoutFacts
    <2>3. ~Beyond(k, c)
      BY <1>2, <1>3, <1>7, <2>1, BeyondUp
    <2>4. Offset(k, c) < Size /\ Size \in Nat
      BY <2>2, <2>3, RecoverAssumption DEF Beyond
    <2>5. Length(k - 1, c) = c
      BY <2>2, <2>4 DEF Length
    <2>6. ch[k + 1].offset = Offset(k, c)
      BY <1>9, <2>1
    <2>7. ch[k].offset = Offset(k - 1, c) /\ ch[k].length = c
      BY <1>9, <2>1, <2>5
    <2>8. QED
      BY <2>2, <2>6, <2>7
  <1>13. Layouted(ch)
    BY <1>8, <1>10, <1>11, <1>12 DEF Layouted
  <1>14. AllVerified(Manifest(r))
    <2> SUFFICES ASSUME NEW k \in 1..N
                 PROVE  \E n \in 2..Len(ev) : ev[n].state = "verified" /\ ev[n].chunk = ch[k]
      BY <1>2, <1>4, <1>8 DEF AllVerified
    <2>1. k - 1 \in 0..(N - 1) /\ ch[k] = ChunkOf(ev, k - 1)
      BY <1>2, <1>8
    <2>2. QED
      BY <1>6, <2>1
  <1>15. QED
    BY <1>2, <1>3, <1>4, <1>13, <1>14

\* Steps that leave the journal alone and keep what is on the remote of the
\* sessions that are over.
LEMMA RepQuiet ==
  ASSUME CInv, RepInv, UNCHANGED <<journal, reported, sessions>>,
         durable' \in Nat, durable' >= durable,
         ASSUME NEW s, NEW c, journal = <<>> \/ journal[1].session # s,
                Secured(remote, s, c)
         PROVE  Secured(remote', s, c)
  PROVE  RepInv'
  <1> SUFFICES ASSUME NEW m \in reported PROVE Announced(m)'
    BY DEF RepInv
  <1>1. Announced(m) /\ durable \in Nat
    BY DEF RepInv, CInv, TypeOK
  <1>2. /\ OfSession(m)' <=> OfSession(m)
        /\ AllVerified(m) => AllVerified(m)'
    BY DEF OfSession, AllVerified
  <1>3. ~OfSession(m) => AllHeld(m)'
    <2> SUFFICES ASSUME ~OfSession(m), NEW k \in 1..Len(m.chunks)
                 PROVE  Secured(remote', m.header.session, m.chunks[k])
      BY DEF AllHeld
    <2>1. Secured(remote, m.header.session, m.chunks[k])
      BY <1>1 DEF Announced, AllHeld
    <2>2. journal = <<>> \/ journal[1].session # m.header.session
      BY DEF OfSession
    <2>3. QED
      BY <2>1, <2>2
  <1>4. OfSession(m) => durable' >= 1 \/ AllVerified(m)'
    BY <1>1, <1>2 DEF Announced
  <1>5. QED
    BY <1>1, <1>2, <1>3, <1>4 DEF Announced

\* The steps that leave the journal and the announcements alone.
LEMMA RepQuietSteps ==
  ASSUME CInv, SInv, JInv, RepInv,
         \/ UNCHANGED vars \/ OrphanEnds \/ SourceWrite
         \/ \E p \in Proc :
              \/ Open(p) \/ GetIdentity(p) \/ Replay(p) \/ Fsync(p) \/ NextChunk(p) \/ Read(p)
              \/ Publish(p) \/ Recheck(p) \/ Reconcile(p) \/ CheckStaged(p) \/ Upload(p) \/ Verify(p)
              \/ Clean(p) \/ Final(p) \/ UploadManifest(p) \/ Error(p) \/ Kill(p)
  PROVE  RepInv'
  <1>1. journal \in Seq(Line) /\ durable \in 0..Len(journal)
    BY DEF CInv, TypeOK
  <1>2. CASE UNCHANGED vars \/ OrphanEnds \/ SourceWrite
    <2>1. UNCHANGED <<journal, reported, sessions, durable>>
      BY <1>2 DEF vars, OrphanEnds, SourceWrite, file, net
    <2>2. ASSUME NEW s, NEW c, Secured(remote, s, c)
          PROVE  Secured(remote', s, c)
      BY <1>2, <2>2, OrphanSpares DEF vars, SourceWrite, net
    <2>3. durable' \in Nat /\ durable' >= durable
      BY <1>1, <2>1
    <2>4. QED
      BY <2>1, <2>2, <2>3, RepQuiet
  <1>3. ASSUME NEW p \in Proc, Open(p) \/ Fsync(p)
        PROVE  RepInv'
    <2>1. UNCHANGED <<journal, reported, sessions, remote>>
      BY <1>3 DEF Open, Fsync, net
    <2>2. durable' = durable \/ durable' = Len(journal)
      BY <1>3, Zenon DEF Open, Fsync, CutTorn
    <2>3. durable' \in Nat /\ durable' >= durable
      BY <1>1, <2>2
    <2>4. QED
      BY <2>1, <2>3, RepQuiet
  <1>4. ASSUME NEW p \in Proc,
               \/ GetIdentity(p) \/ Replay(p) \/ NextChunk(p) \/ Read(p)
               \/ Publish(p) \/ Recheck(p) \/ Reconcile(p) \/ CheckStaged(p) \/ Verify(p)
               \/ Clean(p) \/ Final(p) \/ Kill(p)
        PROVE  RepInv'
    <2>1. UNCHANGED <<journal, reported, sessions, remote, durable>>
      BY <1>4 DEF GetIdentity, Replay, NextChunk, Read, Publish, Recheck, Reconcile, CheckStaged, Verify,
                  Clean, Final, Kill, net, file
    <2>2. durable' \in Nat /\ durable' >= durable
      BY <1>1, <2>1
    <2>3. QED
      BY <2>1, <2>2, RepQuiet
  <1>5. ASSUME NEW p \in Proc, Upload(p) \/ UploadManifest(p) \/ Error(p)
        PROVE  RepInv'
    <2>1. UNCHANGED <<journal, reported, sessions, durable>>
      BY <1>5 DEF Upload, UploadManifest, Error, Transfer, file
    <2>2. ASSUME NEW s, NEW c, journal = <<>> \/ journal[1].session # s,
                 Secured(remote, s, c)
          PROVE  Secured(remote', s, c)
      <3>1. CASE remote' = remote
        BY <2>2, <3>1
      <3>2. CASE remote' # remote
        <4>1. PICK name, body :
                /\ run[p].pc \in {"upload", "manifest"}
                /\ name = IF run[p].pc = "upload" THEN ThisName(run[p]) ELSE ManifestName(Session(run[p]))
                /\ remote' = Put(remote, name, body)
          <5>1. CASE Upload(p) \/ UploadManifest(p)
            BY <5>1 DEF Upload, UploadManifest, Transfer, At
          <5>2. CASE Error(p)
            BY <3>2, <5>2, StoringFacts DEF Error
          <5>3. QED
            BY <1>5, <5>1, <5>2
        <4>2. ~At(p, "idle")
          BY <4>1 DEF At
        <4>3. run[p].events = journal /\ journal # <<>>
          BY <4>1, <4>2, JRunning DEF Knows
        <4>4. ChunkName(s, c) # name
          <5>1. CASE run[p].pc = "manifest"
            BY <4>1, <5>1, NamesDiffer
          <5>2. CASE run[p].pc = "upload"
            <6>1. name = ChunkName(journal[1].session, This(run[p])) /\ journal[1].session # s
              BY <2>2, <4>1, <4>3, <5>2 DEF ThisName, Session
            <6>2. QED
              BY <6>1, SessionsDiffer
          <5>3. QED
            BY <4>1, <5>1, <5>2
        <4>5. QED
          BY <2>2, <4>1, <4>4, PutSecures
      <3>3. QED
        BY <3>1, <3>2
    <2>3. durable' \in Nat /\ durable' >= durable
      BY <1>1, <2>1
    <2>4. QED
      BY <2>1, <2>2, <2>3, RepQuiet
  <1>6. QED
    BY <1>2, <1>3, <1>4, <1>5

\* A manifest is announced when its chunks are verified in the journal.
LEMMA RepReport ==
  ASSUME CInv, JInv, RepInv, NEW p \in Proc, Report(p)
  PROVE  RepInv'
  <1>1. run[p].pc \in After
    BY DEF Report, At, After
  <1>2. /\ Layouted(Manifest(run[p]).chunks) /\ Manifest(run[p]).header = journal[1]
        /\ AllVerified(Manifest(run[p])) /\ journal # <<>>
    BY <1>1, ManifestFacts
  <1>3. /\ UNCHANGED <<journal, durable, sessions, remote>>
        /\ reported' \subseteq reported \cup {Manifest(run[p])}
    BY DEF Report, file
  <1>4. Announced(Manifest(run[p]))
    <2>1. journal[1].session \in 1..sessions
      BY <1>2 DEF JInv, Headed
    <2>2. OfSession(Manifest(run[p]))
      BY <1>2 DEF OfSession
    <2>3. QED
      BY <1>2, <2>1, <2>2 DEF Announced
  <1>5. \A m \in reported' : Announced(m)
    BY <1>3, <1>4 DEF RepInv
  <1>6. \A m \in reported' : Announced(m)'
    <2> SUFFICES ASSUME NEW m \in reported', Announced(m) PROVE Announced(m)'
      BY <1>5
    <2>1. (OfSession(m)' <=> OfSession(m)) /\ (AllVerified(m)' <=> AllVerified(m)) /\ (AllHeld(m)' <=> AllHeld(m))
      BY <1>3 DEF OfSession, AllVerified, AllHeld
    <2>2. QED
      BY <1>3, <2>1 DEF Announced
  <1>7. QED
    BY <1>6 DEF RepInv

\* A new session leaves those that are over alone.
LEMMA RepNewHeader ==
  ASSUME CInv, JInv, RepInv, NEW p \in Proc, NewHeader(p)
  PROVE  RepInv'
  <1> DEFINE e == Header(sessions + 1, run[p].ident, run[p].csize)
  <1>1. ~At(p, "idle") /\ run[p].pc = "header"
    BY DEF NewHeader, At
  <1>2. journal = <<>> /\ sessions \in Nat
    BY <1>1, Running DEF Knows, CInv, TypeOK
  <1>3. e.session = sessions + 1
    BY DEF Header
  <1>4. Write(p, e) /\ UNCHANGED <<remote, reported>> /\ sessions' = sessions + 1
    BY DEF NewHeader, net
  <1> HIDE DEF e
  <1>5. journal' = Append(journal, e)
    BY <1>1, <1>4, WriteIs
  <1>6. journal' # <<>> /\ journal'[1].session = sessions + 1
    BY <1>2, <1>3, <1>5
  <1> SUFFICES ASSUME NEW m \in reported PROVE Announced(m)'
    BY <1>4 DEF RepInv
  <1>7. Announced(m) /\ ~OfSession(m)
    BY <1>2 DEF RepInv, OfSession
  <1>8. ~OfSession(m)'
    BY <1>2, <1>6, <1>7 DEF OfSession, Announced
  <1>9. AllHeld(m)'
    BY <1>4, <1>7 DEF Announced, AllHeld
  <1>10. QED
    BY <1>2, <1>4, <1>7, <1>8, <1>9 DEF Announced

\* A line about a chunk leaves the session and its lines.
LEMMA RepAppend ==
  ASSUME CInv, JInv, RepInv, NEW p \in Proc,
         AppendPrepared(p) \/ AppendUploaded(p) \/ AppendVerified(p)
  PROVE  RepInv'
  <1>1. run[p].pc \in {"prepared", "uploaded", "verified"} /\ ~At(p, "idle")
    BY DEF AppendPrepared, AppendUploaded, AppendVerified, At
  <1>2. journal \in Seq(Line) /\ journal # <<>>
    BY <1>1, JRunning DEF Knows
  <1>3. UNCHANGED <<remote, reported, sessions>>
    BY DEF AppendPrepared, AppendUploaded, AppendVerified, net
  <1>4. PICK e : Write(p, e)
    BY DEF AppendPrepared, AppendUploaded, AppendVerified
  <1>5. journal' = Append(journal, e) /\ durable' = durable
    BY <1>1, <1>4, WriteIs
  <1>6. /\ journal' # <<>> /\ journal'[1] = journal[1] /\ Len(journal') = Len(journal) + 1
        /\ \A n \in 2..Len(journal) : n \in 2..Len(journal') /\ journal'[n] = journal[n]
    BY <1>2, <1>5
  <1> SUFFICES ASSUME NEW m \in reported PROVE Announced(m)'
    BY <1>3 DEF RepInv
  <1>7. Announced(m)
    BY DEF RepInv
  <1>8. OfSession(m)' <=> OfSession(m)
    BY <1>2, <1>6 DEF OfSession
  <1>9. AllVerified(m) => AllVerified(m)'
    BY <1>6 DEF AllVerified
  <1>10. AllHeld(m) => AllHeld(m)'
    BY <1>3 DEF AllHeld
  <1>11. QED
    BY <1>3, <1>5, <1>7, <1>8, <1>9, <1>10 DEF Announced

\* A power loss ends a session only when its header is lost, and then it had
\* all its "verified" lines until now.
LEMMA RepPowerLoss ==
  ASSUME CInv, SInv, RepInv, PowerLoss
  PROVE  RepInv'
  <1>1. PICK n \in durable..Len(journal) : journal' = SubSeq(journal, 1, n) /\ durable' = n
    BY DEF PowerLoss
  <1>2. journal \in Seq(Line) /\ durable \in 0..Len(journal) /\ Shape(journal)
    BY DEF CInv, TypeOK
  <1>3. /\ n \in 0..Len(journal) /\ n \in Nat /\ n >= durable
        /\ Len(journal') = n /\ \A k \in 1..n : journal'[k] = journal[k]
    BY <1>1, <1>2, PrefixShape
  <1>4. UNCHANGED <<remote, reported, sessions>>
    BY DEF PowerLoss
  <1> SUFFICES ASSUME NEW m \in reported PROVE Announced(m)'
    BY <1>4 DEF RepInv
  <1>5. Announced(m)
    BY DEF RepInv
  <1>6. AllHeld(m) => AllHeld(m)'
    BY <1>4 DEF AllHeld
  <1>7. CASE n = 0
    <2>1. journal' = <<>>
      BY <1>1, <1>2, <1>7
    <2>2. ~OfSession(m)'
      BY <2>1 DEF OfSession
    <2>3. OfSession(m) => AllHeld(m)
      <3> SUFFICES ASSUME OfSession(m), NEW k \in 1..Len(m.chunks)
                   PROVE  Secured(remote, m.header.session, m.chunks[k])
        BY DEF AllHeld
      <3>1. AllVerified(m)
        BY <1>2, <1>3, <1>5, <1>7 DEF Announced
      <3>2. PICK i \in 2..Len(journal) : journal[i].state = "verified" /\ journal[i].chunk = m.chunks[k]
        BY <3>1 DEF AllVerified
      <3>3. QED
        BY <3>2 DEF SInv, VerifiedIsStored, OfSession
    <2>4. QED
      BY <1>4, <1>5, <1>6, <2>2, <2>3 DEF Announced
  <1>8. CASE n > 0
    <2>1. journal' # <<>> /\ journal # <<>> /\ journal'[1] = journal[1]
      BY <1>1, <1>2, <1>3, <1>8
    <2>2. OfSession(m)' <=> OfSession(m)
      BY <2>1 DEF OfSession
    <2>3. durable' >= 1
      BY <1>1, <1>3, <1>8
    <2>4. QED
      BY <1>4, <1>5, <1>6, <2>2, <2>3 DEF Announced
  <1>9. QED
    BY <1>3, <1>7, <1>8

\* Every step preserves what is said of announced manifests.
LEMMA NextRepInv == CInv /\ SInv /\ JInv /\ RepInv /\ [Next]_vars => RepInv'
  <1> SUFFICES ASSUME CInv, SInv, JInv, RepInv, [Next]_vars PROVE RepInv'
    OBVIOUS
  <1>1. ASSUME NEW p \in Proc, Open(p) \/ Step(p) \/ Error(p) \/ Kill(p)
        PROVE  RepInv'
    BY <1>1, RepQuietSteps, RepReport, RepNewHeader, RepAppend DEF Step
  <1>2. QED
    BY <1>1, RepQuietSteps, RepPowerLoss DEF Next

\* The part of an announcement that a reader of the remote relies on.
LEMMA AnnouncedIsComplete ==
  ASSUME SInv, RepInv
  PROVE  ReportedIsComplete
  <1> SUFFICES ASSUME NEW m \in reported
               PROVE  /\ Layouted(m.chunks)
                      /\ \A k \in 1..Len(m.chunks) :
                           \/ Secured(remote, m.header.session, m.chunks[k])
                           \/ /\ journal # <<>> /\ journal[1].session = m.header.session
                              /\ \A n \in 2..Len(journal) :
                                   journal[n].state = "verified" => journal[n].chunk # m.chunks[k]
    BY DEF ReportedIsComplete, Layouted
  <1>1. Announced(m)
    BY DEF RepInv
  <1>2. CASE ~OfSession(m)
    BY <1>1, <1>2 DEF Announced, AllHeld
  <1>3. CASE OfSession(m)
    BY <1>1, <1>3 DEF Announced, OfSession, SInv, VerifiedIsStored
  <1>4. QED
    BY <1>2, <1>3

-----------------------------------------------------------------------------
(* Theorems *)

\* Nothing is stored or announced, and nothing staged, before the first run.
LEMMA InitOthers == Init => SInv /\ StInv /\ BytesSurvive /\ RepInv
  <1> SUFFICES ASSUME Init PROVE SInv /\ StInv /\ BytesSurvive /\ RepInv
    OBVIOUS
  <1>1. SInv
    BY DEF Init, SInv, Honest, VerifiedIsStored, ReadBack, At, Idle
  <1>2. BytesSurvive
    BY DEF Init, BytesSurvive
  <1>3. QED
    BY <1>1, <1>2, InitStInv DEF Init, RepInv

\* When a helper is through with the chunks, no file of its session is left in
\* the staging directory, whatever earlier runs of the session left there.
THEOREM StagingCleaned == Spec => []StagingIsClean
  BY InitCInv, InitJInv, InitOthers, NextCInv, NextJInv, NextStInv, CleanAtTheEnd, PTL DEF Spec

\* With persistent staging the bytes of a journaled chunk are always in the
\* staged file or on the remote, never in the failing source alone.
THEOREM BytesKept == Spec => []BytesSurvive
  BY InitCInv, InitJInv, InitOthers, NextCInv, NextJInv, NextSInv, NextStInv, NextBytes, PTL DEF Spec

\* A manifest that was announced covers the image without gap or overlap, and
\* its chunks are on the remote unless the journal has them as unfinished.
THEOREM AnnouncementsHold == Spec => []ReportedIsComplete
  BY InitCInv, InitJInv, InitOthers, NextCInv, NextJInv, NextSInv, NextRepInv, AnnouncedIsComplete,
     PTL DEF Spec

=============================================================================
