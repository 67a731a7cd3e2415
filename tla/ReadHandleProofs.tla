-------------------------- MODULE ReadHandleProofs --------------------------
(***************************************************************************)
(* A read handle implements the abstract file: what ReadAt returns are the *)
(* bytes of the file at its offset, whatever the goroutine that reads      *)
(* ahead, the seeks, the retries and the other calls do.  And the pool's   *)
(* counters agree with who holds its memory.                               *)
(***************************************************************************)
EXTENDS ReadHandle, TLAPS

-----------------------------------------------------------------------------
(* The reader: the buffers it holds are a piece of the file without a gap *)

Buffer == [base : Nat, len : Nat, off : Nat, e : {"none", "eof", "io"}]

RTypes ==
  /\ source \in [open : BOOLEAN, pos : 0..Size]
  /\ filler \in {"select", "get", "read", "exited"} /\ size \in Nat
  /\ ready \in Seq(Buffer) /\ cur \in Buffer \cup {Nil}
  /\ err \in {"none", "eof", "io"} /\ exit \in BOOLEAN /\ faults \in Nat

\* Where the buffers in the channel begin, and where the next Read begins.
ReadyStart == IF ready = <<>> THEN source.pos ELSE ready[1].base
At == IF cur = Nil THEN ReadyStart ELSE cur.base + cur.off

\* Each buffer begins where the one before it ends, within the file.
Linked ==
  /\ \A i \in 1..Len(ready) :
       /\ ready[i].off = 0 /\ ready[i].base + ready[i].len <= Size
       /\ ready[i].base + ready[i].len = IF i < Len(ready) THEN ready[i + 1].base ELSE source.pos
  /\ cur # Nil => cur.base + cur.len = ReadyStart /\ cur.off <= cur.len /\ cur.base + cur.len <= Size

\* Nothing comes after an error.
Ends ==
  /\ \A i \in 1..Len(ready) : ready[i].e # "none" => i = Len(ready) /\ filler = "exited"
  /\ cur # Nil /\ cur.e # "none" => ready = <<>> /\ filler = "exited" /\ (IsEmpty(cur) => err # "none")
  /\ err # "none" => IsEmpty(cur) /\ ready = <<>> /\ filler = "exited"

RInv == RTypes /\ Linked /\ Ends

\* Nothing will come from the reader any more.
Dead == ready = <<>> /\ filler = "exited" /\ (cur = Nil \/ (IsEmpty(cur) /\ err # "none"))

\* The reader has met no failure, and if it has ended it is because the file ended.
Fresh ==
  /\ ~exit
  /\ \A i \in 1..Len(ready) : ready[i].e # "none" => ready[i].e = "eof" /\ ready[i].base + ready[i].len = Size
  /\ cur # Nil /\ cur.e # "none" => cur.e = "eof" /\ cur.base + cur.len = Size
  /\ err # "none" => err = "eof" /\ source.pos = Size
  /\ filler = "exited" => \/ ready # <<>> /\ ready[Len(ready)].e # "none"
                          \/ ready = <<>> /\ cur # Nil /\ cur.e # "none"
                          \/ ready = <<>> /\ cur = Nil /\ err # "none"

core == <<source, filler, size, ready, cur, err, exit>>

\* A step of something else.
LEMMA SameReader ==
  ASSUME RInv, UNCHANGED core, faults' \in Nat
  PROVE  RInv' /\ At' = At /\ (Dead' <=> Dead) /\ (Fresh' <=> Fresh)
  BY DEF RInv, RTypes, Linked, Ends, ReadyStart, At, Dead, Fresh, core, IsEmpty

\* A new reader is where its source is.
LEMMA NewReader ==
  ASSUME NEW pos \in 0..Size, New(pos), faults' \in Nat
  PROVE  RInv' /\ At' = pos /\ Fresh'
  <1>1. Buffers \in Nat /\ Size \in Nat
    BY ReaderAssumption
  <1>2. /\ source' = [open |-> TRUE, pos |-> pos] /\ filler' = "select" /\ size' = 1 /\ ready' = <<>> /\ cur' = Nil
        /\ err' = "none" /\ exit' = FALSE
    BY DEF New
  <1>3. RTypes'
    <2>1. source' \in [open : BOOLEAN, pos : 0..Size]
      BY <1>2
    <2>2. <<>> \in Seq(Buffer)
      OBVIOUS
    <2>3. QED
      BY <1>2, <2>1, <2>2 DEF RTypes
  <1>4. QED
    BY <1>2, <1>3 DEF RInv, Linked, Ends, ReadyStart, At, Fresh

\* What the goroutine brings is the next piece of the file.
LEMMA FillFacts ==
  ASSUME RTypes, NEW f \in Fills
  PROVE  /\ f.n \in 0..Rest /\ f.e \in {"none", "eof", "io"} /\ f.fault \in {0, 1}
         /\ f.fault = 0 => f.e = "none" \/ (f.e = "eof" /\ f.n = Rest)
  <1>1. Size \in Nat /\ source.pos \in 0..Size /\ size \in Nat /\ Rest \in Nat
    BY ReaderAssumption DEF RTypes, Rest
  <1>2. CASE f \in [n : {size} \cap 0..Rest, e : {"none"}, fault : {0}]
    BY <1>1, <1>2
  <1>3. CASE f \in [n : {Rest} \cap 0..size, e : {"eof"}, fault : {0}]
    BY <1>1, <1>3
  <1>4. CASE f \in [n : 0..AtMost(size, Rest), e : {"eof", "io"}, fault : {1}]
    BY <1>1, <1>4 DEF AtMost
  <1>5. QED
    BY <1>2, <1>3, <1>4 DEF Fills

\* The goroutine does not move the place where the next Read begins.
LEMMA FillerKeeps ==
  ASSUME RInv, TakeToken \/ Exit \/ GetBuffer \/ Fill
  PROVE  /\ RInv' /\ At' = At /\ ~Dead /\ faults' \in {faults, faults + 1}
         /\ Fresh /\ faults' = faults => Fresh'
  <1>1. RTypes /\ faults \in Nat /\ Len(ready) \in Nat /\ Size \in Nat /\ BufferSize \in Nat /\ source.pos \in 0..Size
    BY ReaderAssumption DEF RInv, RTypes
  <1>2. CASE TakeToken \/ GetBuffer \/ Exit
    <2>1. /\ UNCHANGED <<source, size, ready, cur, err, exit, faults>> /\ filler # "exited"
          /\ filler' \in {"get", "read", "exited"} /\ (filler' = "exited" => exit)
      BY <1>2 DEF TakeToken, GetBuffer, Exit
    <2>2. RTypes' /\ Linked'
      BY <2>1 DEF RInv, RTypes, Linked, ReadyStart
    <2>3. Ends' /\ At' = At /\ ~Dead
      BY <2>1 DEF RInv, Ends, At, ReadyStart, Dead
    <2>4. Fresh => Fresh'
      BY <2>1 DEF Fresh
    <2>5. QED
      BY <1>1, <2>1, <2>2, <2>3, <2>4 DEF RInv
  <1>3. CASE Fill
    <2>1. PICK f \in Fills :
            /\ faults' = faults + f.fault
            /\ source' = [source EXCEPT !.pos = @ + f.n]
            /\ ready' = Append(ready, [base |-> source.pos, len |-> f.n, off |-> 0, e |-> f.e])
            /\ filler' = IF f.e = "none" THEN "select" ELSE "exited"
      BY <1>3 DEF Fill
    <2>2. /\ f.n \in 0..Rest /\ f.e \in {"none", "eof", "io"} /\ f.fault \in {0, 1}
          /\ f.fault = 0 => f.e = "none" \/ (f.e = "eof" /\ f.n = Rest)
      BY <1>1, <2>1, FillFacts
    <2>3. /\ UNCHANGED <<cur, err, exit>> /\ size' = AtMost(2 * size, BufferSize) /\ filler = "read"
      BY <1>3 DEF Fill
    <2> DEFINE b == [base |-> source.pos, len |-> f.n, off |-> 0, e |-> f.e]
    <2>4. b \in Buffer /\ source'.pos = source.pos + f.n /\ source' \in [open : BOOLEAN, pos : 0..Size]
      <3>1. source.pos + f.n \in 0..Size /\ f.n \in Nat
        BY <1>1, <2>2 DEF Rest
      <3>2. source \in [open : BOOLEAN, pos : 0..Size]
        BY DEF RInv, RTypes
      <3>3. source'.pos = source.pos + f.n /\ source' \in [open : BOOLEAN, pos : 0..Size]
        BY <2>1, <3>1, <3>2
      <3>4. b \in Buffer
        BY <1>1, <2>2, <3>1 DEF Buffer
      <3>5. QED
        BY <3>3, <3>4
    <2>5. RTypes'
      BY <1>1, <2>1, <2>2, <2>3, <2>4, SMTT(30) DEF RTypes, AtMost
    <2>6. /\ Len(ready') = Len(ready) + 1 /\ ready'[Len(ready) + 1] = b /\ ready' # <<>>
          /\ \A i \in 1..Len(ready) : ready'[i] = ready[i]
      BY <1>1, <2>1, <2>4 DEF RTypes
    <2>7. ReadyStart' = ReadyStart
      BY <1>1, <2>6 DEF ReadyStart, RTypes
    <2>8. Linked'
      <3>1. ASSUME NEW i \in 1..Len(ready')
            PROVE  /\ ready'[i].off = 0 /\ ready'[i].base + ready'[i].len <= Size
                   /\ ready'[i].base + ready'[i].len = IF i < Len(ready') THEN ready'[i + 1].base ELSE source'.pos
        <4>1. CASE i = Len(ready) + 1
          <5>1. b.base + b.len = source'.pos /\ source'.pos <= Size
            BY <1>1, <2>2, <2>4
          <5>2. QED
            BY <1>1, <2>6, <4>1, <5>1
        <4>2. CASE i < Len(ready)
          <5>1. i \in 1..Len(ready) /\ i + 1 \in 1..Len(ready)
            BY <1>1, <4>2
          <5>2. QED
            BY <1>1, <2>6, <4>2, <5>1 DEF RInv, Linked
        <4>3. CASE i = Len(ready)
          BY <1>1, <2>6, <4>3 DEF RInv, Linked
        <4>4. QED
          BY <1>1, <2>6, <4>1, <4>2, <4>3
      <3>2. QED
        BY <2>3, <2>7, <3>1 DEF RInv, Linked
    <2>9. /\ \A i \in 1..Len(ready) : ready[i].e = "none"
          /\ cur # Nil => cur.e = "none"
          /\ err = "none"
      BY <2>3 DEF RInv, Ends
    <2>10. Ends'
      <3>1. ASSUME NEW i \in 1..Len(ready'), ready'[i].e # "none"
            PROVE  i = Len(ready') /\ filler' = "exited"
        BY <1>1, <2>1, <2>6, <2>9, <3>1
      <3>2. QED
        BY <2>3, <2>9, <3>1 DEF Ends
    <2>11. At' = At /\ ~Dead
      BY <2>3, <2>7 DEF At, Dead
    <2>12. ASSUME Fresh, faults' = faults
           PROVE  Fresh'
      <3>1. f.fault = 0
        BY <1>1, <2>1, <2>2, <2>12
      <3>2. \A i \in 1..Len(ready') : ready'[i].e # "none" => ready'[i].e = "eof" /\ ready'[i].base + ready'[i].len = Size
        BY <1>1, <2>2, <2>6, <2>9, <3>1 DEF Rest
      <3>3. filler' = "exited" => ready'[Len(ready')].e # "none"
        BY <2>1, <2>6
      <3>4. QED
        BY <2>3, <2>6, <2>9, <2>12, <3>2, <3>3 DEF Fresh
    <2>13. QED
      BY <1>1, <2>1, <2>2, <2>5, <2>8, <2>10, <2>11, <2>12 DEF RInv
  <1>4. QED
    BY <1>2, <1>3

\* A buffer that has been read to its end is returned.
LEMMA DropKeeps ==
  ASSUME RInv, cur # Nil, IsEmpty(cur), cur' = Nil, UNCHANGED <<source, filler, size, ready, err, exit, faults>>
  PROVE  RInv' /\ At' = At /\ (Dead => Dead') /\ (Fresh => Fresh')
  <1>1. cur \in Buffer /\ cur.base \in Nat /\ cur.len \in Nat /\ cur.off \in Nat /\ cur.off = cur.len
    BY DEF RInv, RTypes, Linked, Buffer, IsEmpty
  <1>2. RTypes' /\ Linked' /\ ReadyStart' = ReadyStart
    BY DEF RInv, RTypes, Linked, ReadyStart
  <1>3. Ends'
    BY DEF RInv, Ends, IsEmpty
  <1>4. At' = At
    BY <1>1, <1>2 DEF RInv, Linked, At
  <1>5. Dead => Dead'
    BY DEF Dead, IsEmpty
  <1>6. Fresh => Fresh'
    BY DEF Fresh, RInv, Ends
  <1>7. QED
    BY <1>2, <1>3, <1>4, <1>5, <1>6 DEF RInv

\* The buffer that Read and SkipBytes find.
LEMMA ServeFacts ==
  ASSUME RInv, CanServe
  PROVE  /\ Serving \in Buffer /\ Serving # Nil /\ Serving.base + Serving.off = At /\ Serving.off <= Serving.len
         /\ Serving.base + Serving.len <= Size /\ ~Dead
         /\ Serving.e # "none" => filler = "exited"
         /\ cur = Nil => ready # <<>> /\ Serving = ready[1]
         /\ cur # Nil => Serving = cur
         /\ Fresh /\ Serving.e # "none" => Serving.e = "eof" /\ Serving.base + Serving.len = Size
  <1>1. ready \in Seq(Buffer) /\ cur \in Buffer \cup {Nil} /\ Nil \notin Buffer
    BY ReaderAssumption DEF RInv, RTypes, Buffer
  <1>2. CASE cur # Nil
    <2>1. Serving = cur /\ cur \in Buffer /\ ~IsEmpty(cur)
      BY <1>1, <1>2 DEF Serving, CanServe
    <2>2. QED
      BY <1>2, <2>1 DEF RInv, Linked, Ends, At, Dead, Fresh
  <1>3. CASE cur = Nil
    <2>1. ready # <<>> /\ Serving = ready[1] /\ 1 \in 1..Len(ready) /\ ready[1] \in Buffer
      BY <1>1, <1>3 DEF Serving, CanServe
    <2>2. ready[1].off = 0 /\ ready[1].base \in Nat /\ ready[1].len \in Nat
      BY <2>1 DEF RInv, Linked, Buffer
    <2>3. QED
      BY <1>1, <1>3, <2>1, <2>2 DEF RInv, Linked, Ends, At, ReadyStart, Dead, Fresh
  <1>4. QED
    BY <1>2, <1>3

\* Read and SkipBytes move on within a buffer.
LEMMA Advancing ==
  ASSUME RInv, CanServe, NEW n \in Nat, n <= Serving.len - Serving.off,
         cur' = [Serving EXCEPT !.off = @ + n], ready' = IF cur = Nil THEN Tail(ready) ELSE ready,
         err' = IF IsEmpty(cur') THEN Serving.e ELSE err, UNCHANGED <<source, filler, size, faults>>, exit' \in BOOLEAN
  PROVE  RInv' /\ At' = At + n /\ (Fresh /\ ~exit' => Fresh')
  <1>1. /\ ready \in Seq(Buffer) /\ cur \in Buffer \cup {Nil} /\ Nil \notin Buffer /\ Len(ready) \in Nat
    BY ReaderAssumption DEF RInv, RTypes, Buffer
  <1>2. /\ Serving \in Buffer /\ Serving.base + Serving.off = At /\ Serving.off <= Serving.len
        /\ Serving.base + Serving.len <= Size
        /\ Serving.base \in Nat /\ Serving.off \in Nat /\ Serving.len \in Nat /\ Serving.e \in {"none", "eof", "io"}
    BY ServeFacts DEF Buffer
  <1>3. /\ cur' \in Buffer /\ cur'.base = Serving.base /\ cur'.len = Serving.len /\ cur'.off = Serving.off + n
        /\ cur'.e = Serving.e /\ cur' # Nil
    <2>1. Serving.off + n \in Nat
      BY <1>2
    <2>2. cur' \in Buffer
      BY <1>2, <2>1 DEF Buffer
    <2>3. QED
      BY <1>1, <1>2, <2>2 DEF Buffer
  <1>4. cur'.off <= cur'.len /\ cur'.base + cur'.off = At + n
    BY <1>2, <1>3
  <1>5. IsEmpty(cur)' <=> cur'.off >= cur'.len
    BY <1>3 DEF IsEmpty
  <1>6. /\ ready' \in Seq(Buffer) /\ Len(ready') \in Nat
        /\ cur = Nil => /\ ready # <<>> /\ Len(ready') = Len(ready) - 1
                        /\ \A i \in 1..Len(ready') : ready'[i] = ready[i + 1]
        /\ cur # Nil => ready' = ready
    <2>1. CASE cur = Nil
      <3>1. ready # <<>> /\ ready' = Tail(ready)
        BY <2>1, ServeFacts
      <3>2. QED
        BY <1>1, <2>1, <3>1
    <2>2. QED
      BY <1>1, <2>1
  <1>7. RTypes'
    <2>1. err' \in {"none", "eof", "io"}
      BY <1>2 DEF RInv, RTypes
    <2>2. QED
      BY <1>3, <1>6, <2>1 DEF RInv, RTypes
  <1>8. Serving.base + Serving.len = ReadyStart'
    <2>1. CASE cur # Nil
      BY <1>6, <2>1, ServeFacts DEF RInv, Linked, ReadyStart
    <2>2. CASE cur = Nil
      <3>1. Serving = ready[1] /\ 1 \in 1..Len(ready)
        BY <1>1, <1>6, <2>2, ServeFacts
      <3>2. ready[1].base + ready[1].len = IF 1 < Len(ready) THEN ready[1 + 1].base ELSE source.pos
        BY <3>1 DEF RInv, Linked
      <3>3. CASE Len(ready) = 1
        <4>1. ready' = <<>>
          BY <1>6, <2>2, <3>3
        <4>2. QED
          BY <3>1, <3>2, <3>3, <4>1 DEF ReadyStart
      <3>4. CASE Len(ready) # 1
        <4>1. 1 < Len(ready) /\ Len(ready') = Len(ready) - 1
          BY <1>1, <1>6, <2>2, <3>1, <3>4
        <4>2. 1 \in 1..Len(ready')
          BY <1>1, <4>1
        <4>3. ready'[1] = ready[1 + 1]
          BY <1>6, <2>2, <4>2
        <4>4. ready' # <<>>
          <5>1. Len(ready') # 0
            BY <1>1, <4>1
          <5>2. QED
            BY <5>1
        <4>5. QED
          BY <3>1, <3>2, <4>1, <4>3, <4>4 DEF ReadyStart
      <3>5. QED
        BY <3>3, <3>4
    <2>3. QED
      BY <2>1, <2>2
  <1>9. Linked'
    <2>1. ASSUME NEW i \in 1..Len(ready')
          PROVE  /\ ready'[i].off = 0 /\ ready'[i].base + ready'[i].len <= Size
                 /\ ready'[i].base + ready'[i].len = IF i < Len(ready') THEN ready'[i + 1].base ELSE source'.pos
      <3>1. CASE cur # Nil
        BY <1>6, <2>1, <3>1 DEF RInv, Linked
      <3>2. CASE cur = Nil
        <4>1. i + 1 \in 1..Len(ready) /\ ready'[i] = ready[i + 1] /\ (i < Len(ready') <=> i + 1 < Len(ready))
          BY <1>1, <1>6, <2>1, <3>2
        <4>2. i < Len(ready') => ready'[i + 1] = ready[(i + 1) + 1]
          BY <1>6, <2>1, <3>2
        <4>3. QED
          BY <4>1, <4>2 DEF RInv, Linked
      <3>3. QED
        BY <3>1, <3>2
    <2>2. QED
      BY <1>2, <1>3, <1>4, <1>8, <2>1 DEF Linked
  <1>10. At' = At + n
    BY <1>3, <1>4 DEF At
  <1>11. err = "none"
    BY DEF RInv, Ends, CanServe
  <1>12. Serving.e # "none" => ready' = <<>> /\ filler = "exited"
    <2>1. CASE cur # Nil
      BY <1>6, <2>1, ServeFacts DEF RInv, Ends
    <2>2. CASE cur = Nil
      <3>1. Serving = ready[1] /\ 1 \in 1..Len(ready)
        BY <1>1, <1>6, <2>2, ServeFacts
      <3>2. Serving.e # "none" => Len(ready) = 1 /\ filler = "exited"
        BY <3>1 DEF RInv, Ends
      <3>3. QED
        BY <1>6, <2>2, <3>2
    <2>3. QED
      BY <2>1, <2>2
  <1>13. \A i \in 1..Len(ready') : ready'[i].e # "none" => i = Len(ready') /\ filler' = "exited"
    <2>1. CASE cur # Nil
      BY <1>6, <2>1 DEF RInv, Ends
    <2>2. ASSUME cur = Nil, NEW i \in 1..Len(ready'), ready'[i].e # "none"
          PROVE  i = Len(ready') /\ filler' = "exited"
      <3>1. i + 1 \in 1..Len(ready) /\ ready'[i] = ready[i + 1]
        BY <1>1, <1>6, <2>2
      <3>2. i + 1 = Len(ready) /\ filler = "exited"
        BY <2>2, <3>1 DEF RInv, Ends
      <3>3. QED
        BY <1>1, <1>6, <2>2, <3>2
    <2>3. QED
      BY <2>1, <2>2
  <1>14. Ends'
    BY <1>3, <1>11, <1>12, <1>13 DEF Ends
  <1>15. ASSUME Fresh, ~exit'
         PROVE  Fresh'
    <2>1. Serving.e # "none" => Serving.e = "eof" /\ Serving.base + Serving.len = Size
      BY <1>15, ServeFacts
    <2>2. \A i \in 1..Len(ready') : ready'[i].e # "none" => ready'[i].e = "eof" /\ ready'[i].base + ready'[i].len = Size
      <3>1. CASE cur # Nil
        BY <1>6, <1>15, <3>1 DEF Fresh
      <3>2. ASSUME cur = Nil, NEW i \in 1..Len(ready')
            PROVE  ready'[i].e # "none" => ready'[i].e = "eof" /\ ready'[i].base + ready'[i].len = Size
        <4>1. i + 1 \in 1..Len(ready) /\ ready'[i] = ready[i + 1]
          BY <1>1, <1>6, <3>2
        <4>2. QED
          BY <1>15, <4>1 DEF Fresh
      <3>3. QED
        BY <3>1, <3>2
    <2>3. err' # "none" => err' = "eof" /\ source'.pos = Size
      <3>1. err' # "none" => Serving.e # "none" /\ err' = Serving.e
        BY <1>11
      <3>2. Serving.e # "none" => ReadyStart' = source'.pos
        BY <1>12 DEF ReadyStart
      <3>3. QED
        BY <1>8, <2>1, <3>1, <3>2
    <2>4. filler' = "exited" => \/ ready' # <<>> /\ ready'[Len(ready')].e # "none"
                                \/ ready' = <<>> /\ cur' # Nil /\ cur'.e # "none"
                                \/ ready' = <<>> /\ cur' = Nil /\ err' # "none"
      <3>1. CASE filler = "exited" /\ cur # Nil
        BY <1>3, <1>6, <1>15, <3>1, ServeFacts DEF Fresh
      <3>2. CASE filler = "exited" /\ cur = Nil
        <4>1. ready # <<>> /\ ready[Len(ready)].e # "none" /\ Serving = ready[1]
          BY <1>6, <1>15, <3>2, ServeFacts DEF Fresh
        <4>2. CASE Len(ready) = 1
          BY <1>3, <1>6, <3>2, <4>1, <4>2
        <4>3. CASE Len(ready) # 1
          <5>1. Len(ready) # 0
            BY <1>1, <4>1
          <5>2. Len(ready') = Len(ready) - 1
            BY <1>6, <3>2
          <5>3. Len(ready') \in 1..Len(ready') /\ Len(ready') + 1 = Len(ready)
            <6> DEFINE m == Len(ready)
            <6>1. m \in Nat /\ m # 0 /\ m # 1
              BY <1>1, <4>3, <5>1
            <6> HIDE DEF m
            <6>2. m - 1 \in 1..(m - 1) /\ (m - 1) + 1 = m
              BY <6>1
            <6>3. QED
              BY <5>2, <6>2 DEF m
          <5>4. ready' # <<>>
            BY <1>6, <5>3
          <5>5. QED
            BY <1>6, <3>2, <4>1, <5>3, <5>4
        <4>4. QED
          BY <4>2, <4>3
      <3>3. QED
        BY <3>1, <3>2
    <2>5. QED
      BY <1>3, <1>15, <2>1, <2>2, <2>3, <2>4 DEF Fresh
  <1>16. QED
    BY <1>7, <1>9, <1>10, <1>14, <1>15 DEF RInv

\* Read copies from the buffer and moves on; its error comes with the last byte.
LEMMA CopyKeeps ==
  ASSUME RInv, NEW n \in Nat, Copy(n)
  PROVE  /\ RInv' /\ UNCHANGED faults /\ CopyLen(n) \in Nat /\ CopyLen(n) <= n /\ At' = At + CopyLen(n) /\ At' <= Size
         /\ CopyErr(n) # "none" => Dead'
         /\ Fresh => Fresh' /\ (CopyErr(n) # "none" => CopyErr(n) = "eof" /\ At' = Size)
         /\ CopyErr(n) \in {"none", "eof", "io"}
         /\ Serving.base + Serving.off = At /\ At \in Nat
  <1>1. /\ Serving \in Buffer /\ Serving.base + Serving.off = At /\ Serving.off <= Serving.len
        /\ Serving.base + Serving.len <= Size
        /\ Serving.base \in Nat /\ Serving.off \in Nat /\ Serving.len \in Nat /\ Serving.e \in {"none", "eof", "io"}
        /\ Fresh /\ Serving.e # "none" => Serving.e = "eof" /\ Serving.base + Serving.len = Size
    BY ServeFacts DEF Copy, Buffer
  <1>2. /\ CopyLen(n) \in Nat /\ CopyLen(n) <= n /\ CopyLen(n) <= Serving.len - Serving.off
    BY <1>1 DEF CopyLen, AtMost
  <1>3. /\ CanServe /\ cur' = [Serving EXCEPT !.off = @ + CopyLen(n)] /\ ready' = (IF cur = Nil THEN Tail(ready) ELSE ready)
        /\ err' = (IF IsEmpty(cur') THEN CopyErr(n) ELSE err) /\ UNCHANGED <<source, filler, size, exit, faults>>
    BY DEF Copy
  <1>4. cur' # Nil /\ cur'.off = Serving.off + CopyLen(n) /\ cur'.len = Serving.len
    <2>1. Serving.off + CopyLen(n) \in Nat
      BY <1>1, <1>2
    <2>2. cur' \in Buffer
      BY <1>1, <1>3, <2>1 DEF Buffer
    <2>3. QED
      BY <1>1, <1>3, <2>2, ReaderAssumption DEF Buffer
  <1>5. IsEmpty(cur') <=> Serving.off + CopyLen(n) >= Serving.len
    BY <1>4 DEF IsEmpty
  <1>6. err' = IF IsEmpty(cur') THEN Serving.e ELSE err
    BY <1>3, <1>5 DEF CopyErr
  <1>7. exit' \in BOOLEAN
    BY <1>3 DEF RInv, RTypes
  <1>8. RInv' /\ At' = At + CopyLen(n) /\ (Fresh /\ ~exit' => Fresh')
    BY <1>2, <1>3, <1>6, <1>7, Advancing
  <1>9. ASSUME CopyErr(n) # "none"
        PROVE  Dead' /\ CopyErr(n) = Serving.e /\ At' = Serving.base + Serving.len
    <2>1. IsEmpty(cur') /\ CopyErr(n) = Serving.e /\ err' = Serving.e /\ Serving.off + CopyLen(n) = Serving.len
      BY <1>1, <1>2, <1>5, <1>6, <1>9 DEF CopyErr
    <2>2. Dead'
      BY <1>8, <1>9, <2>1 DEF RInv, Ends, Dead
    <2>3. QED
      BY <1>1, <1>2, <1>8, <2>1, <2>2
  <1>10. At \in Nat /\ At + CopyLen(n) <= Size /\ CopyErr(n) \in {"none", "eof", "io"}
    BY <1>1, <1>2, ReaderAssumption DEF CopyErr
  <1>11. Fresh => Fresh'
    BY <1>3, <1>8 DEF Fresh
  <1>12. Fresh => (CopyErr(n) # "none" => CopyErr(n) = "eof" /\ At' = Size)
    BY <1>1, <1>9
  <1>13. QED
    BY <1>1, <1>2, <1>3, <1>8, <1>9, <1>10, <1>11, <1>12

\* SkipBytes moves on as Read does.
LEMMA SkipKeeps ==
  ASSUME RInv, NEW n \in Nat, NEW d, SkipOver(n, d), exit' \in BOOLEAN
  PROVE  RInv' /\ UNCHANGED faults /\ SkipLen(n) \in Nat /\ SkipLen(n) <= n /\ At' = At + SkipLen(n) /\ ~Dead /\ At \in Nat
  <1>1. /\ Serving \in Buffer /\ Serving.off <= Serving.len /\ ~Dead /\ Serving.base + Serving.off = At
        /\ Serving.base \in Nat /\ Serving.off \in Nat /\ Serving.len \in Nat /\ Serving.e \in {"none", "eof", "io"}
    BY ServeFacts DEF SkipOver, Buffer
  <1>2. SkipLen(n) \in Nat /\ SkipLen(n) <= n /\ SkipLen(n) <= Serving.len - Serving.off
    BY <1>1 DEF SkipLen, AtMost
  <1>3. /\ CanServe /\ cur' = [Serving EXCEPT !.off = @ + SkipLen(n)] /\ ready' = (IF cur = Nil THEN Tail(ready) ELSE ready)
        /\ err' = (IF IsEmpty(cur') THEN cur'.e ELSE err) /\ UNCHANGED <<source, filler, size, faults>>
    BY DEF SkipOver
  <1>4. cur'.e = Serving.e
    BY <1>1, <1>3 DEF Buffer
  <1>5. QED
    BY <1>1, <1>2, <1>3, <1>4, Advancing

\* SkipBytes goes back within the buffer.
LEMMA SkipBackKeeps ==
  ASSUME RInv, NEW k \in Int, SkipsBack(k), SkipBack(k), err = "none"
  PROVE  RInv' /\ UNCHANGED faults /\ At' = At + k /\ ~Dead
  <1>1. /\ cur # Nil /\ cur \in Buffer /\ cur.base \in Nat /\ cur.off \in Nat /\ cur.len \in Nat
        /\ cur.off + k \in Nat /\ k < 0 /\ cur.off <= cur.len /\ Nil \notin Buffer
    BY ReaderAssumption DEF RInv, RTypes, Linked, Buffer, SkipsBack
  <1>2. cur' = [cur EXCEPT !.off = @ + k] /\ UNCHANGED <<source, filler, size, ready, err, exit, faults>>
    BY DEF SkipBack
  <1>3. /\ cur' \in Buffer /\ cur' # Nil /\ cur'.base = cur.base /\ cur'.len = cur.len /\ cur'.off = cur.off + k
        /\ cur'.e = cur.e
    BY <1>1, <1>2 DEF Buffer
  <1>4. RTypes'
    BY <1>2, <1>3 DEF RInv, RTypes
  <1>5. Linked'
    BY <1>1, <1>2, <1>3 DEF RInv, Linked, ReadyStart
  <1>6. ~IsEmpty(cur')
    BY <1>1, <1>3 DEF IsEmpty
  <1>7. Ends'
    BY <1>1, <1>2, <1>3, <1>6 DEF RInv, Ends, IsEmpty
  <1>8. At' = At + k /\ ~Dead
    BY <1>1, <1>3 DEF At, Dead
  <1>9. QED
    BY <1>2, <1>4, <1>5, <1>7, <1>8 DEF RInv

\* The buffers are put back; the source may be closed with it.
LEMMA AbandonKeeps ==
  ASSUME RInv, filler = "exited", cur' = Nil, ready' = <<>>, UNCHANGED <<filler, size, err, faults>>, exit' \in BOOLEAN,
         source' \in [open : BOOLEAN, pos : 0..Size]
  PROVE  RInv' /\ Dead'
  <1>1. <<>> \in Seq(Buffer)
    OBVIOUS
  <1>2. RTypes'
    BY <1>1 DEF RInv, RTypes
  <1>3. QED
    BY <1>2 DEF RInv, Linked, Ends, Dead, IsEmpty, ReadyStart

\* The exit channel or the source is closed; the buffers stay.
LEMMA StopKeeps ==
  ASSUME RInv, UNCHANGED <<filler, size, ready, cur, err>>, faults' \in Nat, exit' \in BOOLEAN,
         source' = source \/ source' = [source EXCEPT !.open = FALSE]
  PROVE  RInv' /\ At' = At /\ (Dead' <=> Dead)
  <1>1. source' \in [open : BOOLEAN, pos : 0..Size] /\ source'.pos = source.pos
    BY DEF RInv, RTypes
  <1>2. RTypes' /\ ReadyStart' = ReadyStart
    BY <1>1 DEF RInv, RTypes, ReadyStart
  <1>3. Linked'
    BY <1>1, <1>2 DEF RInv, Linked
  <1>4. QED
    BY <1>2, <1>3 DEF RInv, Ends, At, Dead, IsEmpty

-----------------------------------------------------------------------------
(* The handle: its offset is where the reader is, and p holds the file *)

Request == [off : Nat, n : Nat \ {0}, since : Nat]
Stage == {"none", "open", "seek", "skip", "abandon", "range", "reopen", "full", "close"}

HTypes ==
  /\ owner \in Thread \cup {Closer, Free} /\ stage \in Stage
  /\ call \in [Thread -> Request \cup {Idle}] /\ waiting \subseteq Thread
  /\ got \in Seq(Nat) /\ skip \in Nat /\ retries \in 0..Retries
  /\ offset \in Nat /\ opened \in BOOLEAN /\ closed \in BOOLEAN

\* Who holds the lock is in a call, or closes the handle after all of them.
Owned ==
  /\ stage = "none" <=> owner = Free
  /\ stage = "close" <=> owner = Closer
  /\ owner \notin waiting /\ (stage = "close" => closed)
  /\ \A t \in waiting \cup ({owner} \cap Thread) : call[t] # Idle
  /\ \A t \in Thread : call[t] # Idle => call[t].since <= faults
  /\ closed => \A t \in Thread : call[t] = Idle
  /\ stage \notin {"none", "open"} \/ waiting # {} => opened
  /\ ~opened => offset = 0

\* The next byte of the reader is the one the stage of the call needs, or there is none.
Placed ==
  /\ opened /\ ~closed /\ stage \in {"none", "open"} => Dead \/ At = offset
  /\ stage = "seek" => Dead \/ (retries = 0 /\ At = offset)
  /\ stage = "skip" => Dead \/ At + skip = Off
  /\ stage = "full" => offset = Off /\ (At = Off + Len(got) \/ (Dead /\ retries = 0))
  /\ stage \in {"range", "reopen"} => Dead
  /\ stage \in {"skip", "abandon", "range", "reopen"} => Off < Size
  /\ stage \in {"skip", "abandon", "range"} => retries = 0

\* The file from o on, k bytes of it.
Bytes(o, k) == [i \in 1..k |-> o + i - 1]

\* s is what may be in p during the call.
Piece(s) ==
  /\ s \in Seq(Nat) /\ s = Bytes(Off, Len(s)) /\ Len(s) <= call[owner].n
  /\ s = <<>> \/ Off + Len(s) <= Size

Right ==
  /\ stage \in {"none", "open", "close"} => got = <<>> /\ retries = 0
  /\ stage \notin {"none", "close"} => Piece(got)

\* A retry of a call during which nothing has failed has a reader that has met no failure.
Blame == stage = "full" /\ retries > 0 /\ faults <= call[owner].since => Fresh

HInv == RInv /\ HTypes /\ Owned /\ Placed /\ Right /\ Blame

InCall == stage \notin {"none", "close"}

\* The failures of a step: one or none.
Fails == faults' \in {faults, faults + 1}

\* The thread that holds the lock is in its call.
LEMMA OwnerFacts ==
  ASSUME HTypes, Owned, InCall
  PROVE  /\ owner \in Thread /\ call[owner] \in Request /\ ~closed /\ call[owner] # Idle
         /\ Off \in Nat /\ call[owner].n \in Nat /\ call[owner].n > 0 /\ call[owner].since \in Nat
         /\ call[owner].since <= faults
  <1>1. owner \in Thread
    BY DEF HTypes, Owned, InCall
  <1>2. call[owner] \in Request /\ call[owner] # Idle
    BY <1>1 DEF HTypes, Owned
  <1>3. QED
    BY <1>1, <1>2 DEF HTypes, Owned, Request, Off

\* The call goes on.
LEMMA GoOn ==
  ASSUME HTypes, Owned, InCall, NEW s \in Stage \ {"none", "close"}, Goto(s), opened', closed' = closed, faults \in Nat, Fails,
         got' \in Seq(Nat), skip' \in Nat, retries' \in 0..Retries, offset' \in Nat
  PROVE  HTypes' /\ Owned' /\ InCall' /\ Off' = Off /\ UNCHANGED <<call, owner, answer>>
  <1>1. stage' = s /\ UNCHANGED <<owner, call, waiting, answer>>
    BY DEF Goto
  <1>2. HTypes'
    BY <1>1 DEF HTypes, Goto
  <1>3. owner # Free /\ owner # Closer
    BY DEF InCall, Owned
  <1>4. \A t \in Thread : call'[t] # Idle => call'[t].since <= faults'
    BY <1>1 DEF HTypes, Owned, Request, Fails
  <1>5. opened' = TRUE
    BY DEF HTypes
  <1>6. Owned'
    BY <1>1, <1>3, <1>4, <1>5 DEF Owned
  <1>7. QED
    BY <1>1, <1>2, <1>6 DEF InCall, Off

LEMMA ReturnedKeeps ==
  ASSUME HInv, InCall, NEW data, NEW e, Return(data, e), RInv', Fails, offset' \in Nat, UNCHANGED <<opened, closed>>,
         ~opened => offset' = 0, opened => Dead' \/ At' = offset'
  PROVE  HInv'
  <1>1. owner \in Thread /\ call[owner] # Idle /\ ~closed /\ faults \in Nat /\ retries' = 0 /\ got' = <<>> /\ stage' = "none"
        /\ call' = [call EXCEPT ![owner] = Idle] /\ owner' = Free /\ skip' = 0 /\ waiting' = waiting
    BY OwnerFacts DEF HInv, RInv, RTypes, Return
  <1>2. <<>> \in Seq(Nat) /\ 0 \in 0..Retries
    BY HandleAssumption
  <1>3. HTypes'
    BY <1>1, <1>2 DEF HInv, HTypes, Stage
  <1>4. Owned'
    <2>1. Free # Closer /\ Free \notin Thread /\ waiting \subseteq Thread /\ owner \notin waiting
      BY HandleAssumption DEF HInv, HTypes, Owned
    <2>2. \A t \in Thread : call'[t] = IF t = owner THEN Idle ELSE call[t]
      BY <1>1 DEF HInv, HTypes
    <2>3. \A t \in Thread : call'[t] # Idle => call'[t].since <= faults'
      BY <1>1, <2>2 DEF HInv, HTypes, Owned, Request, Fails
    <2>4. \A t \in waiting' \cup ({owner'} \cap Thread) : call'[t] # Idle
      BY <1>1, <2>1, <2>2 DEF HInv, Owned
    <2>5. waiting' # {} => opened'
      BY <1>1 DEF HInv, Owned
    <2>6. QED
      BY <1>1, <2>1, <2>3, <2>4, <2>5 DEF Owned
  <1>5. Placed' /\ Right' /\ Blame'
    BY <1>1 DEF Placed, Right, Blame
  <1>6. QED
    BY <1>3, <1>4, <1>5 DEF HInv

\* A step of the abstract file, or none.
FileStep == [File!Next]_File!vars

\* What is in p is what the file holds, ...
LEMMA PieceIsContent ==
  ASSUME HTypes, Owned, InCall, NEW s, Piece(s)
  PROVE  s = File!Content(Off, Len(s))
  <1>1. Off \in Nat /\ Size \in Nat /\ Len(s) \in Nat
    BY OwnerFacts, ReaderAssumption DEF Piece
  <1>2. CASE Len(s) = 0
    <2>1. s = <<>>
      BY <1>2 DEF Piece
    <2>2. (IF Off < (IF Off + 0 < Size THEN Off + 0 ELSE Size) THEN (IF Off + 0 < Size THEN Off + 0 ELSE Size) - Off ELSE 0) = 0
      BY <1>1
    <2>3. File!Content(Off, 0) = Bytes(Off, 0)
      BY <2>2 DEF File!Content, Bytes
    <2>4. QED
      BY <1>2, <2>3 DEF Piece
  <1>3. CASE Len(s) # 0
    <2>1. Off + Len(s) <= Size
      BY <1>3 DEF Piece
    <2> DEFINE m == Len(s)
    <2>2. m \in Nat /\ m # 0 /\ Off + m <= Size
      BY <1>1, <1>3, <2>1
    <2> HIDE DEF m
    <2>3. (IF Off < (IF Off + m < Size THEN Off + m ELSE Size) THEN (IF Off + m < Size THEN Off + m ELSE Size) - Off ELSE 0) = m
      BY <1>1, <2>2
    <2>4. File!Content(Off, m) = Bytes(Off, m)
      BY <2>3 DEF File!Content, Bytes
    <2>5. QED
      BY <2>4 DEF Piece, m
  <1>4. QED
    BY <1>2, <1>3

\* ... and all of the answer when it ends with the file.
LEMMA PieceToEnd ==
  ASSUME HTypes, Owned, InCall, NEW s, Piece(s), Off + Len(s) = Size
  PROVE  s = File!Content(Off, call[owner].n)
  <1>1. Off \in Nat /\ Size \in Nat /\ call[owner].n \in Nat /\ Len(s) \in Nat /\ Len(s) <= call[owner].n
    BY OwnerFacts, ReaderAssumption DEF Piece
  <1> DEFINE n == call[owner].n
             m == Len(s)
  <1>2. m \in Nat /\ n \in Nat /\ m <= n /\ Off + m = Size
    BY <1>1
  <1> HIDE DEF n, m
  <1>3. (IF Off < (IF Off + n < Size THEN Off + n ELSE Size) THEN (IF Off + n < Size THEN Off + n ELSE Size) - Off ELSE 0) = m
    BY <1>1, <1>2
  <1>4. File!Content(Off, n) = Bytes(Off, m)
    BY <1>3 DEF File!Content, Bytes
  <1>5. QED
    BY <1>4 DEF Piece, n, m

\* Beyond the end there is nothing.
LEMMA NothingBeyond ==
  ASSUME HTypes, Owned, InCall, Off >= Size
  PROVE  File!Content(Off, call[owner].n) = <<>>
  <1>1. Off \in Nat /\ Size \in Nat /\ call[owner].n \in Nat
    BY OwnerFacts, ReaderAssumption
  <1> DEFINE n == call[owner].n
  <1>2. n \in Nat
    BY <1>1
  <1> HIDE DEF n
  <1>3. (IF Off < (IF Off + n < Size THEN Off + n ELSE Size) THEN (IF Off + n < Size THEN Off + n ELSE Size) - Off ELSE 0) = 0
    BY <1>1, <1>2
  <1>4. File!Content(Off, n) = [i \in 1..0 |-> Off + i - 1]
    BY <1>3 DEF File!Content
  <1>5. QED
    BY <1>4 DEF n

\* The call returns what the file holds.
LEMMA ReturnsContent ==
  ASSUME HTypes, Owned, InCall, NEW data, NEW e, Return(data, e), Fails,
         data = File!Content(Off, call[owner].n), e = IF Len(data) = call[owner].n THEN "none" ELSE "eof"
  PROVE  FileStep
  <1>1. owner \in Thread /\ call[owner] # Idle
    BY OwnerFacts
  <1>2. File!Complete(owner)
    BY DEF File!Complete, Return, Off
  <1>3. File!Return(owner)
    BY <1>1, <1>2 DEF File!Return, Return, Fails
  <1>4. QED
    BY <1>1, <1>3 DEF FileStep, File!Next

\* The call fails: something has failed, and what it returns is in the file.
LEMMA ReturnsFailure ==
  ASSUME HTypes, Owned, InCall, NEW data, Return(data, "failed"), Fails, Piece(data), faults' > call[owner].since
  PROVE  FileStep
  <1>1. owner \in Thread /\ call[owner] # Idle /\ call[owner].n \in Nat
    BY OwnerFacts
  <1>2. data = File!Content(Off, Len(data)) /\ Len(data) \in 0..call[owner].n
    BY <1>1, PieceIsContent DEF Piece
  <1>3. File!Fail(owner)
    BY <1>2 DEF File!Fail, Return, Off
  <1>4. File!Return(owner)
    BY <1>1, <1>3 DEF File!Return, Return, Fails
  <1>5. QED
    BY <1>1, <1>4 DEF FileStep, File!Next

\* Any other step of a call, and those of everyone else.
LEMMA OthersStep ==
  ASSUME UNCHANGED <<call, answer>>, Fails
  PROVE  FileStep
  BY DEF FileStep, File!Next, File!SourceFails, File!vars, Fails

LEMMA NoneIsPiece ==
  ASSUME HTypes, Owned, InCall
  PROVE  Piece(<<>>)
  <1>1. <<>> = Bytes(Off, 0)
    BY OwnerFacts DEF Bytes
  <1>2. QED
    BY <1>1, OwnerFacts DEF Piece

\* A failed attempt: the call starts over, or it has met a failure and returns it.
LEMMA FailedKeeps ==
  ASSUME HInv, InCall, opened, NEW data, Failed(data), Piece(data), RInv', Dead', Fails, UNCHANGED <<offset, opened, closed>>,
         retries = Retries => faults' > call[owner].since
  PROVE  HInv' /\ FileStep
  <1>1. /\ faults \in Nat /\ offset \in Nat /\ retries \in 0..Retries /\ Retries \in Nat /\ skip \in Nat
    BY HandleAssumption DEF HInv, HTypes, RInv, RTypes
  <1>2. CASE retries < Retries
    <2>1. retries' = retries + 1 /\ got' = data /\ Goto("seek") /\ skip' = skip
      BY <1>2 DEF Failed
    <2>2. retries' \in 0..Retries /\ retries' # 0
      BY <1>1, <1>2, <2>1
    <2>3. data \in Seq(Nat) /\ opened' /\ offset' \in Nat
      BY <1>1 DEF Piece
    <2>4. HTypes' /\ Owned' /\ InCall' /\ Off' = Off /\ UNCHANGED <<call, owner, answer>>
      BY <1>1, <2>1, <2>2, <2>3, GoOn DEF HInv, Stage
    <2>5. stage' = "seek"
      BY <2>1 DEF Goto
    <2>6. Placed' /\ Blame'
      BY <2>5 DEF Placed, Blame
    <2>7. Piece(got)'
      BY <2>1, <2>4 DEF Piece, Bytes
    <2>8. Right'
      BY <2>5, <2>7 DEF Right
    <2>9. QED
      BY <2>4, <2>6, <2>8, OthersStep DEF HInv
  <1>3. CASE ~(retries < Retries)
    <2>1. Return(data, "failed") /\ retries = Retries
      BY <1>1, <1>3 DEF Failed
    <2>2. HInv'
      BY <1>1, <2>1, ReturnedKeeps
    <2>3. QED
      BY <2>1, <2>2, ReturnsFailure DEF HInv
  <1>4. QED
    BY <1>2, <1>3

\* The seek has come to its end, and the reader is where the call wants to read.
LEMMA ReadFromKeeps ==
  ASSUME HInv, InCall, opened, ReadFrom(Off), RInv', At' = Off, Fails, skip' \in Nat, retries' = retries,
         retries = 0 \/ Fresh'
  PROVE  HInv' /\ FileStep
  <1>1. /\ offset' = Off /\ got' = <<>> /\ Goto("full") /\ UNCHANGED <<opened, closed>>
    BY DEF ReadFrom
  <1>2. faults \in Nat /\ retries \in 0..Retries /\ Off \in Nat /\ <<>> \in Seq(Nat)
    BY OwnerFacts DEF HInv, HTypes, RInv, RTypes
  <1>3. HTypes' /\ Owned' /\ InCall' /\ Off' = Off /\ UNCHANGED <<call, owner, answer>>
    BY <1>1, <1>2, GoOn DEF HInv, Stage
  <1>4. stage' = "full"
    BY <1>1 DEF Goto
  <1>5. Placed'
    BY <1>1, <1>2, <1>3, <1>4 DEF Placed
  <1>6. Right'
    <2>1. Piece(<<>>)'
      BY <1>3, <1>1, NoneIsPiece DEF HInv, Piece, Bytes
    <2>2. QED
      BY <1>1, <1>4, <2>1 DEF Right
  <1>7. Blame'
    BY <1>2 DEF Blame
  <1>8. QED
    BY <1>3, <1>5, <1>6, <1>7, OthersStep DEF HInv

\* The seek goes on, and p stays as it is.
LEMMA SeekingKeeps ==
  ASSUME HInv, InCall, opened, NEW s \in {"skip", "abandon", "range", "reopen"}, Goto(s), RInv', Fails,
         UNCHANGED <<got, retries, offset, opened, closed>>, skip' \in Nat, Off < Size,
         s # "reopen" => retries = 0, s \in {"range", "reopen"} => Dead', s = "skip" => Dead' \/ At' + skip' = Off
  PROVE  HInv' /\ FileStep
  <1>1. faults \in Nat /\ retries \in 0..Retries /\ offset \in Nat /\ got \in Seq(Nat)
    BY DEF HInv, HTypes, RInv, RTypes
  <1>2. HTypes' /\ Owned' /\ InCall' /\ Off' = Off /\ UNCHANGED <<call, owner, answer>>
    BY <1>1, GoOn DEF HInv, Stage
  <1>3. stage' = s
    BY DEF Goto
  <1>4. Placed' /\ Blame'
    BY <1>2, <1>3 DEF Placed, Blame
  <1>5. Right'
    <2>1. Piece(got)'
      BY <1>2 DEF HInv, Right, InCall, Piece, Bytes
    <2>2. QED
      BY <1>3, <2>1 DEF Right
  <1>6. QED
    BY <1>2, <1>4, <1>5, OthersStep DEF HInv

-----------------------------------------------------------------------------
(* One step per action *)

LEMMA BeginKeeps ==
  ASSUME HInv, NEW t \in Thread, Begin(t)
  PROVE  HInv' /\ FileStep
  <1>1. /\ owner = Free /\ call[t] = Idle /\ ~closed /\ owner' = t /\ stage' = "open" /\ got' = <<>> /\ skip' = 0 /\ retries' = 0
        /\ answer' = [answer EXCEPT ![t] = Nothing]
        /\ UNCHANGED <<readerVars, waiting, fieldVars>>
    BY DEF Begin
  <1>2. PICK a \in Ask : call' = [call EXCEPT ![t] = [off |-> a.off, n |-> a.n, since |-> faults]]
    BY DEF Begin
  <1>3. UNCHANGED core /\ faults' = faults /\ faults \in Nat /\ UNCHANGED <<offset, opened, closed>>
    BY <1>1 DEF readerVars, fieldVars, core, HInv, RInv, RTypes
  <1>4. RInv' /\ At' = At /\ (Dead' <=> Dead)
    BY <1>3, SameReader DEF HInv
  <1>5. stage = "none"
    BY <1>1 DEF HInv, Owned
  <1> DEFINE r == [off |-> a.off, n |-> a.n, since |-> faults]
  <1>6. r \in Request /\ r # Idle /\ r.since = faults
    <2>1. a \in [off : Nat, n : Nat \ {0}]
      BY HandleAssumption
    <2>2. r \in Request
      BY <1>3, <2>1 DEF Request
    <2>3. r \in [off : Nat, n : Nat, since : Nat]
      BY <1>3, <2>1
    <2>4. QED
      BY <2>2, <2>3, HandleAssumption
  <1> HIDE DEF r
  <1>7. call' = [call EXCEPT ![t] = r]
    BY <1>2 DEF r
  <1>8. \A u \in Thread : call'[u] = IF u = t THEN r ELSE call[u]
    BY <1>7 DEF HInv, HTypes
  <1>9. HTypes'
    <2>1. <<>> \in Seq(Nat) /\ 0 \in 0..Retries
      BY HandleAssumption
    <2>2. call' \in [Thread -> Request \cup {Idle}]
      BY <1>6, <1>7 DEF HInv, HTypes
    <2>3. QED
      BY <1>1, <1>3, <2>1, <2>2 DEF HInv, HTypes, Stage
  <1>10. Owned'
    <2>1. t # Free /\ t # Closer /\ t \notin waiting
      BY <1>1, HandleAssumption DEF HInv, Owned
    <2>2. \A u \in waiting' \cup ({owner'} \cap Thread) : call'[u] # Idle
      BY <1>1, <1>6, <1>8 DEF HInv, HTypes, Owned
    <2>3. \A u \in Thread : call'[u] # Idle => call'[u].since <= faults'
      BY <1>3, <1>6, <1>8 DEF HInv, Owned
    <2>4. waiting' # {} => opened'
      BY <1>1, <1>3 DEF HInv, Owned
    <2>5. QED
      BY <1>1, <1>3, <2>1, <2>2, <2>3, <2>4 DEF HInv, Owned
  <1>11. Placed' /\ Blame'
    BY <1>1, <1>3, <1>4, <1>5 DEF HInv, Placed, Blame
  <1>12. Right'
    <2>1. InCall'
      BY <1>1 DEF InCall
    <2>2. Piece(<<>>)'
      <3>1. Off' \in Nat /\ call'[owner'].n \in Nat
        BY <1>1, <1>6, <1>8 DEF Off, Request
      <3>2. <<>> = Bytes(Off, 0)'
        BY <3>1 DEF Bytes
      <3>3. QED
        BY <3>1, <3>2 DEF Piece
    <2>3. QED
      BY <1>1, <2>2 DEF Right
  <1>13. File!Call(t)
    BY <1>1, <1>2, <1>3 DEF File!Call, File!Nothing, Nothing
  <1>14. QED
    BY <1>4, <1>9, <1>10, <1>11, <1>12, <1>13 DEF HInv, FileStep, File!Next

LEMMA OpenPendingKeeps ==
  ASSUME HInv, OpenPending
  PROVE  HInv' /\ FileStep
  <1>1. /\ stage = "open" /\ ~opened /\ New(0) /\ opened' = TRUE /\ Goto("open") /\ faults' = faults
        /\ UNCHANGED <<got, skip, retries, offset, closed>>
    BY DEF OpenPending, localVars
  <1>2. 0 \in 0..Size /\ faults \in Nat
    BY ReaderAssumption DEF HInv, RInv, RTypes
  <1>3. RInv' /\ At' = 0
    BY <1>1, <1>2, NewReader
  <1>4. offset = 0 /\ InCall /\ Fails
    BY <1>1 DEF HInv, Owned, InCall, Fails
  <1>5. HTypes' /\ Owned' /\ InCall' /\ Off' = Off /\ UNCHANGED <<call, owner, answer>>
    BY <1>1, <1>2, <1>4, GoOn DEF HInv, HTypes, Stage
  <1>6. stage' = "open"
    BY <1>1 DEF Goto
  <1>7. Placed' /\ Blame'
    BY <1>1, <1>3, <1>4, <1>6 DEF Placed, Blame
  <1>8. Right'
    BY <1>1, <1>5, <1>6 DEF HInv, Right, Piece, Bytes
  <1>9. QED
    BY <1>3, <1>4, <1>5, <1>7, <1>8, OthersStep DEF HInv

LEMMA OpenFailsKeeps ==
  ASSUME HInv, OpenFails
  PROVE  HInv' /\ FileStep
  <1>1. /\ stage = "open" /\ ~opened /\ faults' = faults + 1 /\ Return(<<>>, "failed") /\ UNCHANGED core
        /\ UNCHANGED <<offset, opened, closed>>
    BY DEF OpenFails, core, fieldVars
  <1>2. faults \in Nat /\ faults' \in Nat /\ Fails /\ InCall /\ offset = 0
    BY <1>1 DEF HInv, RInv, RTypes, Fails, InCall, Owned
  <1>3. RInv'
    BY <1>1, <1>2, SameReader DEF HInv
  <1>4. HInv'
    BY <1>1, <1>2, <1>3, ReturnedKeeps
  <1>5. call[owner].since \in Nat /\ call[owner].since <= faults
    BY <1>2, OwnerFacts DEF HInv
  <1>6. FileStep
    BY <1>1, <1>2, <1>5, NoneIsPiece, ReturnsFailure DEF HInv
  <1>7. QED
    BY <1>4, <1>6

LEMMA WaitKeeps ==
  ASSUME HInv, Wait
  PROVE  HInv' /\ FileStep
  <1>1. /\ stage = "open" /\ opened /\ waiting' = waiting \cup {owner} /\ owner' = Free /\ stage' = "none"
        /\ UNCHANGED core /\ faults' = faults /\ UNCHANGED <<call, got, skip, retries, offset, opened, closed, answer>>
    BY DEF Wait, readerVars, core, localVars, fieldVars
  <1>2. faults \in Nat /\ faults' \in Nat /\ Fails /\ InCall
    BY <1>1 DEF HInv, RInv, RTypes, Fails, InCall
  <1>3. RInv' /\ At' = At /\ (Dead' <=> Dead)
    BY <1>1, <1>2, SameReader DEF HInv
  <1>4. owner \in Thread /\ call[owner] # Idle /\ ~closed
    BY <1>2, OwnerFacts DEF HInv
  <1>5. HTypes'
    BY <1>1, <1>4 DEF HInv, HTypes, Stage
  <1>6. Owned'
    <2>1. Free # Closer /\ Free \notin waiting' /\ Free \notin Thread
      BY <1>1, <1>4, HandleAssumption DEF HInv, HTypes
    <2>2. QED
      BY <1>1, <1>4, <2>1 DEF HInv, Owned
  <1>7. Placed' /\ Right' /\ Blame'
    BY <1>1, <1>3 DEF HInv, Placed, Right, Blame
  <1>8. QED
    BY <1>1, <1>2, <1>3, <1>5, <1>6, <1>7, OthersStep DEF HInv

\* The first stage is right for where the reader is.
LEMMA FirstStageKeeps ==
  ASSUME RInv, RInv', HTypes', Owned', InCall', NEW t \in Thread, owner' = t, stage' = FirstStage(t), UNCHANGED <<call, offset>>,
         Dead' \/ At' = offset', got' = <<>>, retries' = 0
  PROVE  Placed' /\ Right' /\ Blame'
  <1>1. Off' \in Nat /\ Off' = call[t].off /\ Piece(<<>>)'
    <2>1. call'[t] \in Request
      <3>1. call'[t] # Idle
        BY DEF Owned
      <3>2. QED
        BY <3>1 DEF HTypes
    <2>2. Off' \in Nat /\ call'[owner'].n \in Nat
      BY <2>1 DEF Request, Off
    <2>3. <<>> = Bytes(Off, 0)'
      BY <2>2 DEF Bytes
    <2>4. QED
      BY <2>2, <2>3 DEF Piece, Off
  <1>2. CASE call[t].off = offset
    <2>1. stage' = "full" /\ offset' = Off'
      BY <1>1, <1>2 DEF FirstStage
    <2>2. QED
      BY <1>1, <2>1 DEF Placed, Right, Blame
  <1>3. CASE call[t].off # offset
    <2>1. stage' = "seek"
      BY <1>3 DEF FirstStage
    <2>2. QED
      BY <1>1, <2>1 DEF Placed, Right, Blame
  <1>4. QED
    BY <1>2, <1>3

LEMMA ResumeKeeps ==
  ASSUME HInv, NEW t \in Thread, Resume(t)
  PROVE  HInv' /\ FileStep
  <1>1. /\ t \in waiting /\ owner = Free /\ waiting' = waiting \ {t} /\ owner' = t /\ stage' = FirstStage(t)
        /\ UNCHANGED core /\ faults' = faults /\ UNCHANGED <<call, got, skip, retries, offset, opened, closed, answer>>
    BY DEF Resume, readerVars, core, localVars, fieldVars
  <1>2. faults \in Nat /\ faults' \in Nat /\ Fails /\ stage = "none" /\ call[t] # Idle /\ opened /\ ~closed
    BY <1>1 DEF HInv, RInv, RTypes, Fails, Owned
  <1>3. RInv' /\ At' = At /\ (Dead' <=> Dead)
    BY <1>1, <1>2, SameReader DEF HInv
  <1>4. stage' \in {"full", "seek"}
    BY <1>1 DEF FirstStage
  <1>5. HTypes'
    BY <1>1, <1>4 DEF HInv, HTypes, Stage
  <1>6. Owned'
    <2>1. t # Closer /\ t # Free
      BY HandleAssumption
    <2>2. QED
      BY <1>1, <1>2, <1>4, <2>1 DEF HInv, Owned
  <1>7. got = <<>> /\ retries = 0 /\ (Dead \/ At = offset)
    BY <1>2 DEF HInv, Right, Placed
  <1>8. InCall'
    BY <1>4 DEF InCall
  <1>9. Placed' /\ Right' /\ Blame'
    BY <1>1, <1>3, <1>5, <1>6, <1>7, <1>8, FirstStageKeeps DEF HInv
  <1>10. QED
    BY <1>1, <1>2, <1>3, <1>5, <1>6, <1>9, OthersStep DEF HInv

LEMMA NoWaitKeeps ==
  ASSUME HInv, NoWait
  PROVE  HInv' /\ FileStep
  <1>1. /\ stage = "open" /\ opened /\ Goto(FirstStage(owner)) /\ UNCHANGED core /\ faults' = faults
        /\ UNCHANGED <<got, skip, retries, offset, opened, closed>>
    BY DEF NoWait, readerVars, core, localVars, fieldVars
  <1>2. faults \in Nat /\ faults' \in Nat /\ Fails /\ InCall
    BY <1>1 DEF HInv, RInv, RTypes, Fails, InCall
  <1>3. RInv' /\ At' = At /\ (Dead' <=> Dead)
    BY <1>1, <1>2, SameReader DEF HInv
  <1>4. FirstStage(owner) \in {"full", "seek"}
    BY DEF FirstStage
  <1>5. HTypes' /\ Owned' /\ InCall' /\ Off' = Off /\ UNCHANGED <<call, owner, answer>>
    BY <1>1, <1>2, <1>4, GoOn DEF HInv, HTypes, Stage
  <1>6. got = <<>> /\ retries = 0 /\ (Dead \/ At = offset) /\ owner \in Thread
    BY <1>1, <1>2, OwnerFacts DEF HInv, Right, Placed
  <1>7. stage' = FirstStage(owner)
    BY <1>1 DEF Goto
  <1>8. Placed' /\ Right' /\ Blame'
    BY <1>1, <1>3, <1>5, <1>6, <1>7, FirstStageKeeps DEF HInv
  <1>9. QED
    BY <1>2, <1>3, <1>5, <1>8, OthersStep DEF HInv

LEMMA BeyondEndKeeps ==
  ASSUME HInv, BeyondEnd
  PROVE  HInv' /\ FileStep
  <1>1. /\ stage = "seek" /\ Off >= Size /\ Return(<<>>, "eof") /\ UNCHANGED core /\ faults' = faults
        /\ UNCHANGED <<offset, opened, closed>>
    BY DEF BeyondEnd, readerVars, core, fieldVars
  <1>2. faults \in Nat /\ faults' \in Nat /\ Fails /\ InCall /\ offset \in Nat /\ opened /\ (Dead \/ At = offset)
    BY <1>1 DEF HInv, HTypes, RInv, RTypes, Fails, InCall, Owned, Placed
  <1>3. RInv' /\ At' = At /\ (Dead' <=> Dead)
    BY <1>1, <1>2, SameReader DEF HInv
  <1>4. HInv'
    BY <1>1, <1>2, <1>3, ReturnedKeeps
  <1>5. File!Content(Off, call[owner].n) = <<>>
    BY <1>1, <1>2, NothingBeyond DEF HInv
  <1>6. Len(<<>>) # call[owner].n
    BY <1>2, OwnerFacts DEF HInv
  <1>7. FileStep
    BY <1>1, <1>2, <1>5, <1>6, ReturnsContent DEF HInv
  <1>8. QED
    BY <1>4, <1>7

LEMMA SeekBackKeeps ==
  ASSUME HInv, SeekBack
  PROVE  HInv' /\ FileStep
  <1>1. /\ stage = "seek" /\ Off < Size /\ ~(retries > 0) /\ err = "none" /\ SkipsBack(Gap) /\ SkipBack(Gap) /\ ReadFrom(Off)
        /\ UNCHANGED <<skip, retries>>
    BY DEF SeekBack, Seeks, Reopens
  <1>2. InCall /\ opened /\ retries = 0 /\ skip \in Nat /\ offset \in Nat
    BY <1>1 DEF HInv, HTypes, InCall, Owned
  <1>3. Off \in Nat /\ Gap \in Int
    BY <1>2, OwnerFacts DEF HInv, Gap
  <1>4. RInv' /\ UNCHANGED faults /\ At' = At + Gap /\ ~Dead
    BY <1>1, <1>3, SkipBackKeeps DEF HInv
  <1>5. At' = Off /\ Fails
    BY <1>1, <1>2, <1>3, <1>4 DEF HInv, Placed, Gap, Fails
  <1>6. QED
    BY <1>1, <1>2, <1>4, <1>5, ReadFromKeeps

LEMMA SeekRefusedKeeps ==
  ASSUME HInv, SeekRefused
  PROVE  HInv' /\ FileStep
  <1>1. /\ stage = "seek" /\ Off < Size /\ ~(retries > 0) /\ StopBuffering /\ Goto("abandon")
        /\ UNCHANGED <<got, skip, retries, offset, opened, closed>>
    BY DEF SeekRefused, Seeks, Reopens, localVars, fieldVars
  <1>2. InCall /\ opened /\ retries = 0 /\ skip \in Nat /\ faults \in Nat
    BY <1>1 DEF HInv, HTypes, RInv, RTypes, InCall, Owned
  <1>3. RInv' /\ Fails
    BY <1>1, <1>2, StopKeeps DEF HInv, StopBuffering, Tells, Fails
  <1>4. QED
    BY <1>1, <1>2, <1>3, SeekingKeeps

LEMMA SeekSkipsKeeps ==
  ASSUME HInv, SeekSkips
  PROVE  HInv' /\ FileStep
  <1>1. /\ stage = "seek" /\ Off < Size /\ ~(retries > 0) /\ Gap > 0 /\ skip' = Gap /\ Goto("skip")
        /\ UNCHANGED <<got, retries, offset, opened, closed>> /\ UNCHANGED core /\ faults' = faults
    BY DEF SeekSkips, Seeks, Reopens, readerVars, core, fieldVars
  <1>2. InCall /\ opened /\ retries = 0 /\ faults \in Nat /\ offset \in Nat /\ Fails
    BY <1>1 DEF HInv, HTypes, RInv, RTypes, InCall, Owned, Fails
  <1>3. RInv' /\ At' = At /\ (Dead' <=> Dead)
    BY <1>1, <1>2, SameReader DEF HInv
  <1>4. Off \in Nat /\ skip' \in Nat /\ offset + skip' = Off
    BY <1>1, <1>2, OwnerFacts DEF HInv, Gap
  <1>5. Dead' \/ At' + skip' = Off
    BY <1>1, <1>3, <1>4 DEF HInv, Placed
  <1>6. QED
    BY <1>1, <1>2, <1>3, <1>4, <1>5, SeekingKeeps

LEMMA DropStepKeeps ==
  ASSUME HInv, Drop
  PROVE  HInv' /\ FileStep
  <1>1. /\ stage = "skip" /\ SkipDrop /\ Goto("skip") /\ UNCHANGED <<got, skip, retries, offset, opened, closed>>
    BY DEF Drop, fieldVars
  <1>2. InCall /\ opened /\ retries = 0 /\ skip \in Nat /\ Off < Size
    BY <1>1 DEF HInv, HTypes, InCall, Owned, Placed
  <1>3. RInv' /\ At' = At /\ (Dead => Dead') /\ Fails
    BY <1>1, DropKeeps DEF HInv, SkipDrop, Fails
  <1>4. Dead' \/ At' + skip' = Off
    BY <1>1, <1>3 DEF HInv, Placed
  <1>5. QED
    BY <1>1, <1>2, <1>3, <1>4, SeekingKeeps

LEMMA OverKeeps ==
  ASSUME HInv, Over
  PROVE  HInv' /\ FileStep
  <1>1. /\ stage = "skip" /\ SkipOver(skip, dropped) /\ exit' = exit /\ skip' = skip - SkipLen(skip)
        /\ IF skip' = 0 THEN ReadFrom(Off) ELSE Goto("skip") /\ UNCHANGED <<got, fieldVars>>
        /\ retries' = retries
    BY DEF Over
  <1>2. InCall /\ opened /\ retries = 0 /\ skip \in Nat /\ Off < Size /\ exit' \in BOOLEAN
    BY <1>1 DEF HInv, HTypes, RInv, RTypes, InCall, Owned, Placed
  <1>3. RInv' /\ UNCHANGED faults /\ SkipLen(skip) \in Nat /\ SkipLen(skip) <= skip /\ At' = At + SkipLen(skip) /\ ~Dead /\ At \in Nat
    BY <1>1, <1>2, SkipKeeps DEF HInv
  <1>4. skip' \in Nat /\ Fails /\ At' + skip' = Off
    BY <1>1, <1>2, <1>3 DEF HInv, Placed, Fails
  <1>5. CASE skip' = 0
    <2>1. At' = Off
      BY <1>3, <1>4, <1>5
    <2>2. QED
      BY <1>1, <1>2, <1>3, <1>4, <1>5, <2>1, ReadFromKeeps
  <1>6. CASE skip' # 0
    BY <1>1, <1>2, <1>3, <1>4, <1>6, SeekingKeeps DEF fieldVars
  <1>7. QED
    BY <1>5, <1>6

LEMMA OverFailsKeeps ==
  ASSUME HInv, OverFails \/ OverStuck
  PROVE  HInv' /\ FileStep
  <1>1. /\ stage = "skip" /\ skip' = 0 /\ Goto("abandon") /\ UNCHANGED <<got, retries, offset, opened, closed>>
    BY DEF OverFails, OverStuck, fieldVars
  <1>2. InCall /\ opened /\ retries = 0 /\ skip \in Nat /\ Off < Size /\ faults \in Nat
    BY <1>1 DEF HInv, HTypes, RInv, RTypes, InCall, Owned, Placed
  <1>3. RInv' /\ Fails
    <2>1. CASE OverFails
      BY <1>2, <2>1, SkipKeeps DEF HInv, OverFails, Fails
    <2>2. CASE OverStuck
      BY <1>2, <2>2, StopKeeps DEF HInv, OverStuck, StopBuffering, Tells, Fails
    <2>3. QED
      BY <2>1, <2>2
  <1>4. QED
    BY <1>1, <1>2, <1>3, SeekingKeeps

LEMMA AbandonSkippedKeeps ==
  ASSUME HInv, AbandonSkipped
  PROVE  HInv' /\ FileStep
  <1>1. /\ stage = "abandon" /\ Abandon /\ Goto("range") /\ UNCHANGED <<got, skip, retries, offset, opened, closed>>
    BY DEF AbandonSkipped, localVars, fieldVars
  <1>2. /\ InCall /\ opened /\ retries = 0 /\ skip \in Nat /\ Off < Size /\ exit \in BOOLEAN
        /\ source \in [open : BOOLEAN, pos : 0..Size]
    BY <1>1 DEF HInv, HTypes, RInv, RTypes, InCall, Owned, Placed
  <1>3. RInv' /\ Dead' /\ Fails
    BY <1>1, <1>2, AbandonKeeps DEF HInv, Abandon, Fails
  <1>4. QED
    BY <1>1, <1>2, <1>3, SeekingKeeps

LEMMA RangeSeekKeeps ==
  ASSUME HInv, RangeSeek
  PROVE  HInv' /\ FileStep
  <1>1. /\ stage = "range" /\ New(Off) /\ ReadFrom(Off) /\ faults' = faults /\ UNCHANGED <<skip, retries>>
    BY DEF RangeSeek
  <1>2. InCall /\ opened /\ retries = 0 /\ skip \in Nat /\ Off < Size /\ faults \in Nat /\ Fails
    BY <1>1 DEF HInv, HTypes, RInv, RTypes, InCall, Owned, Placed, Fails
  <1>3. Off \in 0..Size
    BY <1>2, OwnerFacts, ReaderAssumption DEF HInv
  <1>4. RInv' /\ At' = Off
    BY <1>1, <1>2, <1>3, NewReader
  <1>5. QED
    BY <1>1, <1>2, <1>4, ReadFromKeeps

LEMMA RangeSeekFailsKeeps ==
  ASSUME HInv, RangeSeekFails
  PROVE  HInv' /\ FileStep
  <1>1. /\ stage = "range" /\ Failed(got) /\ UNCHANGED core /\ faults' = faults /\ UNCHANGED <<offset, opened, closed>>
    BY DEF RangeSeekFails, readerVars, core, fieldVars
  <1>2. InCall /\ opened /\ retries = 0 /\ Dead /\ faults \in Nat /\ faults' \in Nat /\ Fails /\ Piece(got)
    BY <1>1 DEF HInv, HTypes, RInv, RTypes, InCall, Owned, Placed, Fails, Right
  <1>3. RInv' /\ Dead'
    BY <1>1, <1>2, SameReader DEF HInv
  <1>4. retries # Retries
    BY <1>2, HandleAssumption
  <1>5. QED
    BY <1>1, <1>2, <1>3, <1>4, FailedKeeps

LEMMA StopReadingKeeps ==
  ASSUME HInv, StopReading
  PROVE  HInv' /\ FileStep
  <1>1. /\ stage = "seek" /\ Off < Size /\ retries > 0 /\ StopBuffering /\ Goto("reopen")
        /\ UNCHANGED <<got, skip, retries, offset, opened, closed>>
    BY DEF StopReading, Seeks, Reopens, localVars, fieldVars
  <1>2. InCall /\ opened /\ skip \in Nat /\ faults \in Nat /\ Dead
    BY <1>1 DEF HInv, HTypes, RInv, RTypes, InCall, Owned, Placed
  <1>3. RInv' /\ Fails /\ Dead'
    BY <1>1, <1>2, StopKeeps DEF HInv, StopBuffering, Tells, Fails
  <1>4. QED
    BY <1>1, <1>2, <1>3, SeekingKeeps

LEMMA ReopenKeeps ==
  ASSUME HInv, Reopen
  PROVE  HInv' /\ FileStep
  <1>1. /\ stage = "reopen" /\ New(Off) /\ ReadFrom(Off) /\ faults' = faults /\ UNCHANGED <<skip, retries>>
    BY DEF Reopen
  <1>2. InCall /\ opened /\ skip \in Nat /\ Off < Size /\ faults \in Nat /\ Fails
    BY <1>1 DEF HInv, HTypes, RInv, RTypes, InCall, Owned, Placed, Fails
  <1>3. Off \in 0..Size
    BY <1>2, OwnerFacts, ReaderAssumption DEF HInv
  <1>4. RInv' /\ At' = Off /\ Fresh'
    BY <1>1, <1>2, <1>3, NewReader
  <1>5. QED
    BY <1>1, <1>2, <1>4, ReadFromKeeps

LEMMA ReopenFailsKeeps ==
  ASSUME HInv, ReopenFails
  PROVE  HInv' /\ FileStep
  <1>1. /\ stage = "reopen" /\ faults' = faults + 1 /\ source' = [source EXCEPT !.open = FALSE] /\ Failed(got)
        /\ UNCHANGED <<filler, size, ready, cur, err, exit>> /\ UNCHANGED <<offset, opened, closed>>
    BY DEF ReopenFails, fieldVars
  <1>2. InCall /\ opened /\ Dead /\ faults \in Nat /\ faults' \in Nat /\ Fails /\ Piece(got) /\ exit \in BOOLEAN
    BY <1>1 DEF HInv, HTypes, RInv, RTypes, InCall, Owned, Placed, Fails, Right
  <1>3. RInv' /\ Dead'
    BY <1>1, <1>2, StopKeeps DEF HInv
  <1>4. faults' > call[owner].since
    BY <1>1, <1>2, OwnerFacts DEF HInv
  <1>5. QED
    BY <1>1, <1>2, <1>3, <1>4, FailedKeeps

LEMMA DiscardCurKeeps ==
  ASSUME HInv, DiscardCur
  PROVE  HInv' /\ FileStep
  <1>1. /\ stage = "full" /\ Discard /\ Goto("full") /\ UNCHANGED <<got, skip, retries, offset, opened, closed>>
    BY DEF DiscardCur, localVars, fieldVars
  <1>2. InCall /\ opened /\ faults \in Nat /\ Piece(got)
    BY <1>1 DEF HInv, HTypes, RInv, RTypes, InCall, Owned, Right
  <1>3. RInv' /\ At' = At /\ (Dead => Dead') /\ (Fresh => Fresh') /\ faults' = faults /\ Fails
    BY <1>1, DropKeeps DEF HInv, Discard, Fails
  <1>4. HTypes' /\ Owned' /\ InCall' /\ Off' = Off /\ UNCHANGED <<call, owner, answer>>
    BY <1>1, <1>2, <1>3, GoOn DEF HInv, HTypes, Stage
  <1>5. stage' = "full"
    BY <1>1 DEF Goto
  <1>6. Placed'
    BY <1>1, <1>3, <1>4, <1>5 DEF HInv, Placed
  <1>7. Right'
    BY <1>1, <1>2, <1>4, <1>5 DEF Right, Piece, Bytes
  <1>8. Blame'
    BY <1>1, <1>3, <1>4 DEF HInv, Blame
  <1>9. QED
    BY <1>3, <1>4, <1>6, <1>7, <1>8, OthersStep DEF HInv

\* An attempt that ends: it has come to the end of p or of the file, or has failed.
LEMMA AttemptedKeeps ==
  ASSUME HInv, stage = "full", NEW data, NEW e, Attempted(data, e), Piece(data), RInv', Fails, UNCHANGED <<opened, closed>>,
         e = "none" => Len(data) = call[owner].n /\ data # <<>> /\ At' = Off + Len(data),
         e # "none" => Dead',
         e # "none" /\ retries > 0 /\ faults <= call[owner].since => e = "eof" /\ Off + Len(data) = Size,
         faults' = faults
  PROVE  HInv' /\ FileStep
  <1>1. InCall /\ opened /\ offset = Off /\ faults \in Nat /\ retries \in 0..Retries
    BY DEF HInv, HTypes, RInv, RTypes, InCall, Owned, Placed
  <1>2. Off \in Nat /\ Len(data) \in Nat /\ call[owner].n \in Nat /\ call[owner].since \in Nat /\ Size \in Nat
    BY <1>1, OwnerFacts, ReaderAssumption DEF HInv, Piece
  <1>3. CASE e = "none" \/ AtEnd(e, offset + Len(data))
    <2>1. /\ offset' = offset + Len(data)
          /\ Return(data, IF Len(data) = call[owner].n THEN "none" ELSE "eof")
      BY <1>3 DEF Attempted
    <2>2. offset' \in Nat /\ (Dead' \/ At' = offset')
      BY <1>1, <1>2, <2>1
    <2>3. HInv'
      BY <1>1, <2>1, <2>2, ReturnedKeeps
    <2>4. data = File!Content(Off, call[owner].n)
      <3>1. CASE e = "none"
        BY <1>1, <3>1, PieceIsContent DEF HInv
      <3>2. CASE e # "none"
        BY <1>1, <1>3, <3>2, PieceToEnd DEF HInv, AtEnd
      <3>3. QED
        BY <3>1, <3>2
    <2>5. FileStep
      BY <1>1, <2>1, <2>4, ReturnsContent DEF HInv
    <2>6. QED
      BY <2>3, <2>5
  <1>4. CASE ~(e = "none" \/ AtEnd(e, offset + Len(data)))
    <2>1. offset' = offset /\ Failed(data) /\ Dead'
      BY <1>4 DEF Attempted
    <2>2. retries > 0 => faults' > call[owner].since
      BY <1>1, <1>2, <1>4 DEF AtEnd
    <2>3. retries = Retries => retries > 0
      BY <1>1, HandleAssumption
    <2>4. QED
      BY <1>1, <2>1, <2>2, <2>3, FailedKeeps
  <1>5. QED
    BY <1>3, <1>4

LEMMA ReadEndedKeeps ==
  ASSUME HInv, ReadEnded
  PROVE  HInv' /\ FileStep
  <1>1. /\ stage = "full" /\ Ended /\ Attempted(got, EndedErr) /\ UNCHANGED core /\ faults' = faults /\ UNCHANGED <<opened, closed>>
    BY DEF ReadEnded, readerVars, core
  <1>2. /\ faults \in Nat /\ faults' \in Nat /\ Fails /\ Piece(got) /\ EndedErr # "none" /\ Dead /\ InCall
    BY <1>1 DEF HInv, RInv, RTypes, Fails, Right, EndedErr, Ended, Dead, InCall
  <1>3. RInv' /\ Dead'
    BY <1>1, <1>2, SameReader DEF HInv
  <1>4. ASSUME retries > 0, faults <= call[owner].since
        PROVE  EndedErr = "eof" /\ Off + Len(got) = Size
    <2>1. Fresh
      BY <1>1, <1>4 DEF HInv, Blame
    <2>2. err = "eof" /\ source.pos = Size
      BY <1>1, <2>1 DEF Fresh, Ended
    <2>3. At = source.pos
      BY <1>1 DEF At, ReadyStart, Ended
    <2>4. retries # 0
      BY <1>4
    <2>5. At = Off + Len(got)
      BY <1>1, <2>4 DEF HInv, Placed
    <2>6. QED
      BY <2>2, <2>3, <2>5 DEF EndedErr
  <1>5. QED
    BY <1>1, <1>2, <1>3, <1>4, AttemptedKeeps

LEMMA Concat ==
  ASSUME NEW p \in Seq(Nat), NEW q \in Seq(Nat)
  PROVE  /\ p \o q \in Seq(Nat) /\ Len(p \o q) = Len(p) + Len(q)
         /\ \A i \in 1..(Len(p) + Len(q)) : (p \o q)[i] = IF i <= Len(p) THEN p[i] ELSE q[i - Len(p)]
  OBVIOUS

\* What follows a piece of the file is appended to it.
LEMMA Appended ==
  ASSUME NEW o \in Nat, NEW p \in Seq(Nat), NEW q \in Seq(Nat), p = Bytes(o, Len(p)), q = Bytes(o + Len(p), Len(q))
  PROVE  p \o q \in Seq(Nat) /\ Len(p \o q) = Len(p) + Len(q) /\ p \o q = Bytes(o, Len(p) + Len(q))
  <1> DEFINE s == p \o q
             g == Len(p)
             k == Len(q)
  <1>0. /\ g \in Nat /\ k \in Nat
        /\ \A i \in 1..g : p[i] = o + i - 1
        /\ \A i \in 1..k : q[i] = o + g + i - 1
    BY DEF Bytes
  <1>1. /\ s \in Seq(Nat) /\ Len(s) = g + k
        /\ \A i \in 1..(g + k) : s[i] = IF i <= g THEN p[i] ELSE q[i - g]
    BY Concat
  <1> HIDE DEF s, g, k
  <1>2. \A i \in 1..(g + k) : s[i] = o + i - 1
    <2>1. ASSUME NEW i \in 1..(g + k)
          PROVE  s[i] = o + i - 1
      <3>1. CASE i <= g
        <4>1. i \in 1..g /\ s[i] = p[i]
          BY <1>0, <1>1, <3>1
        <4>2. QED
          BY <1>0, <4>1
      <3>2. CASE ~(i <= g)
        <4>1. i - g \in 1..k /\ s[i] = q[i - g]
          BY <1>0, <1>1, <3>2
        <4>2. QED
          BY <1>0, <4>1
      <3>3. QED
        BY <3>1, <3>2
    <2>2. QED
      BY <2>1
  <1>3. s = Bytes(o, g + k)
    <2>1. s = [i \in 1..Len(s) |-> s[i]]
      BY <1>1
    <2>2. QED
      BY <1>1, <1>2, <2>1 DEF Bytes
  <1>4. QED
    BY <1>1, <1>3 DEF s, g, k

LEMMA ReadSomeKeeps ==
  ASSUME HInv, ReadSome
  PROVE  HInv' /\ FileStep
  <1> DEFINE data == got \o CopyData(Room)
             full == Len(data) = call[owner].n
  <1>1. /\ stage = "full" /\ Copy(Room) /\ UNCHANGED <<opened, closed>>
        /\ IF full \/ CopyErr(Room) # "none"
           THEN Attempted(data, IF full THEN "none" ELSE CopyErr(Room))
           ELSE got' = data /\ Goto("full") /\ UNCHANGED <<skip, dropped, retries, offset>>
    BY DEF ReadSome
  <1>2. InCall /\ opened /\ faults \in Nat /\ retries \in 0..Retries /\ offset \in Nat /\ offset = Off /\ skip \in Nat /\ Piece(got)
    BY <1>1 DEF HInv, HTypes, RInv, RTypes, InCall, Owned, Placed, Right
  <1>3. Off \in Nat /\ Len(got) \in Nat /\ call[owner].n \in Nat /\ call[owner].n > 0 /\ Size \in Nat
    BY <1>2, OwnerFacts, ReaderAssumption DEF HInv, Piece
  <1>4. Room \in Nat /\ Len(got) + Room = call[owner].n
    BY <1>2, <1>3 DEF Room, Piece
  <1>5. /\ RInv' /\ UNCHANGED faults /\ CopyLen(Room) \in Nat /\ CopyLen(Room) <= Room /\ At' = At + CopyLen(Room) /\ At' <= Size
        /\ CopyErr(Room) # "none" => Dead'
        /\ Fresh => Fresh' /\ (CopyErr(Room) # "none" => CopyErr(Room) = "eof" /\ At' = Size)
        /\ Serving.base + Serving.off = At /\ At \in Nat
    BY <1>1, <1>4, CopyKeeps DEF HInv
  <1>6. ~Dead /\ Serving.base \in Nat /\ Serving.off \in Nat
    BY <1>1, ServeFacts DEF HInv, Copy, Buffer
  <1>7. At = Off + Len(got) /\ Fails
    BY <1>1, <1>5, <1>6 DEF HInv, Placed, Fails
  <1>8. data \in Seq(Nat) /\ Len(data) = Len(got) + CopyLen(Room) /\ data = Bytes(Off, Len(got) + CopyLen(Room))
    <2> DEFINE o == Off
               k == CopyLen(Room)
               q == CopyData(Room)
    <2>1. o \in Nat /\ Len(got) \in Nat /\ k \in Nat /\ got \in Seq(Nat) /\ got = Bytes(o, Len(got))
      BY <1>2, <1>3, <1>5 DEF Piece
    <2>2. q = Bytes(o + Len(got), k)
      BY <1>5, <1>7 DEF CopyData, Bytes
    <2>3. data = got \o q
      OBVIOUS
    <2> HIDE DEF data, o, k, q
    <2>4. q \in Seq(Nat) /\ Len(q) = k
      BY <2>1, <2>2 DEF Bytes
    <2>5. q = Bytes(o + Len(got), Len(q))
      BY <2>2, <2>4
    <2>6. data \in Seq(Nat) /\ Len(data) = Len(got) + Len(q) /\ data = Bytes(o, Len(got) + Len(q))
      BY <2>1, <2>3, <2>4, <2>5, Appended
    <2>7. QED
      BY <2>4, <2>6 DEF o, k
  <1> HIDE DEF data
  <1>9. Len(data) \in Nat /\ Off + Len(data) = At' /\ Len(data) <= call[owner].n
    BY <1>3, <1>4, <1>5, <1>7, <1>8
  <1>10. Piece(data)
    BY <1>5, <1>8, <1>9 DEF Piece
  <1>11. CASE full \/ CopyErr(Room) # "none"
    <2> DEFINE e == IF full THEN "none" ELSE CopyErr(Room)
    <2>1. Attempted(data, e)
      BY <1>1, <1>11
    <2>2. e = "none" => Len(data) = call[owner].n /\ data # <<>> /\ At' = Off + Len(data)
      BY <1>3, <1>9, <1>11
    <2>3. e # "none" => Dead'
      BY <1>5
    <2>4. e # "none" /\ retries > 0 /\ faults <= call[owner].since => e = "eof" /\ Off + Len(data) = Size
      BY <1>1, <1>5, <1>9 DEF HInv, Blame
    <2> HIDE DEF e
    <2>5. QED
      BY <1>1, <1>5, <1>7, <1>10, <2>1, <2>2, <2>3, <2>4, AttemptedKeeps
  <1>12. CASE ~(full \/ CopyErr(Room) # "none")
    <2>1. got' = data /\ Goto("full") /\ UNCHANGED <<skip, retries, offset>>
      BY <1>1, <1>12
    <2>2. HTypes' /\ Owned' /\ InCall' /\ Off' = Off /\ UNCHANGED <<call, owner, answer>>
      BY <1>1, <1>2, <1>7, <1>8, <2>1, GoOn DEF HInv, Stage
    <2>3. stage' = "full"
      BY <2>1 DEF Goto
    <2>4. Placed'
      BY <1>2, <1>9, <2>1, <2>2, <2>3 DEF Placed
    <2>5. Right'
      BY <1>10, <2>1, <2>2, <2>3 DEF Right, Piece, Bytes
    <2>6. Blame'
      BY <1>1, <1>5, <2>1, <2>2 DEF HInv, Blame
    <2>7. QED
      BY <1>5, <1>7, <2>2, <2>4, <2>5, <2>6, OthersStep DEF HInv
  <1>13. QED
    BY <1>11, <1>12

LEMMA CloseKeeps ==
  ASSUME HInv, Close
  PROVE  HInv' /\ FileStep
  <1>1. /\ owner = Free /\ ~closed /\ \A t \in Thread : call[t] = Idle
        /\ closed' = TRUE /\ owner' = (IF opened THEN Closer ELSE Free) /\ stage' = (IF opened THEN "close" ELSE "none")
        /\ exit' = TRUE /\ UNCHANGED <<source, filler, size, ready, cur, err, faults, call, waiting, got, skip, retries, offset,
                                       opened, answer>>
    BY DEF Close, localVars
  <1>2. faults \in Nat /\ Fails /\ stage = "none"
    BY <1>1 DEF HInv, RInv, RTypes, Owned, Fails
  <1>3. RInv'
    BY <1>1, <1>2, StopKeeps DEF HInv
  <1>4. HTypes'
    BY <1>1 DEF HInv, HTypes, Stage
  <1>5. waiting = {}
    BY <1>1 DEF HInv, HTypes, Owned
  <1>6. Owned'
    <2>1. Closer \notin Thread /\ Free # Closer /\ Free \notin Thread
      BY HandleAssumption
    <2>2. \A t \in waiting' \cup ({owner'} \cap Thread) : call'[t] # Idle
      BY <1>1, <1>5, <2>1
    <2>3. QED
      BY <1>1, <1>5, <2>1, <2>2 DEF HInv, Owned
  <1>7. Placed' /\ Right' /\ Blame'
    BY <1>1, <1>2 DEF HInv, Placed, Right, Blame
  <1>8. QED
    BY <1>1, <1>2, <1>3, <1>4, <1>6, <1>7, OthersStep DEF HInv

LEMMA CloseDoneKeeps ==
  ASSUME HInv, CloseDone
  PROVE  HInv' /\ FileStep
  <1>1. /\ stage = "close" /\ filler = "exited" /\ cur' = Nil /\ ready' = <<>> /\ source' = [source EXCEPT !.open = FALSE]
        /\ owner' = Free /\ stage' = "none"
        /\ UNCHANGED <<filler, size, err, exit, faults, call, waiting, got, skip, retries, offset, opened, closed, answer>>
    BY DEF CloseDone, localVars, fieldVars
  <1>2. /\ faults \in Nat /\ Fails /\ closed /\ exit' \in BOOLEAN /\ source' \in [open : BOOLEAN, pos : 0..Size]
    BY <1>1 DEF HInv, RInv, RTypes, Owned, Fails
  <1>3. RInv'
    BY <1>1, <1>2, AbandonKeeps DEF HInv
  <1>4. HTypes'
    BY <1>1 DEF HInv, HTypes, Stage
  <1>5. Owned'
    <2>1. Free \notin Thread /\ Free # Closer /\ Free \notin waiting
      BY HandleAssumption DEF HInv, HTypes
    <2>2. \A t \in waiting' \cup ({owner'} \cap Thread) : call'[t] # Idle
      BY <1>1, <2>1 DEF HInv, Owned
    <2>3. QED
      BY <1>1, <1>2, <2>1, <2>2 DEF HInv, Owned
  <1>6. Placed' /\ Right' /\ Blame'
    BY <1>1, <1>2 DEF HInv, Placed, Right, Blame
  <1>7. QED
    BY <1>1, <1>2, <1>3, <1>4, <1>5, <1>6, OthersStep DEF HInv

\* The goroutine, the pool and its other client leave the handle alone.
LEMMA OthersKeep ==
  ASSUME HInv, UNCHANGED handleVars, RInv', Fails, At' = At, Dead => Dead', Fresh /\ faults' = faults => Fresh'
  PROVE  HInv' /\ FileStep
  <1>1. UNCHANGED <<owner, stage, call, waiting, got, skip, retries, offset, opened, closed, answer>>
    BY DEF handleVars, localVars, fieldVars
  <1>2. faults \in Nat /\ faults' >= faults /\ faults' \in Nat
    BY DEF HInv, RInv, RTypes, Fails
  <1>3. HTypes'
    BY <1>1 DEF HInv, HTypes
  <1>4. Owned'
    <2>1. \A t \in Thread : call'[t] # Idle => call'[t].since <= faults'
      BY <1>1, <1>2 DEF HInv, HTypes, Owned, Request, Fails
    <2>2. QED
      BY <1>1, <2>1 DEF HInv, Owned
  <1>5. Placed'
    BY <1>1 DEF HInv, Placed, Off
  <1>6. Right'
    BY <1>1 DEF HInv, Right, Piece, Bytes, Off
  <1>7. Blame'
    <2>1. ASSUME stage = "full", retries > 0, faults' <= call[owner].since
          PROVE  Fresh'
      <3>1. InCall
        BY <2>1 DEF InCall
      <3>2. call[owner].since \in Nat /\ call[owner].since <= faults
        BY <3>1, OwnerFacts DEF HInv
      <3>3. faults' = faults
        BY <1>2, <2>1, <3>2 DEF Fails
      <3>4. Fresh
        BY <2>1, <3>3 DEF HInv, Blame
      <3>5. QED
        BY <3>3, <3>4
    <2>2. QED
      BY <1>1, <2>1 DEF Blame
  <1>8. QED
    BY <1>1, <1>3, <1>4, <1>5, <1>6, <1>7, OthersStep DEF HInv

LEMMA BackgroundKeeps ==
  ASSUME HInv,
         \/ FillerStep \/ Reserve \/ Reserved \/ CloseWriter \/ Flush
         \/ \E c \in Client : RetryGet(c) \/ NoMemory(c)
  PROVE  HInv' /\ FileStep
  <1>1. faults \in Nat
    BY DEF HInv, RInv, RTypes
  <1>2. CASE FillerStep
    <2>1. UNCHANGED handleVars /\ (TakeToken \/ Exit \/ GetBuffer \/ Fill)
      BY <1>2 DEF FillerStep
    <2>2. RInv' /\ At' = At /\ ~Dead /\ Fails /\ (Fresh /\ faults' = faults => Fresh')
      BY <2>1, FillerKeeps DEF HInv, Fails
    <2>3. QED
      BY <2>1, <2>2, OthersKeep
  <1>3. CASE ~FillerStep
    <2>1. UNCHANGED handleVars /\ UNCHANGED readerVars
      BY <1>3 DEF Reserve, Reserved, CloseWriter, Flush, RetryGet, NoMemory
    <2>2. UNCHANGED core /\ faults' = faults /\ Fails
      BY <2>1 DEF readerVars, core, Fails
    <2>3. RInv' /\ At' = At /\ (Dead' <=> Dead) /\ (Fresh' <=> Fresh)
      BY <1>1, <2>2, SameReader DEF HInv
    <2>4. QED
      BY <2>1, <2>2, <2>3, OthersKeep
  <1>4. QED
    BY <1>2, <1>3

-----------------------------------------------------------------------------

LEMMA InitHInv == Init => HInv /\ File!Init
  <1> SUFFICES ASSUME Init
               PROVE  HInv /\ File!Init
    OBVIOUS
  <1>1. /\ source = [open |-> FALSE, pos |-> 0] /\ filler = "exited" /\ size = 1 /\ ready = <<>> /\ cur = Nil /\ err = "none"
        /\ exit = TRUE /\ faults = 0 /\ owner = Free /\ stage = "none" /\ call = [t \in Thread |-> Idle] /\ waiting = {}
        /\ got = <<>> /\ skip = 0 /\ retries = 0 /\ offset = 0 /\ opened = FALSE /\ closed = FALSE
        /\ answer = [t \in Thread |-> Nothing]
    BY DEF Init, ReaderInit
  <1>2. Size \in Nat /\ Retries \in Nat /\ Free # Closer /\ Free \notin Thread
    BY ReaderAssumption, HandleAssumption
  <1>3. RTypes
    <2>1. source \in [open : BOOLEAN, pos : 0..Size] /\ <<>> \in Seq(Buffer)
      BY <1>1, <1>2
    <2>2. QED
      BY <1>1, <2>1 DEF RTypes
  <1>4. RInv
    BY <1>1, <1>3 DEF RInv, Linked, Ends, IsEmpty
  <1>5. HTypes
    <2>1. call \in [Thread -> Request \cup {Idle}]
      BY <1>1
    <2>2. got \in Seq(Nat) /\ retries \in 0..Retries
      BY <1>1, <1>2
    <2>3. owner \in Thread \cup {Closer, Free} /\ stage \in Stage /\ waiting \subseteq Thread
      BY <1>1 DEF Stage
    <2>4. skip \in Nat /\ offset \in Nat /\ opened \in BOOLEAN /\ closed \in BOOLEAN
      BY <1>1
    <2>5. QED
      BY <2>1, <2>2, <2>3, <2>4 DEF HTypes
  <1>6. Owned /\ Placed /\ Right /\ Blame
    BY <1>1, <1>2 DEF Owned, Placed, Right, Blame
  <1>7. File!Init
    BY <1>1 DEF File!Init, File!Nothing, Nothing
  <1>8. QED
    BY <1>4, <1>5, <1>6, <1>7 DEF HInv

LEMMA NextHInv == HInv /\ [Next]_vars => HInv' /\ FileStep
  <1> SUFFICES ASSUME HInv, [Next]_vars
               PROVE  HInv' /\ FileStep
    OBVIOUS
  <1>1. CASE UNCHANGED vars
    <2>1. UNCHANGED handleVars /\ UNCHANGED core /\ faults' = faults /\ faults \in Nat /\ Fails
      BY <1>1 DEF vars, handleVars, readerVars, core, localVars, fieldVars, HInv, RInv, RTypes, Fails
    <2>2. QED
      BY <2>1, SameReader, OthersKeep DEF HInv
  <1>2. ASSUME NEW t \in Thread, Begin(t) \/ Resume(t)
        PROVE  HInv' /\ FileStep
    BY <1>2, BeginKeeps, ResumeKeeps
  <1>3. CASE ReadStep
    BY <1>3, OpenPendingKeeps, WaitKeeps, NoWaitKeeps, BeyondEndKeeps, SeekBackKeeps, SeekRefusedKeeps, SeekSkipsKeeps,
       DropStepKeeps, OverKeeps, OverFailsKeeps, AbandonSkippedKeeps, RangeSeekKeeps, RangeSeekFailsKeeps, StopReadingKeeps,
       ReopenKeeps, DiscardCurKeeps, ReadSomeKeeps, ReadEndedKeeps DEF ReadStep
  <1>4. CASE OpenFails \/ ReopenFails \/ Close \/ CloseDone
    BY <1>4, OpenFailsKeeps, ReopenFailsKeeps, CloseKeeps, CloseDoneKeeps
  <1>5. CASE \/ FillerStep \/ Reserve \/ Reserved \/ CloseWriter \/ Flush
             \/ \E c \in Client : RetryGet(c) \/ NoMemory(c)
    BY <1>5, BackgroundKeeps
  <1>6. QED
    BY <1>1, <1>2, <1>3, <1>4, <1>5 DEF Next

\* A read handle implements the abstract file: every ReadAt of vfs/read.go returns the
\* bytes of the file at its offset, to the end of the request or of the file, or fails
\* after a failure of the source, whatever was skipped, read ahead, abandoned, reopened
\* or read by another call meanwhile.
THEOREM ReadImplementsFile == Spec => ReadsFile
  <1>1. Init => HInv /\ File!Init
    BY InitHInv
  <1>2. HInv /\ [Next]_vars => HInv' /\ [File!Next]_File!vars
    BY NextHInv DEF FileStep
  <1>3. QED
    BY <1>1, <1>2, PTL DEF Spec, ReadsFile, File!Spec

-----------------------------------------------------------------------------
(* Memory: the pool's counters agree with who holds buffers *)

\* The queues of the semaphore: its two clients, each at most once.
Queues == {<<>>, <<Filler>>, <<Writer>>, <<Filler, Writer>>, <<Writer, Filler>>}

LEMMA DemandFacts ==
  ASSUME queue \in Queues
  PROVE  /\ Len(queue) \in 0..2 /\ Demand(0) = 0
         /\ Len(queue) >= 1 => Demand(1) = Wants[queue[1]]
         /\ Len(queue) = 2 => Demand(2) = Wants[queue[1]] + Wants[queue[2]]
  <1> DEFINE n == Len(queue)
             v(i) == Wants[queue[i]]
             h == [i \in 0..n |-> IF i = 0 THEN 0 ELSE IF i = 1 THEN v(1) ELSE v(1) + v(2)]
             sum == CHOOSE g : g = [i \in 0..n |-> IF i = 0 THEN 0 ELSE g[i - 1] + v(i)]
  <1>1. /\ Filler \in Client /\ Writer \in Client
        /\ Wants[Filler] \in Nat /\ Wants[Writer] \in Nat
    BY PoolAssumption, ReaderAssumption, HandleAssumption
  <1>2. n \in 0..2 /\ (n >= 1 => v(1) \in Nat) /\ (n = 2 => v(2) \in Nat)
    BY <1>1 DEF Queues
  <1>3. \A k : Demand(k) = sum[k]
    BY DEF Demand
  <1> HIDE DEF n, v
  <1>4. h = [i \in 0..n |-> IF i = 0 THEN 0 ELSE h[i - 1] + v(i)]
    <2>1. \A i \in 0..n : h[i] = IF i = 0 THEN 0 ELSE h[i - 1] + v(i)
      BY <1>2
    <2>2. QED
      BY <2>1
  <1> HIDE DEF h
  <1>5. \E g : g = [i \in 0..n |-> IF i = 0 THEN 0 ELSE g[i - 1] + v(i)]
    BY <1>4
  <1>6. sum = [i \in 0..n |-> IF i = 0 THEN 0 ELSE sum[i - 1] + v(i)]
    BY <1>5
  <1> HIDE DEF sum
  <1>7. sum[0] = 0 /\ (n >= 1 => sum[1] = v(1)) /\ (n = 2 => sum[2] = v(1) + v(2))
    <2>1. sum[0] = 0
      BY <1>2, <1>6
    <2>2. n >= 1 => sum[1] = sum[0] + v(1)
      BY <1>2, <1>6
    <2>3. n = 2 => sum[2] = sum[1] + v(2)
      BY <1>2, <1>6
    <2>4. QED
      BY <1>2, <2>1, <2>2, <2>3
  <1>8. QED
    BY <1>2, <1>3, <1>7 DEF n, v

Waits(c) == \E i \in 1..Len(queue) : queue[i] = c
Place == {"no", "queued", "acquired", "asleep"}

\* What a client has acquired and not taken yet.
Owed(g, c) == IF g[c] = "acquired" THEN Wants[c] ELSE 0

\* at says where every call is, and the queue agrees.
Lined(at) ==
  /\ at \in [Client -> Place]
  /\ \A c \in Client : at[c] = "queued" <=> Waits(c)
  /\ \A c \in Client \ {Filler, Writer} : at[c] = "no"

\* The pool's own counters.
PoolOK ==
  /\ cache \in Nat /\ minFill \in Nat /\ inUse \in Nat /\ alloced \in Nat /\ used \in Nat
  /\ queue \in Queues /\ Lined(getting)
  /\ alloced = cache + inUse /\ minFill <= cache
  /\ used = inUse + Owed(getting, Filler) + Owed(getting, Writer) /\ used <= Limit

\* There is no reader, or one that has been abandoned.
Vacant == cur = Nil /\ ready = <<>> /\ filler = "exited"

\* Who has buffers, and who waits for some; a new reader is made only where there is none.
Holders ==
  /\ writer \in {"idle", "get", "has"}
  /\ inUse = Buffered + (IF writer = "has" THEN Wants[Writer] ELSE 0)
  /\ filler = "get" <=> getting[Filler] # "no"
  /\ writer = "get" <=> getting[Writer] # "no"
  /\ ~opened \/ stage = "range" => Vacant

MInv == PoolOK /\ Holders

LEMMA ClientFacts ==
  /\ Filler \in Client /\ Writer \in Client /\ Filler # Writer /\ Limit \in Nat /\ PoolSize \in Nat
  /\ Wants[Filler] = 1 /\ Wants[Writer] \in Nat /\ Wants[Writer] >= 1 /\ Wants[Writer] <= Limit /\ 1 <= Limit
  <1>1. Filler \in Client /\ Writer \in Client /\ Filler # Writer /\ Wants[Filler] = 1
    BY ReaderAssumption, HandleAssumption
  <1>2. Limit \in Nat /\ PoolSize \in Nat /\ Wants[Filler] \in 1..Limit /\ Wants[Writer] \in 1..Limit
    BY <1>1, PoolAssumption
  <1>3. QED
    BY <1>1, <1>2

\* The semaphore serves the calls at the front of the queue, as many as there is memory for.
LEMMA ServedFacts ==
  ASSUME queue \in Queues, NEW u \in 0..Limit
  PROVE  /\ Served(u) \in 0..Len(queue) /\ u + Demand(Served(u)) <= Limit
  <1>1. /\ Len(queue) \in 0..2 /\ Demand(0) = 0
        /\ Len(queue) >= 1 => Demand(1) = Wants[queue[1]]
        /\ Len(queue) = 2 => Demand(2) = Wants[queue[1]] + Wants[queue[2]]
    BY DemandFacts
  <1>2. /\ Len(queue) >= 1 => Wants[queue[1]] \in Nat
        /\ Len(queue) = 2 => Wants[queue[2]] \in Nat
    BY ClientFacts DEF Queues
  <1> DEFINE P(k) == /\ u + Demand(k) <= Limit
                     /\ k < Len(queue) => u + Demand(k + 1) > Limit
  <1>3. \E k \in 0..Len(queue) : P(k)
    <2> DEFINE n == Len(queue)
    <2>1. Limit \in Nat /\ n \in 0..2
      BY <1>1, ClientFacts
    <2>2. CASE n = 0
      <3>1. P(0)
        BY <1>1, <2>1, <2>2
      <3>2. QED
        BY <2>1, <3>1
    <2>3. CASE n >= 1 /\ u + Demand(1) > Limit
      <3>1. P(0)
        BY <1>1, <2>1, <2>3
      <3>2. QED
        BY <2>1, <3>1
    <2>4. CASE n = 1 /\ u + Demand(1) <= Limit
      <3>1. P(1)
        BY <1>1, <2>1, <2>4
      <3>2. QED
        BY <2>1, <2>4, <3>1
    <2>5. CASE n = 2 /\ u + Demand(1) <= Limit /\ u + Demand(2) > Limit
      <3>1. P(1)
        BY <1>1, <2>1, <2>5
      <3>2. QED
        BY <2>1, <2>5, <3>1
    <2>6. CASE n = 2 /\ u + Demand(1) <= Limit /\ u + Demand(2) <= Limit
      <3>1. P(2)
        BY <1>1, <2>1, <2>6
      <3>2. QED
        BY <2>1, <2>6, <3>1
    <2>7. n = 0 \/ n = 1 \/ n = 2
      BY <2>1
    <2>8. /\ n >= 1 => Demand(1) \in Nat
          /\ n = 2 => Demand(2) \in Nat
      BY <1>1, <1>2
    <2>9. QED
      BY <2>1, <2>2, <2>3, <2>4, <2>5, <2>6, <2>7, <2>8
  <1>4. Served(u) = CHOOSE k \in 0..Len(queue) : P(k)
    BY DEF Served
  <1>5. QED
    BY <1>3, <1>4

\* What a release does: calls are served, and what they get is used.
LEMMA ReleaseKeeps ==
  ASSUME queue \in Queues, NEW u \in 0..Limit, NEW at, Lined(at), Release(u, at)
  PROVE  /\ queue' \in Queues /\ Lined(getting)' /\ used' \in Nat /\ used' <= Limit
         /\ used' = u + (Owed(getting', Filler) - Owed(at, Filler)) + (Owed(getting', Writer) - Owed(at, Writer))
         /\ \A c \in Client : getting'[c] = "no" <=> at[c] = "no"
  <1> DEFINE k == Served(u)
  <1>1. /\ used' = u + Demand(k) /\ queue' = SubSeq(queue, k + 1, Len(queue))
        /\ getting' = [c \in Client |-> IF \E i \in 1..k : queue[i] = c THEN "acquired" ELSE at[c]]
    BY DEF Release
  <1>2. k \in 0..Len(queue) /\ u + Demand(k) <= Limit
    BY ServedFacts
  <1> HIDE DEF k
  <1>3. /\ Len(queue) \in 0..2 /\ Demand(0) = 0
        /\ Len(queue) >= 1 => Demand(1) = Wants[queue[1]]
        /\ Len(queue) = 2 => Demand(2) = Wants[queue[1]] + Wants[queue[2]]
    BY DemandFacts
  <1>4. /\ Filler \in Client /\ Writer \in Client /\ Filler # Writer /\ Wants[Filler] \in Nat /\ Wants[Writer] \in Nat
        /\ Limit \in Nat
    BY ClientFacts
  <1>5. /\ at \in [Client -> Place]
        /\ \A c \in Client : at[c] = "queued" <=> Waits(c)
        /\ \A c \in Client \ {Filler, Writer} : at[c] = "no"
    BY DEF Lined
  <1>6. CASE k = 0
    <2>1. queue' = queue
      BY <1>1, <1>6 DEF Queues
    <2>2. getting' = at
      <3>1. \A c \in Client : getting'[c] = at[c]
        BY <1>1, <1>6
      <3>2. QED
        BY <1>1, <1>5, <3>1
    <2>3. used' = u
      BY <1>1, <1>3, <1>6
    <2>4. Lined(getting)'
      BY <1>5, <2>1, <2>2 DEF Lined, Waits
    <2>5. Owed(at, Filler) \in Nat /\ Owed(at, Writer) \in Nat
      BY <1>4 DEF Owed
    <2>6. QED
      BY <1>4, <2>1, <2>2, <2>3, <2>4, <2>5
  <1>7. ASSUME NEW a \in {Filler, Writer}, queue = <<a>>, k = 1
        PROVE  /\ queue' \in Queues /\ Lined(getting)' /\ used' \in Nat /\ used' <= Limit
               /\ used' = u + (Owed(getting', Filler) - Owed(at, Filler)) + (Owed(getting', Writer) - Owed(at, Writer))
               /\ \A c \in Client : getting'[c] = "no" <=> at[c] = "no"
    <2>1. queue' = <<>> /\ used' = u + Wants[a] /\ used' <= Limit
      BY <1>1, <1>2, <1>3, <1>7
    <2>2. \A c \in Client : getting'[c] = IF c = a THEN "acquired" ELSE at[c]
      BY <1>1, <1>7
    <2>3. \A c \in Client : at[c] = "queued" <=> c = a
      <3>1. Len(queue) = 1 /\ queue[1] = a
        BY <1>7
      <3>2. \A c : Waits(c) <=> c = a
        BY <3>1 DEF Waits
      <3>3. QED
        BY <1>5, <3>2
    <2>4. Lined(getting)'
      <3>1. getting' \in [Client -> Place]
        BY <1>1, <1>5 DEF Place
      <3>2. \A c \in Client : getting'[c] = "queued" <=> Waits(c)'
        BY <2>1, <2>2, <2>3 DEF Waits
      <3>3. QED
        BY <1>5, <1>7, <2>2, <3>1, <3>2 DEF Lined
    <2>5. used' = u + (Owed(getting', Filler) - Owed(at, Filler)) + (Owed(getting', Writer) - Owed(at, Writer))
      BY <1>4, <1>7, <2>1, <2>2, <2>3 DEF Owed
    <2>6. queue' \in Queues /\ used' \in Nat
      BY <1>4, <1>7, <2>1 DEF Queues
    <2>7. QED
      BY <2>1, <2>2, <2>3, <2>4, <2>5, <2>6
  <1>8. ASSUME NEW a \in {Filler, Writer}, NEW b \in {Filler, Writer}, a # b, queue = <<a, b>>, k = 1
        PROVE  /\ queue' \in Queues /\ Lined(getting)' /\ used' \in Nat /\ used' <= Limit
               /\ used' = u + (Owed(getting', Filler) - Owed(at, Filler)) + (Owed(getting', Writer) - Owed(at, Writer))
               /\ \A c \in Client : getting'[c] = "no" <=> at[c] = "no"
    <2>1. queue' = <<b>> /\ used' = u + Wants[a] /\ used' <= Limit
      <3>1. Len(queue) = 2 /\ queue[1] = a
        BY <1>8
      <3>2. queue' = SubSeq(queue, 2, 2)
        BY <1>1, <1>8, <3>1
      <3>3. queue \in Seq({a, b}) /\ queue[2] = b
        BY <1>8
      <3>4. queue' \in Seq({a, b}) /\ Len(queue') = 1 /\ queue'[1] = b
        BY <3>1, <3>2, <3>3
      <3>5. queue' = <<b>>
        BY <3>4
      <3>6. Demand(1) = Wants[a]
        BY <1>3, <3>1
      <3>7. QED
        BY <1>1, <1>2, <1>8, <3>5, <3>6
    <2>2. \A c \in Client : getting'[c] = IF c = a THEN "acquired" ELSE at[c]
      BY <1>1, <1>8
    <2>3. \A c \in Client : at[c] = "queued" <=> c = a \/ c = b
      <3>1. Len(queue) = 2 /\ queue[1] = a /\ queue[2] = b
        BY <1>8
      <3>2. \A c : Waits(c) <=> c = a \/ c = b
        BY <3>1 DEF Waits
      <3>3. QED
        BY <1>5, <3>2
    <2>4. Lined(getting)'
      <3>1. getting' \in [Client -> Place]
        BY <1>1, <1>5 DEF Place
      <3>2. \A c \in Client : Waits(c)' <=> c = b
        BY <2>1 DEF Waits
      <3>3. QED
        BY <1>5, <1>8, <2>2, <2>3, <3>1, <3>2 DEF Lined
    <2>5. used' = u + (Owed(getting', Filler) - Owed(at, Filler)) + (Owed(getting', Writer) - Owed(at, Writer))
      BY <1>4, <1>8, <2>1, <2>2, <2>3 DEF Owed
    <2>6. queue' \in Queues /\ used' \in Nat
      BY <1>4, <1>8, <2>1 DEF Queues
    <2>7. QED
      BY <2>1, <2>2, <2>3, <2>4, <2>5, <2>6
  <1>9. ASSUME NEW a \in {Filler, Writer}, NEW b \in {Filler, Writer}, a # b, queue = <<a, b>>, k = 2
        PROVE  /\ queue' \in Queues /\ Lined(getting)' /\ used' \in Nat /\ used' <= Limit
               /\ used' = u + (Owed(getting', Filler) - Owed(at, Filler)) + (Owed(getting', Writer) - Owed(at, Writer))
               /\ \A c \in Client : getting'[c] = "no" <=> at[c] = "no"
    <2>1. queue' = <<>> /\ used' = u + (Wants[a] + Wants[b]) /\ used' <= Limit
      BY <1>1, <1>2, <1>3, <1>9
    <2>2. \A c \in Client : getting'[c] = IF c = a \/ c = b THEN "acquired" ELSE at[c]
      BY <1>1, <1>9
    <2>3. \A c \in Client : at[c] = "queued" <=> c = a \/ c = b
      <3>1. Len(queue) = 2 /\ queue[1] = a /\ queue[2] = b
        BY <1>9
      <3>2. \A c : Waits(c) <=> c = a \/ c = b
        BY <3>1 DEF Waits
      <3>3. QED
        BY <1>5, <3>2
    <2>4. Lined(getting)'
      <3>1. getting' \in [Client -> Place]
        BY <1>1, <1>5 DEF Place
      <3>2. \A c \in Client : getting'[c] = "queued" <=> Waits(c)'
        BY <2>1, <2>2, <2>3 DEF Waits
      <3>3. QED
        BY <1>5, <1>9, <2>2, <3>1, <3>2 DEF Lined
    <2>5. used' = u + (Owed(getting', Filler) - Owed(at, Filler)) + (Owed(getting', Writer) - Owed(at, Writer))
      BY <1>4, <1>9, <2>1, <2>2, <2>3 DEF Owed
    <2>6. queue' \in Queues /\ used' \in Nat
      BY <1>4, <1>9, <2>1 DEF Queues
    <2>7. QED
      BY <2>1, <2>2, <2>3, <2>4, <2>5, <2>6
  <1>12. (k = 0 \/ k = 1 \/ k = 2) /\ (k = 2 => Len(queue) # 0 /\ Len(queue) # 1)
    <2> DEFINE n == Len(queue)
    <2>1. n \in 0..2 /\ k \in 0..n
      BY <1>2, <1>3
    <2> HIDE DEF n
    <2>2. (k = 0 \/ k = 1 \/ k = 2) /\ (k = 2 => n # 0 /\ n # 1)
      BY <2>1
    <2>3. QED
      BY <2>2 DEF n
  <1>10. CASE k = 1
    <2>1. \/ \E a \in {Filler, Writer} : queue = <<a>>
          \/ \E a, b \in {Filler, Writer} : a # b /\ queue = <<a, b>>
      <3>1. queue # <<>>
        BY <1>2, <1>10
      <3>2. QED
        BY <1>4, <3>1 DEF Queues
    <2>2. QED
      BY <1>7, <1>8, <1>10, <2>1
  <1>11. CASE k = 2
    <2>1. \E a, b \in {Filler, Writer} : a # b /\ queue = <<a, b>>
      <3>1. Len(queue) # 0 /\ Len(queue) # 1
        BY <1>11, <1>12
      <3>2. queue = <<Filler, Writer>> \/ queue = <<Writer, Filler>>
        BY <3>1 DEF Queues
      <3>3. QED
        BY <1>4, <3>2
    <2>2. QED
      BY <1>9, <1>11, <2>1
  <1>13. QED
    BY <1>6, <1>10, <1>11, <1>12

\* A step that leaves the queue alone and moves one client on.
LEMMA MovesOn ==
  ASSUME PoolOK, NEW c \in {Filler, Writer}, NEW p \in Place \ {"queued"}, ~Waits(c),
         queue' = queue, getting' = [getting EXCEPT ![c] = p]
  PROVE  Lined(getting)' /\ getting'[c] = p /\ \A d \in Client \ {c} : getting'[d] = getting[d]
  <1>1. /\ getting \in [Client -> Place] /\ c \in Client
        /\ \A d \in Client : getting[d] = "queued" <=> Waits(d)
        /\ \A d \in Client \ {Filler, Writer} : getting[d] = "no"
    BY ClientFacts DEF PoolOK, Lined
  <1>2. getting' \in [Client -> Place] /\ \A d \in Client : getting'[d] = IF d = c THEN p ELSE getting[d]
    BY <1>1
  <1>3. \A d : Waits(d)' <=> Waits(d)
    BY DEF Waits
  <1>4. QED
    BY <1>1, <1>2, <1>3 DEF Lined

LEMMA LastIs ==
  ASSUME NEW S, NEW q \in Seq(S), NEW c \in S
  PROVE  Append(q, c)[Len(q) + 1] = c
  OBVIOUS

LEMMA Pair ==
  ASSUME NEW S, NEW q \in Seq(S), NEW c \in S, Len(q) = 1
  PROVE  Append(q, c) = <<q[1], c>>
  <1> DEFINE r == Append(q, c)
  <1>1. r \in Seq(S) /\ Len(r) = Len(q) + 1
    OBVIOUS
  <1>2. r[1] = q[1]
    OBVIOUS
  <1>3. r[Len(q) + 1] = c
    BY LastIs
  <1> HIDE DEF r
  <1>4. Len(r) = 2 /\ r[2] = c
    BY <1>1, <1>3
  <1>5. r = <<q[1], c>>
    BY <1>1, <1>2, <1>4
  <1>6. QED
    BY <1>5 DEF r

\* GetN waits for the semaphore.
LEMMA AcquireKeeps ==
  ASSUME PoolOK, NEW c \in {Filler, Writer}, getting[c] \in {"no", "asleep"}, Acquire(c)
  PROVE  PoolOK' /\ UNCHANGED inUse /\ getting'[c] # "no" /\ \A d \in Client \ {c} : getting'[d] = getting[d]
  <1>1. /\ getting \in [Client -> Place] /\ c \in Client
        /\ \A d \in Client : getting[d] = "queued" <=> Waits(d)
        /\ \A d \in Client \ {Filler, Writer} : getting[d] = "no"
    BY ClientFacts DEF PoolOK, Lined
  <1>2. UNCHANGED <<cache, minFill, inUse, alloced>> /\ ~Waits(c)
    BY <1>1 DEF Acquire
  <1>3. Filler # Writer /\ Wants[Filler] \in Nat /\ Wants[Writer] \in Nat /\ Limit \in Nat /\ Filler \in Client /\ Writer \in Client
    BY ClientFacts
  <1>4. CASE queue = <<>> /\ used + Wants[c] <= Limit
    <2>1. /\ used' = used + Wants[c] /\ getting' = [getting EXCEPT ![c] = "acquired"] /\ queue' = queue
      BY <1>4 DEF Acquire
    <2>2. Lined(getting)' /\ getting'[c] = "acquired" /\ \A d \in Client \ {c} : getting'[d] = getting[d]
      BY <1>2, <2>1, MovesOn DEF Place
    <2>3. used' = inUse' + Owed(getting', Filler) + Owed(getting', Writer) /\ used' <= Limit /\ used' \in Nat
      <3>1. /\ used = inUse + Owed(getting, Filler) + Owed(getting, Writer) /\ used \in Nat /\ inUse \in Nat
            /\ Owed(getting, Filler) \in Nat /\ Owed(getting, Writer) \in Nat
        BY <1>3 DEF PoolOK, Owed
      <3>2. Owed(getting', c) = Wants[c] /\ Owed(getting, c) = 0 /\ \A d \in {Filler, Writer} \ {c} : Owed(getting', d) = Owed(getting, d)
        BY <1>3, <2>2 DEF Owed
      <3>3. used' = used + Wants[c] /\ used + Wants[c] <= Limit /\ inUse' = inUse
        BY <1>2, <1>4, <2>1
      <3>4. CASE c = Filler
        <4>1. Owed(getting', Filler) = Wants[Filler] /\ Owed(getting, Filler) = 0 /\ Owed(getting', Writer) = Owed(getting, Writer)
          BY <1>3, <3>2, <3>4
        <4>2. QED
          BY <1>3, <3>1, <3>3, <3>4, <4>1
      <3>5. CASE c = Writer
        <4>1. Owed(getting', Writer) = Wants[Writer] /\ Owed(getting, Writer) = 0 /\ Owed(getting', Filler) = Owed(getting, Filler)
          BY <1>3, <3>2, <3>5
        <4>2. QED
          BY <1>3, <3>1, <3>3, <3>5, <4>1
      <3>6. QED
        BY <3>4, <3>5
    <2>4. QED
      BY <1>2, <2>1, <2>2, <2>3 DEF PoolOK
  <1>5. CASE ~(queue = <<>> /\ used + Wants[c] <= Limit)
    <2>1. queue' = Append(queue, c) /\ getting' = [getting EXCEPT ![c] = "queued"] /\ used' = used
      BY <1>5 DEF Acquire
    <2>2. \/ queue = <<>> /\ queue' = <<c>>
          \/ \E d \in {Filler, Writer} : d # c /\ queue = <<d>> /\ queue' = <<d, c>>
      <3>1. CASE queue = <<>>
        BY <2>1, <3>1
      <3>2. ASSUME NEW d \in {Filler, Writer}, queue = <<d>>
            PROVE  d # c /\ queue' = <<d, c>>
        <4>1. Len(queue) = 1 /\ queue[1] = d
          BY <3>2
        <4>2. Waits(d)
          BY <4>1 DEF Waits
        <4>3. queue' = <<d, c>>
          <5>1. queue \in Seq({Filler, Writer})
            BY <3>2
          <5>2. queue' = <<queue[1], c>>
            BY <2>1, <4>1, <5>1, Pair
          <5>3. QED
            BY <4>1, <5>2
        <4>4. QED
          BY <1>2, <4>2, <4>3
      <3>3. ASSUME NEW d \in {Filler, Writer}, NEW e \in {Filler, Writer}, d # e, queue = <<d, e>>
            PROVE  FALSE
        <4>1. Len(queue) = 2 /\ queue[1] = d /\ queue[2] = e
          BY <3>3
        <4>2. Waits(d) /\ Waits(e)
          BY <4>1 DEF Waits
        <4>3. QED
          BY <1>2, <3>3, <4>2
      <3>4. queue \in Queues
        BY DEF PoolOK
      <3>5. QED
        BY <1>3, <3>1, <3>2, <3>3, <3>4 DEF Queues
    <2>3. queue' \in Queues
      BY <2>2 DEF Queues
    <2>4. \A d : Waits(d)' <=> Waits(d) \/ d = c
      <3>1. CASE queue = <<>> /\ queue' = <<c>>
        BY <3>1 DEF Waits
      <3>2. ASSUME NEW d \in {Filler, Writer}, queue = <<d>>, queue' = <<d, c>>
            PROVE  \A x : Waits(x)' <=> Waits(x) \/ x = c
        <4>1. Len(queue) = 1 /\ queue[1] = d /\ Len(queue') = 2 /\ queue'[1] = d /\ queue'[2] = c
          BY <3>2
        <4>2. QED
          BY <4>1 DEF Waits
      <3>3. QED
        BY <2>2, <3>1, <3>2
    <2>5. getting' \in [Client -> Place] /\ \A d \in Client : getting'[d] = IF d = c THEN "queued" ELSE getting[d]
      BY <1>1, <2>1 DEF Place
    <2>6. Lined(getting)'
      BY <1>1, <2>4, <2>5 DEF Lined
    <2>7. used' = inUse' + Owed(getting', Filler) + Owed(getting', Writer) /\ used' <= Limit /\ used' \in Nat
      <3>1. Owed(getting', Filler) = Owed(getting, Filler) /\ Owed(getting', Writer) = Owed(getting, Writer)
        BY <1>3, <2>5 DEF Owed
      <3>2. QED
        BY <1>2, <2>1, <3>1 DEF PoolOK
    <2>8. PoolOK'
      BY <1>2, <2>3, <2>6, <2>7 DEF PoolOK
    <2>9. QED
      BY <1>1, <1>2, <2>5, <2>8
  <1>6. QED
    BY <1>4, <1>5

\* GetN takes what is cached and allocates the rest.
LEMMA TakeKeeps ==
  ASSUME PoolOK, NEW c \in {Filler, Writer}, Take(c)
  PROVE  PoolOK' /\ inUse' = inUse + Wants[c] /\ getting'[c] = "no" /\ \A d \in Client \ {c} : getting'[d] = getting[d]
  <1>1. /\ getting[c] = "acquired" /\ cache' = cache - Have(c) /\ alloced' = alloced + (Wants[c] - Have(c))
        /\ inUse' = inUse + Wants[c] /\ minFill' = AtMost(minFill, cache') /\ getting' = [getting EXCEPT ![c] = "no"]
        /\ used' = used /\ queue' = queue
    BY DEF Take
  <1>2. Filler # Writer /\ Wants[Filler] \in Nat /\ Wants[Writer] \in Nat /\ Limit \in Nat /\ Filler \in Client /\ Writer \in Client
    BY ClientFacts
  <1>3. ~Waits(c)
    BY <1>1, <1>2 DEF PoolOK, Lined
  <1>4. Lined(getting)' /\ getting'[c] = "no" /\ \A d \in Client \ {c} : getting'[d] = getting[d]
    BY <1>1, <1>3, MovesOn DEF Place
  <1>5. cache \in Nat /\ minFill \in Nat /\ inUse \in Nat /\ alloced \in Nat /\ alloced = cache + inUse /\ minFill <= cache
    BY DEF PoolOK
  <1>6. /\ cache' \in Nat /\ minFill' \in Nat /\ inUse' \in Nat /\ alloced' \in Nat /\ alloced' = cache' + inUse'
        /\ minFill' <= cache'
    BY <1>1, <1>2, <1>5 DEF Have, AtMost
  <1>7. used' = inUse' + Owed(getting', Filler) + Owed(getting', Writer)
    BY <1>1, <1>2, <1>4, <1>5 DEF PoolOK, Owed
  <1>8. QED
    BY <1>1, <1>4, <1>6, <1>7 DEF PoolOK

\* GetN gives everything back when an allocation fails.
LEMMA AllocFailsKeeps ==
  ASSUME PoolOK, NEW c \in {Filler, Writer}, AllocFails(c)
  PROVE  PoolOK' /\ UNCHANGED inUse /\ \A d \in Client : getting'[d] = "no" <=> getting[d] = "no"
  <1> DEFINE at == [getting EXCEPT ![c] = "asleep"]
  <1>1. /\ getting[c] = "acquired" /\ Release(used - Wants[c], at) /\ UNCHANGED <<minFill, inUse>>
    BY DEF AllocFails, UsedAfterFail
  <1>2. PICK j \in 0..(Wants[c] - Have(c) - 1) : cache' = cache + j /\ alloced' = alloced + j
    BY DEF AllocFails
  <1>3. Filler # Writer /\ Wants[Filler] \in Nat /\ Wants[Writer] \in Nat /\ Limit \in Nat /\ Filler \in Client /\ Writer \in Client
    BY ClientFacts
  <1>4. /\ getting \in [Client -> Place] /\ \A d \in Client : getting[d] = "queued" <=> Waits(d)
        /\ \A d \in Client \ {Filler, Writer} : getting[d] = "no"
    BY DEF PoolOK, Lined
  <1>5. at \in [Client -> Place] /\ \A d \in Client : at[d] = IF d = c THEN "asleep" ELSE getting[d]
    BY <1>4 DEF Place
  <1> HIDE DEF at
  <1>6. Lined(at)
    BY <1>1, <1>3, <1>4, <1>5 DEF Lined
  <1>7. /\ Owed(at, Filler) \in Nat /\ Owed(at, Writer) \in Nat /\ inUse \in Nat
        /\ used - Wants[c] = inUse + Owed(at, Filler) + Owed(at, Writer) /\ used - Wants[c] \in 0..Limit
    BY <1>1, <1>3, <1>5 DEF PoolOK, Owed
  <1>8. queue \in Queues
    BY DEF PoolOK
  <1>9. /\ queue' \in Queues /\ Lined(getting)' /\ used' \in Nat /\ used' <= Limit
        /\ used' = (used - Wants[c]) + (Owed(getting', Filler) - Owed(at, Filler)) + (Owed(getting', Writer) - Owed(at, Writer))
        /\ \A d \in Client : getting'[d] = "no" <=> at[d] = "no"
    BY <1>1, <1>6, <1>7, <1>8, ReleaseKeeps
  <1>10. Owed(getting', Filler) \in Nat /\ Owed(getting', Writer) \in Nat
    BY <1>3 DEF Owed
  <1>11. used' = inUse' + Owed(getting', Filler) + Owed(getting', Writer)
    BY <1>1, <1>7, <1>9, <1>10
  <1>12. cache \in Nat /\ minFill \in Nat /\ alloced \in Nat /\ alloced = cache + inUse /\ minFill <= cache
    BY DEF PoolOK
  <1>13. j \in Nat
    BY <1>2, <1>3, <1>12 DEF Have, AtMost
  <1>14. cache' \in Nat /\ alloced' \in Nat /\ alloced' = cache' + inUse' /\ minFill' <= cache'
    BY <1>1, <1>2, <1>7, <1>12, <1>13
  <1>15. QED
    BY <1>1, <1>3, <1>5, <1>9, <1>11, <1>12, <1>14 DEF PoolOK

\* Put caches what fits, frees the rest and releases the memory.
LEMMA PutKeeps ==
  ASSUME PoolOK, NEW k \in Nat, k <= inUse, Put(k)
  PROVE  PoolOK' /\ inUse' = inUse - k /\ \A d \in Client : getting'[d] = "no" <=> getting[d] = "no"
  <1>1. /\ cache' = cache + Kept(k) /\ alloced' = alloced - (k - Kept(k)) /\ inUse' = inUse - k
        /\ minFill' = AtMost(minFill, cache') /\ Release(used - k, getting)
    BY DEF Put
  <1>2. Filler # Writer /\ Wants[Filler] \in Nat /\ Wants[Writer] \in Nat /\ Limit \in Nat /\ PoolSize \in Nat
    BY ClientFacts
  <1>3. /\ cache \in Nat /\ minFill \in Nat /\ inUse \in Nat /\ alloced \in Nat /\ alloced = cache + inUse /\ minFill <= cache
        /\ used \in Nat /\ used <= Limit /\ used = inUse + Owed(getting, Filler) + Owed(getting, Writer)
        /\ queue \in Queues /\ Lined(getting)
    BY DEF PoolOK
  <1>4. Owed(getting, Filler) \in Nat /\ Owed(getting, Writer) \in Nat /\ Owed(getting', Filler) \in Nat /\ Owed(getting', Writer) \in Nat
    BY <1>2 DEF Owed
  <1>5. used - k \in 0..Limit
    BY <1>2, <1>3, <1>4
  <1>6. /\ queue' \in Queues /\ Lined(getting)' /\ used' \in Nat /\ used' <= Limit
        /\ used' = (used - k) + (Owed(getting', Filler) - Owed(getting, Filler)) + (Owed(getting', Writer) - Owed(getting, Writer))
        /\ \A d \in Client : getting'[d] = "no" <=> getting[d] = "no"
    BY <1>1, <1>3, <1>5, ReleaseKeeps
  <1>7. used' = inUse' + Owed(getting', Filler) + Owed(getting', Writer)
    BY <1>1, <1>3, <1>4, <1>6
  <1>8. Kept(k) \in 0..k
    BY <1>2, <1>3 DEF Kept, AtMost
  <1>9. /\ cache' \in Nat /\ minFill' \in Nat /\ inUse' \in Nat /\ alloced' \in Nat /\ alloced' = cache' + inUse'
        /\ minFill' <= cache'
    BY <1>1, <1>3, <1>8 DEF AtMost
  <1>10. QED
    BY <1>1, <1>6, <1>7, <1>9 DEF PoolOK

\* The flusher frees what nobody has needed.
LEMMA FlushKeeps ==
  ASSUME PoolOK, FlushAged
  PROVE  PoolOK' /\ UNCHANGED <<inUse, getting>>
  <1>1. /\ cache' = cache - minFill /\ alloced' = alloced - minFill /\ minFill' = cache' /\ UNCHANGED <<inUse, used, queue, getting>>
    BY DEF FlushAged
  <1>2. Lined(getting)'
    BY <1>1 DEF PoolOK, Lined, Waits
  <1>3. QED
    BY <1>1, <1>2 DEF PoolOK, Owed

LEMMA HeldFacts ==
  ASSUME RTypes
  PROVE  /\ Held \in Nat /\ Buffered \in Nat /\ Held <= Buffered /\ (Vacant => Held = 0 /\ Buffered = 0)
         /\ (cur # Nil => Held >= 1) /\ (Held = 0 => cur = Nil /\ ready = <<>>)
  <1> DEFINE n == Len(ready)
  <1>1. ready \in Seq(Buffer) /\ n \in Nat /\ (n = 0 <=> ready = <<>>)
    BY DEF RTypes
  <1> HIDE DEF n
  <1>2. Held = n + (IF cur = Nil THEN 0 ELSE 1)
    BY DEF Held, n
  <1>3. QED
    BY <1>1, <1>2 DEF Buffered, Vacant

LEMMA HeldNext ==
  ASSUME RTypes'
  PROVE  Held' \in Nat /\ Buffered' \in Nat
  <1>1. Len(ready') \in Nat
    BY DEF RTypes
  <1> DEFINE n == Len(ready')
  <1>2. n \in Nat
    BY <1>1
  <1>3. Held' = n + (IF cur' = Nil THEN 0 ELSE 1) /\ Buffered' = Held' + (IF filler' = "read" THEN 1 ELSE 0)
    BY DEF Held, Buffered
  <1> HIDE DEF n
  <1>4. Held' = n \/ Held' = n + 1
    BY <1>2, <1>3
  <1>5. QED
    BY <1>2, <1>3, <1>4

\* The handle and its goroutine, with the pool as it is or after something was put back.
LEMMA HoldersKeep ==
  ASSUME MInv, RTypes, RTypes', PoolOK', writer' = writer, filler' = "get" <=> filler = "get",
         \A d \in Client : getting'[d] = "no" <=> getting[d] = "no", inUse' = inUse + (Buffered' - Buffered),
         ~opened' \/ stage' = "range" => Vacant'
  PROVE  MInv'
  <1>1. Buffered \in Nat /\ Buffered' \in Nat /\ Filler \in Client /\ Writer \in Client /\ Wants[Writer] \in Nat
    <2>1. Buffered' \in Nat
      BY HeldNext
    <2>2. QED
      BY <2>1, HeldFacts, ClientFacts
  <1>2. inUse' = Buffered' + (IF writer' = "has" THEN Wants[Writer] ELSE 0)
    BY <1>1 DEF MInv, Holders
  <1>3. QED
    BY <1>1, <1>2 DEF MInv, Holders

\* A step that leaves the pool alone and moves no buffer.
LEMMA SamePool ==
  ASSUME MInv, RTypes, RTypes', UNCHANGED <<poolVars, writer, filler>>, Held' = Held, ~opened' \/ stage' = "range" => Vacant'
  PROVE  MInv'
  <1>1. UNCHANGED <<cache, minFill, inUse, alloced, used, queue, getting>>
    BY DEF poolVars
  <1>2. PoolOK'
    BY <1>1 DEF MInv, PoolOK, Lined, Waits, Owed
  <1>3. Buffered' = Buffered
    BY DEF Buffered
  <1>4. inUse' = inUse + (Buffered' - Buffered)
    BY <1>1, <1>3, HeldFacts DEF MInv, PoolOK
  <1>5. QED
    BY <1>1, <1>2, <1>4, HoldersKeep

\* A step of the handle that does not touch the buffers.
LEMMA QuietKeeps ==
  ASSUME MInv, RTypes, RTypes', UNCHANGED <<poolVars, writer, filler, ready, cur, opened>>, stage' # "range" \/ stage' = stage
  PROVE  MInv'
  <1>1. Held' = Held /\ (Vacant' <=> Vacant)
    BY DEF Held, Vacant
  <1>2. ~opened' \/ stage' = "range" => Vacant'
    BY <1>1 DEF MInv, Holders
  <1>3. QED
    BY <1>1, <1>2, SamePool

\* Buffers of the reader are put back.
LEMMA PutsBack ==
  ASSUME MInv, RTypes, RTypes', NEW k \in Nat, k <= Held, Held' = Held - k, IF k = 0 THEN UNCHANGED poolVars ELSE Put(k),
         writer' = writer, filler' = filler \/ {filler, filler'} \cap {"read", "get"} = {}, ~opened' \/ stage' = "range" => Vacant'
  PROVE  MInv'
  <1>1. Held \in Nat /\ Buffered \in Nat /\ Held <= Buffered
    BY HeldFacts
  <1>2. k <= inUse /\ inUse \in Nat
    BY <1>1, ClientFacts DEF MInv, Holders, PoolOK
  <1>3. PoolOK' /\ inUse' = inUse - k /\ \A d \in Client : getting'[d] = "no" <=> getting[d] = "no"
    <2>1. CASE k = 0
      <3>1. UNCHANGED <<cache, minFill, inUse, alloced, used, queue, getting>>
        BY <2>1 DEF poolVars
      <3>2. PoolOK'
        BY <3>1 DEF MInv, PoolOK, Lined, Waits, Owed
      <3>3. QED
        BY <1>2, <2>1, <3>1, <3>2
    <2>2. CASE k # 0
      BY <1>2, <2>2, PutKeeps DEF MInv
    <2>3. QED
      BY <2>1, <2>2
  <1>4. Buffered' = Buffered - k
    <2>1. Buffered' = Held' + (IF filler' = "read" THEN 1 ELSE 0) /\ Buffered = Held + (IF filler = "read" THEN 1 ELSE 0)
      BY DEF Buffered
    <2>2. filler' = "read" <=> filler = "read"
      OBVIOUS
    <2>3. QED
      BY <1>1, <2>1, <2>2
  <1>5. inUse' = inUse + (Buffered' - Buffered)
    BY <1>1, <1>2, <1>3, <1>4
  <1>6. filler' = "get" <=> filler = "get"
    OBVIOUS
  <1>7. QED
    BY <1>3, <1>5, <1>6, HoldersKeep

\* Read and SkipBytes take a buffer from the channel or stay in the one they have.
LEMMA ServingKeeps ==
  ASSUME HInv, HInv', MInv, opened, UNCHANGED <<poolVars, writer, filler, opened>>, stage' # "range", CanServe, cur' # Nil,
         ready' = IF cur = Nil THEN Tail(ready) ELSE ready
  PROVE  MInv'
  <1>1. RTypes /\ RTypes' /\ ready \in Seq(Buffer) /\ Len(ready) \in Nat
    BY DEF HInv, RInv, RTypes
  <1>2. Held' = Held
    <2>1. CASE cur = Nil
      <3>1. ready # <<>> /\ ready' = Tail(ready)
        BY <2>1 DEF CanServe
      <3>2. Len(ready') = Len(ready) - 1
        BY <1>1, <3>1
      <3>3. QED
        BY <1>1, <2>1, <3>2 DEF Held
    <2>2. CASE cur # Nil
      BY <2>2 DEF Held
    <2>3. QED
      BY <2>1, <2>2
  <1>3. QED
    BY <1>1, <1>2, SamePool

\* The fields a call may have changed leave the buffers where they are.
LEMMA CallsKeepMemory ==
  ASSUME HInv, HInv', MInv,
         \/ \E t \in Thread : Begin(t) \/ Resume(t)
         \/ OpenFails \/ Wait \/ NoWait \/ BeyondEnd \/ SeekRefused \/ SeekSkips \/ OverStuck \/ RangeSeekFails
         \/ StopReading \/ ReopenFails \/ ReadEnded \/ Close
  PROVE  MInv'
  <1>1. RTypes /\ RTypes'
    BY DEF HInv, RInv
  <1>2. CASE \/ \E t \in Thread : Begin(t) \/ Resume(t)
             \/ OpenFails \/ Wait \/ NoWait \/ BeyondEnd \/ SeekSkips
    <2>1. UNCHANGED <<poolVars, writer, filler, ready, cur, opened>> /\ stage' # "range"
      BY <1>2 DEF Begin, Resume, OpenFails, Wait, NoWait, BeyondEnd, SeekSkips, Return, Goto, FirstStage, readerVars,
                  fieldVars, writerVars
    <2>2. QED
      BY <1>1, <2>1, QuietKeeps
  <1>3. CASE SeekRefused \/ OverStuck \/ StopReading
    <2>1. UNCHANGED <<poolVars, writer, filler, ready, cur, opened>> /\ stage' # "range"
      BY <1>3 DEF SeekRefused, OverStuck, StopReading, StopBuffering, Goto, fieldVars, writerVars
    <2>2. QED
      BY <1>1, <2>1, QuietKeeps
  <1>4. CASE RangeSeekFails \/ ReopenFails
    <2>1. UNCHANGED <<poolVars, writer, filler, ready, cur, opened>> /\ stage' # "range"
      BY <1>4 DEF RangeSeekFails, ReopenFails, Failed, Return, Goto, readerVars, fieldVars, writerVars
    <2>2. QED
      BY <1>1, <2>1, QuietKeeps
  <1>5. CASE ReadEnded
    <2>1. UNCHANGED <<poolVars, writer, filler, ready, cur, opened>> /\ stage' # "range"
      BY <1>5 DEF ReadEnded, Attempted, Failed, Return, Goto, readerVars, writerVars
    <2>2. QED
      BY <1>1, <2>1, QuietKeeps
  <1>6. CASE Close
    <2>1. UNCHANGED <<poolVars, writer, filler, ready, cur, opened>> /\ stage' # "range"
      BY <1>6 DEF Close, writerVars
    <2>2. QED
      BY <1>1, <2>1, QuietKeeps
  <1>7. QED
    BY <1>2, <1>3, <1>4, <1>5, <1>6

\* A new reader is made where the one before it has given back its buffers.
LEMMA NewKeepsMemory ==
  ASSUME HInv, HInv', MInv, OpenPending \/ RangeSeek
  PROVE  MInv'
  <1>1. RTypes /\ RTypes'
    BY DEF HInv, RInv
  <1>2. Vacant
    BY DEF MInv, Holders, OpenPending, RangeSeek
  <1>3. /\ ready' = <<>> /\ cur' = Nil /\ filler' = "select" /\ UNCHANGED poolVars /\ writer' = writer /\ stage' # "range"
    BY DEF OpenPending, RangeSeek, ReadFrom, New, Goto, writerVars
  <1>4. opened'
    BY DEF OpenPending, RangeSeek, ReadFrom, HInv, Owned
  <1>5. Held' = 0 /\ Held = 0
    BY <1>2, <1>3 DEF Held, Vacant
  <1>6. {filler, filler'} \cap {"read", "get"} = {}
    BY <1>2, <1>3 DEF Vacant
  <1>7. QED
    BY <1>1, <1>3, <1>4, <1>5, <1>6, PutsBack

\* The steps that read or skip.
LEMMA ServeKeepsMemory ==
  ASSUME HInv, HInv', MInv, SeekBack \/ Over \/ OverFails \/ ReadSome
  PROVE  MInv'
  <1>1. RTypes /\ RTypes' /\ Nil \notin Buffer /\ opened /\ faults \in Nat
    BY ReaderAssumption DEF HInv, RInv, RTypes, Buffer, Owned, SeekBack, Seeks, Over, OverFails, ReadSome
  <1>2. CASE SeekBack
    <2>1. /\ UNCHANGED <<poolVars, writer, filler, ready, opened>> /\ stage' # "range" /\ cur # Nil
          /\ cur' = [cur EXCEPT !.off = @ + Gap]
      BY <1>2 DEF SeekBack, SkipBack, SkipsBack, ReadFrom, Goto, writerVars
    <2>2. cur' # Nil
      <3>1. cur \in Buffer /\ Gap \in Int
        <4>1. InCall
          BY <1>2 DEF SeekBack, Seeks, InCall
        <4>2. QED
          BY <2>1, <4>1, OwnerFacts, SMTT(30) DEF HInv, RInv, RTypes, HTypes, Gap
      <3>2. Nil \notin [base : Nat, len : Nat, off : Nat, e : {"none", "eof", "io"}] /\ cur.off + Gap \in Nat
        BY <1>2, <3>1, ReaderAssumption DEF SeekBack, SkipsBack, Buffer
      <3>3. QED
        BY <2>1, <3>1, <3>2 DEF Buffer
    <2>3. Held' = Held
      BY <2>1, <2>2 DEF Held
    <2>4. QED
      BY <1>1, <2>1, <2>3, SamePool
  <1>3. CASE Over \/ OverFails
    <2>1. /\ UNCHANGED <<poolVars, writer, filler, opened>> /\ stage' # "range" /\ CanServe
          /\ ready' = (IF cur = Nil THEN Tail(ready) ELSE ready) /\ cur' = [Serving EXCEPT !.off = @ + SkipLen(skip)]
      BY <1>3 DEF Over, OverFails, SkipOver, ReadFrom, Goto, writerVars, fieldVars
    <2>2. cur' # Nil
      <3>1. Serving \in Buffer /\ skip \in Nat
        BY <2>1, ServeFacts DEF HInv, HTypes
      <3>2. Serving.off <= Serving.len
        BY <2>1, ServeFacts DEF HInv
      <3>3. Serving.off + SkipLen(skip) \in Nat
        BY <3>1, <3>2 DEF SkipLen, AtMost, Buffer
      <3>4. cur' \in Buffer
        BY <2>1, <3>1, <3>3 DEF Buffer
      <3>5. QED
        BY <1>1, <3>4
    <2>3. QED
      BY <1>1, <2>1, <2>2, ServingKeeps
  <1>4. CASE ReadSome
    <2>1. /\ UNCHANGED <<poolVars, filler, opened>> /\ CanServe
          /\ ready' = (IF cur = Nil THEN Tail(ready) ELSE ready) /\ cur' = [Serving EXCEPT !.off = @ + CopyLen(Room)]
      BY <1>4 DEF ReadSome, Copy
    <2>2. stage' # "range" /\ writer' = writer
      BY <1>4 DEF ReadSome, Attempted, Failed, Return, Goto, writerVars
    <2>3. cur' # Nil
      <3>1. Serving \in Buffer
        BY <2>1, ServeFacts DEF HInv
      <3>2. Serving.off <= Serving.len
        BY <2>1, ServeFacts DEF HInv
      <3>3. Room \in Nat
        <4>1. InCall /\ stage = "full"
          BY <1>4 DEF ReadSome, InCall
        <4>2. Len(got) \in Nat /\ Len(got) <= call[owner].n
          BY <4>1 DEF HInv, Right, Piece
        <4>3. QED
          BY <4>1, <4>2, OwnerFacts DEF HInv, Room
      <3>4. Serving.off + CopyLen(Room) \in Nat
        BY <3>1, <3>2, <3>3 DEF CopyLen, AtMost, Buffer
      <3>5. cur' \in Buffer
        BY <2>1, <3>1, <3>4 DEF Buffer
      <3>6. QED
        BY <1>1, <3>5
    <2>4. QED
      BY <1>1, <2>1, <2>2, <2>3, ServingKeeps
  <1>5. QED
    BY <1>2, <1>3, <1>4

\* The steps that put buffers back.
LEMMA PutKeepsMemory ==
  ASSUME HInv, HInv', MInv, DiscardCur \/ Drop \/ AbandonSkipped \/ Reopen \/ CloseDone
  PROVE  MInv'
  <1>1. RTypes /\ RTypes' /\ opened
    BY DEF HInv, RInv, Owned, DiscardCur, Drop, AbandonSkipped, Reopen, CloseDone
  <1>2. Held \in Nat /\ (cur # Nil => Held >= 1)
    BY <1>1, HeldFacts
  <1>3. CASE DiscardCur \/ Drop
    <2>1. cur # Nil /\ cur' = Nil /\ Put(1) /\ UNCHANGED <<writer, filler, ready, opened>> /\ stage' # "range"
      BY <1>3 DEF DiscardCur, Drop, Discard, SkipDrop, Goto, writerVars, fieldVars
    <2>2. Held' = Held - 1
      <3>1. Len(ready) \in Nat
        BY <1>1 DEF RTypes
      <3>2. Held = Len(ready) + 1 /\ Held' = Len(ready) + 0
        BY <2>1 DEF Held
      <3>3. QED
        BY <3>1, <3>2
    <2>3. QED
      BY <1>1, <1>2, <2>1, <2>2, PutsBack
  <1>4. CASE AbandonSkipped
    <2>1. /\ cur' = Nil /\ ready' = <<>> /\ PutHeld /\ UNCHANGED <<writer, filler, opened>> /\ filler = "exited"
      BY <1>4 DEF AbandonSkipped, Abandon, Goto, writerVars, fieldVars
    <2>2. Held' = 0 /\ Vacant'
      BY <2>1 DEF Held, Vacant
    <2>3. QED
      BY <1>1, <1>2, <2>1, <2>2, PutsBack DEF PutHeld
  <1>5. CASE Reopen
    <2>1. /\ cur' = Nil /\ ready' = <<>> /\ PutHeld /\ UNCHANGED <<writer, opened>> /\ filler = "exited" /\ filler' = "select"
          /\ stage' # "range"
      BY <1>5 DEF Reopen, New, ReadFrom, Goto, writerVars
    <2>2. Held' = 0 /\ {filler, filler'} \cap {"read", "get"} = {}
      BY <2>1 DEF Held
    <2>3. QED
      BY <1>1, <1>2, <2>1, <2>2, PutsBack DEF PutHeld
  <1>6. CASE CloseDone
    <2>1. /\ cur' = Nil /\ ready' = <<>> /\ PutHeld /\ UNCHANGED <<writer, filler, opened>> /\ stage' # "range"
      BY <1>6 DEF CloseDone, writerVars, fieldVars
    <2>2. Held' = 0
      BY <2>1 DEF Held
    <2>3. QED
      BY <1>1, <1>2, <2>1, <2>2, PutsBack DEF PutHeld
  <1>7. QED
    BY <1>3, <1>4, <1>5, <1>6

\* The goroutine that reads ahead.
LEMMA FillerKeepsMemory ==
  ASSUME HInv, HInv', MInv, FillerStep
  PROVE  MInv'
  <1>1. RTypes /\ RTypes' /\ PoolOK /\ Held \in Nat /\ Len(ready) \in Nat
    BY HeldFacts DEF HInv, RInv, RTypes, MInv
  <1>2. UNCHANGED <<writer, opened, stage>> /\ (TakeToken \/ Exit \/ GetBuffer \/ Fill)
    BY DEF FillerStep, handleVars, fieldVars, writerVars
  <1>3. filler # "exited" /\ ~(~opened \/ stage = "range")
    BY <1>2 DEF TakeToken, Exit, GetBuffer, Fill, MInv, Holders, Vacant
  <1>4. Filler \in Client /\ Writer \in Client /\ Filler # Writer /\ Wants[Filler] = 1 /\ Wants[Writer] \in Nat
    BY ClientFacts
  <1>5. CASE TakeToken
    <2>1. Acquire(Filler) /\ filler = "select" /\ filler' = "get" /\ UNCHANGED <<ready, cur>>
      BY <1>5 DEF TakeToken
    <2>2. getting[Filler] = "no"
      BY <2>1 DEF MInv, Holders
    <2>3. PoolOK' /\ UNCHANGED inUse /\ getting'[Filler] # "no" /\ getting'[Writer] = getting[Writer]
      BY <1>1, <1>4, <2>1, <2>2, AcquireKeeps
    <2>4. Buffered' = Buffered
      BY <2>1 DEF Buffered, Held
    <2>5. QED
      BY <1>2, <1>3, <2>1, <2>3, <2>4 DEF MInv, Holders
  <1>6. CASE Exit
    <2>1. UNCHANGED poolVars /\ filler = "select" /\ filler' = "exited" /\ UNCHANGED <<ready, cur>>
      BY <1>6 DEF Exit
    <2>2. Held' = Held /\ {filler, filler'} \cap {"read", "get"} = {}
      BY <2>1 DEF Held
    <2>3. Held' = Held - 0
      BY <1>1, <2>2
    <2>4. QED
      BY <1>1, <1>2, <1>3, <2>1, <2>2, <2>3, PutsBack
  <1>7. CASE GetBuffer
    <2>1. Take(Filler) /\ filler = "get" /\ filler' = "read" /\ UNCHANGED <<ready, cur>>
      BY <1>7 DEF GetBuffer
    <2>2. PoolOK' /\ inUse' = inUse + 1 /\ getting'[Filler] = "no" /\ getting'[Writer] = getting[Writer]
      BY <1>1, <1>4, <2>1, TakeKeeps
    <2>3. Buffered' = Held + 1 /\ Buffered = Held + 0
      BY <2>1 DEF Buffered, Held
    <2>4. inUse' = Buffered' + (IF writer' = "has" THEN Wants[Writer] ELSE 0)
      BY <1>1, <1>2, <1>4, <2>2, <2>3 DEF MInv, Holders
    <2>5. QED
      BY <1>2, <1>3, <2>1, <2>2, <2>4 DEF MInv, Holders
  <1>8. CASE Fill
    <2>1. /\ UNCHANGED poolVars /\ filler = "read" /\ filler' \in {"select", "exited"} /\ cur' = cur
          /\ \E b : ready' = Append(ready, b)
      BY <1>8 DEF Fill
    <2>2. Len(ready') = Len(ready) + 1
      <3>1. PICK f \in Fills : ready' = Append(ready, [base |-> source.pos, len |-> f.n, off |-> 0, e |-> f.e])
        BY <1>8 DEF Fill
      <3>2. f.n \in 0..Rest /\ f.e \in {"none", "eof", "io"}
        BY <1>1, FillFacts
      <3>3. [base |-> source.pos, len |-> f.n, off |-> 0, e |-> f.e] \in Buffer
        <4>1. source.pos \in Nat /\ f.n \in Nat
          BY <1>1, <3>2, ReaderAssumption DEF RTypes, Rest
        <4>2. QED
          BY <3>2, <4>1 DEF Buffer
      <3>4. ready \in Seq(Buffer)
        BY <1>1 DEF RTypes
      <3>5. QED
        BY <3>1, <3>3, <3>4
    <2>3. Held' = Held + 1
      <3> DEFINE n == Len(ready)
                 x == IF cur = Nil THEN 0 ELSE 1
      <3>1. n \in Nat /\ x \in Nat /\ Held = n + x /\ Held' = (n + 1) + x
        BY <1>1, <2>1, <2>2 DEF Held
      <3> HIDE DEF n, x
      <3>2. QED
        BY <3>1
    <2>4. Buffered' = Held' + 0 /\ Buffered = Held + 1
      BY <2>1 DEF Buffered
    <2>5. Buffered' = Buffered
      BY <1>1, <2>3, <2>4
    <2>6. UNCHANGED <<cache, minFill, inUse, alloced, used, queue, getting>>
      BY <2>1 DEF poolVars
    <2>7. PoolOK'
      BY <1>1, <2>6 DEF PoolOK, Lined, Waits, Owed
    <2>8. QED
      BY <1>2, <1>3, <2>1, <2>5, <2>6, <2>7 DEF MInv, Holders
  <1>9. QED
    BY <1>2, <1>5, <1>6, <1>7, <1>8

\* The other client, and the pool itself.
LEMMA ClientKeepsMemory ==
  ASSUME HInv, HInv', MInv,
         \/ Reserve \/ Reserved \/ CloseWriter \/ Flush
         \/ \E c \in Client : RetryGet(c) \/ NoMemory(c)
  PROVE  MInv'
  <1>1. RTypes /\ RTypes' /\ PoolOK /\ Buffered \in Nat /\ inUse \in Nat
    BY HeldFacts DEF HInv, RInv, MInv, PoolOK
  <1>2. UNCHANGED <<filler, ready, cur, opened, stage>>
    BY DEF Reserve, Reserved, CloseWriter, Flush, RetryGet, NoMemory, readerVars, handleVars, fieldVars
  <1>3. Buffered' = Buffered /\ (Vacant' <=> Vacant)
    BY <1>2 DEF Buffered, Held, Vacant
  <1>4. Filler \in Client /\ Writer \in Client /\ Filler # Writer /\ Wants[Filler] = 1 /\ Wants[Writer] \in Nat
    BY ClientFacts
  <1>5. CASE Reserve
    <2>1. Acquire(Writer) /\ writer = "idle" /\ writer' = "get"
      BY <1>5 DEF Reserve
    <2>2. getting[Writer] = "no"
      BY <2>1 DEF MInv, Holders
    <2>3. PoolOK' /\ UNCHANGED inUse /\ getting'[Writer] # "no" /\ getting'[Filler] = getting[Filler]
      BY <1>1, <1>4, <2>1, <2>2, AcquireKeeps
    <2>4. QED
      BY <1>2, <1>3, <2>1, <2>3 DEF MInv, Holders
  <1>6. CASE Reserved
    <2>1. Take(Writer) /\ writer = "get" /\ writer' = "has"
      BY <1>6 DEF Reserved
    <2>2. PoolOK' /\ inUse' = inUse + Wants[Writer] /\ getting'[Writer] = "no" /\ getting'[Filler] = getting[Filler]
      BY <1>1, <1>4, <2>1, TakeKeeps
    <2>3. inUse' = Buffered' + Wants[Writer]
      BY <1>1, <1>3, <2>1, <2>2 DEF MInv, Holders
    <2>4. QED
      BY <1>2, <1>3, <2>1, <2>2, <2>3 DEF MInv, Holders
  <1>7. CASE CloseWriter
    <2>1. Put(Wants[Writer]) /\ writer = "has" /\ writer' = "idle"
      BY <1>7 DEF CloseWriter
    <2>2. inUse = Buffered + Wants[Writer] /\ Wants[Writer] <= inUse
      BY <1>1, <1>4, <2>1 DEF MInv, Holders
    <2>3. PoolOK' /\ inUse' = inUse - Wants[Writer] /\ \A d \in Client : getting'[d] = "no" <=> getting[d] = "no"
      BY <1>1, <1>4, <2>1, <2>2, PutKeeps
    <2>4. inUse' = Buffered' + 0
      BY <1>1, <1>3, <1>4, <2>2, <2>3
    <2>5. QED
      BY <1>2, <1>3, <1>4, <2>1, <2>3, <2>4 DEF MInv, Holders
  <1>8. CASE Flush
    <2>1. FlushAged /\ writer' = writer
      BY <1>8 DEF Flush, writerVars
    <2>2. PoolOK' /\ UNCHANGED <<inUse, getting>>
      BY <1>1, <2>1, FlushKeeps
    <2>3. QED
      BY <1>2, <1>3, <2>1, <2>2 DEF MInv, Holders
  <1>9. ASSUME NEW c \in Client, RetryGet(c) \/ NoMemory(c)
        PROVE  MInv'
    <2>1. writer' = writer
      BY <1>9 DEF RetryGet, NoMemory, writerVars
    <2>2. c \in {Filler, Writer} /\ getting[c] # "no"
      BY <1>1, <1>9 DEF RetryGet, NoMemory, Retry, AllocFails, PoolOK, Lined
    <2>3. PoolOK' /\ UNCHANGED inUse /\ \A d \in Client : getting'[d] = "no" <=> getting[d] = "no"
      <3>1. CASE RetryGet(c)
        <4>1. Acquire(c) /\ getting[c] = "asleep"
          BY <3>1 DEF RetryGet, Retry
        <4>2. PoolOK' /\ UNCHANGED inUse /\ getting'[c] # "no" /\ \A d \in Client \ {c} : getting'[d] = getting[d]
          BY <1>1, <2>2, <4>1, AcquireKeeps
        <4>3. QED
          BY <2>2, <4>2
      <3>2. CASE NoMemory(c)
        BY <1>1, <2>2, <3>2, AllocFailsKeeps DEF NoMemory
      <3>3. QED
        BY <1>9, <3>1, <3>2
    <2>4. QED
      BY <1>2, <1>3, <1>4, <2>1, <2>3 DEF MInv, Holders
  <1>10. QED
    BY <1>5, <1>6, <1>7, <1>8, <1>9

LEMMA InitMInv == Init => MInv
  <1> SUFFICES ASSUME Init
               PROVE  MInv
    OBVIOUS
  <1>1. /\ cache = 0 /\ minFill = 0 /\ inUse = 0 /\ alloced = 0 /\ used = 0 /\ queue = <<>>
        /\ getting = [c \in Client |-> "no"] /\ filler = "exited" /\ ready = <<>> /\ cur = Nil /\ writer = "idle"
    BY DEF Init, PoolInit, ReaderInit
  <1>2. Filler \in Client /\ Writer \in Client /\ Limit \in Nat
    BY ClientFacts
  <1>3. Lined(getting)
    BY <1>1 DEF Lined, Waits, Place
  <1>4. Owed(getting, Filler) = 0 /\ Owed(getting, Writer) = 0
    BY <1>1, <1>2 DEF Owed
  <1>5. PoolOK
    BY <1>1, <1>2, <1>3, <1>4 DEF PoolOK, Queues
  <1>6. Holders
    BY <1>1, <1>2 DEF Holders, Vacant, Buffered, Held
  <1>7. QED
    BY <1>5, <1>6 DEF MInv

LEMMA NextMInv == HInv /\ HInv' /\ MInv /\ [Next]_vars => MInv'
  <1> SUFFICES ASSUME HInv, HInv', MInv, [Next]_vars
               PROVE  MInv'
    OBVIOUS
  <1>1. CASE UNCHANGED vars
    <2>1. UNCHANGED <<poolVars, writer, filler, ready, cur, opened>> /\ stage' = stage
      BY <1>1 DEF vars, readerVars, fieldVars, writerVars
    <2>2. RTypes /\ RTypes'
      BY DEF HInv, RInv
    <2>3. QED
      BY <2>1, <2>2, QuietKeeps
  <1>2. CASE \/ \E t \in Thread : Begin(t) \/ Resume(t)
             \/ OpenFails \/ ReopenFails \/ Close
    BY <1>2, CallsKeepMemory
  <1>3. CASE ReadStep
    BY <1>3, CallsKeepMemory, NewKeepsMemory, ServeKeepsMemory, PutKeepsMemory DEF ReadStep
  <1>4. CASE CloseDone
    BY <1>4, PutKeepsMemory
  <1>5. CASE FillerStep
    BY <1>5, FillerKeepsMemory
  <1>6. CASE \/ Reserve \/ Reserved \/ CloseWriter \/ Flush
             \/ \E c \in Client : RetryGet(c) \/ NoMemory(c)
    BY <1>6, ClientKeepsMemory
  <1>7. QED
    BY <1>1, <1>2, <1>3, <1>4, <1>5, <1>6 DEF Next

\* The counters of lib/pool agree with each other and with who holds buffers, and the
\* memory in use never passes its limit, whatever the readers, the other client and
\* failing allocations do.
THEOREM MemoryIsCounted == Spec => []MemoryCounted
  <1>1. Init => HInv /\ MInv
    BY InitHInv, InitMInv
  <1>2. HInv /\ MInv /\ [Next]_vars => HInv' /\ MInv'
    BY NextHInv, NextMInv
  <1>3. MInv => MemoryCounted
    <2>1. SUFFICES ASSUME MInv
                   PROVE  MemoryCounted
      OBVIOUS
    <2>2. Filler \in Client /\ Writer \in Client /\ Wants[Filler] = 1
      BY ClientFacts
    <2>3. /\ Filler \in Acquired <=> getting[Filler] = "acquired"
          /\ Writer \in Acquired <=> getting[Writer] = "acquired"
      BY <2>2 DEF Acquired
    <2>4. QED
      BY <2>1, <2>2, <2>3 DEF MInv, PoolOK, Holders, Owed, MemoryCounted
  <1>4. QED
    BY <1>1, <1>2, <1>3, PTL DEF Spec

=============================================================================
