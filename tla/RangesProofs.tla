---------------------------- MODULE RangesProofs ----------------------------
(***************************************************************************)
(* What the operators of Ranges compute, for every sequence of ranges.     *)
(***************************************************************************)
EXTENDS Ranges, TLAPS, FiniteSetTheorems, NaturalsInduction, WellFoundedInduction, SequenceTheorems

-----------------------------------------------------------------------------
(* Induction and folds *)

\* A set of numbers that is not empty has a least one.
LEMMA LeastExists ==
  ASSUME NEW S \in SUBSET Nat, S # {}
  PROVE  \E x \in S : \A y \in S : x <= y
  <1> DEFINE R == OpToRel(<, Nat)
  <1>1. \E x \in S : \A y \in S : ~(<<y, x>> \in R)
    BY NatLessThanWellFounded, WFMin
  <1>2. \A x, y \in Nat : y < x => <<y, x>> \in R
    BY DEF OpToRel
  <1> HIDE DEF R
  <1>3. PICK x \in S : \A y \in S : ~(<<y, x>> \in R)
    BY <1>1
  <1>4. ASSUME NEW y \in S PROVE x <= y
    <2>1. x \in Nat /\ y \in Nat /\ ~(<<y, x>> \in R)
      BY <1>3
    <2>2. ~(y < x)
      BY <2>1, <1>2
    <2>3. QED
      BY <2>1, <2>2
  <1>5. QED
    BY <1>4

\* Induction up to n, for the numbers of a set.
LEMMA Induct ==
  ASSUME NEW n \in Nat, NEW G, 0 \in G,
         \A i \in 1 .. n : i - 1 \in G => i \in G
  PROVE  \A i \in 0 .. n : i \in G
  <1> DEFINE B == {i \in 0 .. n : i \notin G}
  <1>1. SUFFICES ASSUME B # {} PROVE FALSE
    OBVIOUS
  <1>2. PICK m \in B : \A y \in B : m <= y
    <2>1. B \in SUBSET Nat
      OBVIOUS
    <2> HIDE DEF B
    <2>2. QED
      BY <1>1, <2>1, LeastExists
  <1>3. m \in 1 .. n
    BY <1>2
  <1>4. m - 1 \in G
    BY <1>2, <1>3
  <1>5. QED
    BY <1>2, <1>3, <1>4

\* The last number of a set that goes from 1 to n, and the set without it.
LEMMA MaxFacts ==
  ASSUME NEW n \in Nat, NEW s \in SUBSET (1 .. n), s # {}
  PROVE  /\ SeqExt!Max(s) \in s
         /\ \A y \in s : y <= SeqExt!Max(s)
  <1> DEFINE T == {n - x : x \in s}
  <1>1. PICK t \in T : \A y \in T : t <= y
    <2>1. \A x \in s : n - x \in Nat
      OBVIOUS
    <2>2. T \in SUBSET Nat
      BY <2>1
    <2>3. T # {}
      OBVIOUS
    <2> HIDE DEF T
    <2>4. QED
      BY <2>2, <2>3, LeastExists
  <1>2. PICK x \in s : t = n - x
    OBVIOUS
  <1>3. \A y \in s : x >= y
    <2>1. TAKE y \in s
    <2>2. n - y \in T /\ y \in 1 .. n /\ x \in 1 .. n
      OBVIOUS
    <2>3. n - x <= n - y
      BY <2>2, <1>1, <1>2
    <2>4. QED
      BY <2>2, <2>3
  <1>4. QED
    BY <1>2, <1>3 DEF SeqExt!Max

\* The steps of a fold, as functions of the sets of indices that are folded.
FoldOn(g, n, base, step) ==
  \A s \in SUBSET (1 .. n) :
    g[s] = IF s = {} THEN base ELSE step[<<SeqExt!Max(s), g[s \ {SeqExt!Max(s)}]>>]

LEMMA FoldOnExists ==
  ASSUME NEW A, NEW n \in Nat, NEW base \in A, NEW step \in [(1 .. n) \X A -> A]
  PROVE  \E g \in [SUBSET (1 .. n) -> A] : FoldOn(g, n, base, step)
  <1> DEFINE G == {m \in Nat : m <= n => \E g \in [SUBSET (1 .. m) -> A] : FoldOn(g, m, base, step)}
  <1>1. 0 \in G
    <2> DEFINE g == [s \in SUBSET (1 .. 0) |-> base]
    <2>1. \A s \in SUBSET (1 .. 0) : s = {}
      OBVIOUS
    <2>2. g \in [SUBSET (1 .. 0) -> A] /\ FoldOn(g, 0, base, step)
      BY <2>1 DEF FoldOn
    <2>3. QED
      BY <2>2
  <1>2. ASSUME NEW m \in 1 .. n, m - 1 \in G PROVE m \in G
    <2>0. m \in Nat /\ m - 1 <= n
      OBVIOUS
    <2>1. PICK f \in [SUBSET (1 .. m - 1) -> A] : FoldOn(f, m - 1, base, step)
      <3>1. m - 1 <= n => \E g \in [SUBSET (1 .. m - 1) -> A] : FoldOn(g, m - 1, base, step)
        BY <1>2
      <3>2. QED
        BY <3>1, <2>0
    <2> DEFINE g == [s \in SUBSET (1 .. m) |-> IF m \in s THEN step[<<m, f[s \ {m}]>>] ELSE f[s]]
    <2>2. ASSUME NEW s \in SUBSET (1 .. m) PROVE s \ {m} \in SUBSET (1 .. m - 1)
      OBVIOUS
    <2>3. ASSUME NEW s \in SUBSET (1 .. m), m \notin s PROVE s \in SUBSET (1 .. m - 1)
      BY <2>3
    <2>4. \A s \in SUBSET (1 .. m) : g[s] \in A
      <3>1. TAKE s \in SUBSET (1 .. m)
      <3>2. CASE m \in s
        <4>1. f[s \ {m}] \in A
          BY <2>2
        <4>2. step[<<m, f[s \ {m}]>>] \in A
          BY <4>1
        <4>3. QED
          BY <3>2, <4>2
      <3>3. CASE m \notin s
        BY <3>3, <2>3
      <3>4. QED
        BY <3>2, <3>3
    <2>5. ASSUME NEW s \in SUBSET (1 .. m)
          PROVE  g[s] = IF s = {} THEN base ELSE step[<<SeqExt!Max(s), g[s \ {SeqExt!Max(s)}]>>]
      <3>1. CASE s = {}
        <4>1. g[s] = f[{}] /\ {} \in SUBSET (1 .. m - 1)
          BY <3>1
        <4>2. QED
          BY <3>1, <4>1, <2>1 DEF FoldOn
      <3>2. CASE m \in s
        <4>0. s # {}
          BY <3>2
        <4>1. SeqExt!Max(s) \in s /\ \A y \in s : y <= SeqExt!Max(s)
          BY <2>0, <4>0, MaxFacts
        <4>2. SeqExt!Max(s) = m
          <5>1. SeqExt!Max(s) \in 1 .. m
            BY <4>1
          <5>2. m <= SeqExt!Max(s)
            BY <4>1, <3>2
          <5>3. QED
            BY <5>1, <5>2
        <4>3. g[s \ {m}] = f[s \ {m}]
          OBVIOUS
        <4>4. g[s] = step[<<m, f[s \ {m}]>>]
          BY <3>2
        <4>5. QED
          BY <3>2, <4>2, <4>3, <4>4
      <3>3. CASE s # {} /\ m \notin s
        <4>1. s \in SUBSET (1 .. m - 1)
          BY <2>3, <3>3
        <4>2. m - 1 \in Nat
          OBVIOUS
        <4>3. SeqExt!Max(s) \in s
          BY <4>1, <4>2, <3>3, MaxFacts
        <4>4. g[s] = f[s] /\ g[s \ {SeqExt!Max(s)}] = f[s \ {SeqExt!Max(s)}]
          BY <3>3, <4>1
        <4>5. f[s] = step[<<SeqExt!Max(s), f[s \ {SeqExt!Max(s)}]>>]
          BY <2>1, <3>3, <4>1 DEF FoldOn
        <4>6. QED
          BY <3>3, <4>4, <4>5
      <3>4. QED
        BY <3>1, <3>2, <3>3
    <2>6. g \in [SUBSET (1 .. m) -> A]
      BY <2>4
    <2> HIDE DEF g
    <2>7. FoldOn(g, m, base, step)
      BY <2>5 DEF FoldOn
    <2>8. QED
      BY <2>6, <2>7
  <1> HIDE DEF G
  <1>3. \A i \in 0 .. n : i \in G
    BY <1>1, <1>2, Induct
  <1>4. n \in G
    BY <1>3
  <1>5. n <= n => \E g \in [SUBSET (1 .. n) -> A] : FoldOn(g, n, base, step)
    BY <1>4 DEF G
  <1>6. n <= n
    OBVIOUS
  <1>7. QED
    BY <1>5, <1>6

\* The sets of indices up to i, the last of them, and the set without it.
LEMMA UpTo ==
  ASSUME NEW n \in Nat, NEW i \in 1 .. n
  PROVE  /\ 1 .. i \in SUBSET (1 .. n) /\ 1 .. i # {}
         /\ SeqExt!Max(1 .. i) = i
         /\ (1 .. i) \ {i} = 1 .. i - 1
  <1> DEFINE s == 1 .. i
  <1>1. s \in SUBSET (1 .. n) /\ s # {} /\ i \in s
    OBVIOUS
  <1>2. SeqExt!Max(s) \in s /\ \A y \in s : y <= SeqExt!Max(s)
    BY <1>1, MaxFacts
  <1>3. SeqExt!Max(s) = i
    BY <1>1, <1>2
  <1>4. (1 .. i) \ {i} = 1 .. i - 1
    OBVIOUS
  <1>5. QED
    BY <1>1, <1>3, <1>4

\* The fold of Coalesce, step by step, each result in A.
AbsorbFolds(A, base, seq) ==
  \E F \in [0 .. Len(seq) -> A] :
    /\ F[0] = base
    /\ \A i \in 1 .. Len(seq) : F[i] = Absorb(F[i - 1], seq[i])
    /\ AbsorbAll(base, seq) = F[Len(seq)]

LEMMA AbsorbFold ==
  ASSUME NEW A, NEW B, NEW base \in A, NEW seq \in Seq(B),
         \A a \in A, b \in B : Absorb(a, b) \in A
  PROVE  AbsorbFolds(A, base, seq)
  <1> DEFINE n == Len(seq)
             D == SUBSET (1 .. n)
             step == [x \in (1 .. n) \X A |-> Absorb(x[2], seq[x[1]])]
             I(h) == h = [s \in D |-> IF s = {} THEN base
                                      ELSE Absorb(h[s \ {SeqExt!Max(s)}], seq[SeqExt!Max(s)])]
             H == CHOOSE h : I(h)
             F == [i \in 0 .. n |-> H[1 .. i]]
  <1>1. n \in Nat /\ DOMAIN seq = 1 .. n /\ \A i \in 1 .. n : seq[i] \in B
    OBVIOUS
  <1>2. step \in [(1 .. n) \X A -> A]
    BY <1>1
  <1>3. PICK g \in [D -> A] : FoldOn(g, n, base, step)
    <2> HIDE DEF step, n
    <2>1. QED
      BY <1>1, <1>2, FoldOnExists
  <1>4. I(g)
    <2>1. ASSUME NEW s \in D, s # {}
          PROVE  g[s] = Absorb(g[s \ {SeqExt!Max(s)}], seq[SeqExt!Max(s)])
      <3>1. SeqExt!Max(s) \in 1 .. n
        BY <2>1, <1>1, MaxFacts
      <3>2. g[s \ {SeqExt!Max(s)}] \in A
        OBVIOUS
      <3>3. g[s] = step[<<SeqExt!Max(s), g[s \ {SeqExt!Max(s)}]>>]
        BY <2>1, <1>3 DEF FoldOn
      <3>4. QED
        BY <3>1, <3>2, <3>3
    <2>2. {} \in D /\ g[{}] = base
      BY <1>3 DEF FoldOn
    <2>3. QED
      BY <2>1, <2>2
  <1>5. I(H)
    <2> HIDE DEF I
    <2>1. QED
      BY <1>4
  <1>6. AbsorbAll(base, seq) = H[1 .. n]
    BY <1>1 DEF AbsorbAll, SeqExt!FoldLeft, SeqExt!MapThenFoldSet
  <1> HIDE DEF H
  <1>7. F[0] = base
    <2>1. 1 .. 0 = {} /\ {} \in D
      OBVIOUS
    <2>2. H[{}] = base
      BY <1>5, <2>1
    <2>3. QED
      BY <2>1, <2>2, <1>1
  <1>8. ASSUME NEW i \in 1 .. n PROVE F[i] = Absorb(F[i - 1], seq[i])
    <2>1. /\ 1 .. i \in SUBSET (1 .. n) /\ 1 .. i # {}
          /\ SeqExt!Max(1 .. i) = i
          /\ (1 .. i) \ {i} = 1 .. i - 1
      BY <1>1, UpTo
    <2>2. H[1 .. i] = Absorb(H[1 .. i - 1], seq[i])
      BY <1>5, <2>1
    <2>3. QED
      BY <2>2, <1>1
  <1> DEFINE G == {i \in 0 .. n : F[i] \in A}
  <1>9. \A i \in 0 .. n : i \in G
    <2>1. 0 \in G
      BY <1>7, <1>1
    <2>2. ASSUME NEW i \in 1 .. n, i - 1 \in G PROVE i \in G
      <3>1. F[i - 1] \in A
        BY <2>2
      <3> HIDE DEF F
      <3>2. Absorb(F[i - 1], seq[i]) \in A
        BY <3>1, <1>1
      <3>3. QED
        BY <3>2, <1>8
    <2> HIDE DEF G, F, n
    <2>3. QED
      BY <2>1, <2>2, <1>1, Induct
  <1>10. F \in [0 .. n -> A] /\ F[n] = H[1 .. n]
    BY <1>9, <1>1
  <1> HIDE DEF F
  <1>11. QED
    BY <1>6, <1>7, <1>8, <1>10 DEF AbsorbFolds

-----------------------------------------------------------------------------
(* Sequences of ranges *)

\* The ranges that a sequence of ranges has.
Range1 == [pos : Nat, size : Nat \ {0}]

\* The positions i..j of a sequence of ranges are sorted and apart.
Apart(rs, i, j) == \A a, b \in i .. j : a < b => End(rs[a]) < rs[b].pos

LEMMA BytesFacts ==
  ASSUME NEW r \in [pos : Int, size : Int]
  PROVE  \A x : x \in Bytes(r) <=> x \in Int /\ r.pos <= x /\ x < r.pos + r.size
  BY DEF Bytes, End

LEMMA PositionsFacts ==
  ASSUME NEW rs \in Seq(Range1)
  PROVE  \A x : x \in Positions(rs) <=>
                  x \in Nat /\ \E i \in 1 .. Len(rs) : rs[i].pos <= x /\ x < rs[i].pos + rs[i].size
  <1>0. \A i \in 1 .. Len(rs) : rs[i] \in Range1
    OBVIOUS
  <1>1. \A i \in 1 .. Len(rs) : rs[i] \in [pos : Nat, size : Nat \ {0}]
    BY <1>0 DEF Range1
  <1>2. \A i \in 1 .. Len(rs) : \A x : x \in Bytes(rs[i]) <=> x \in Nat /\ rs[i].pos <= x /\ x < rs[i].pos + rs[i].size
    BY <1>1 DEF Bytes, End
  <1>3. \A x : x \in Positions(rs) <=> \E i \in 1 .. Len(rs) : x \in Bytes(rs[i])
    BY DEF Positions
  <1>4. QED
    BY <1>2, <1>3

LEMMA SortedFacts ==
  ASSUME NEW rs \in Seq(Range1), Canonical(rs)
  PROVE  Apart(rs, 1, Len(rs))
  <1> DEFINE n == Len(rs)
             G == {j \in 0 .. n : \A i \in 1 .. n : i < j => End(rs[i]) < rs[j].pos}
  <1>0. n \in Nat
    OBVIOUS
  <1>1. 0 \in G
    OBVIOUS
  <1>2. ASSUME NEW j \in 1 .. n, j - 1 \in G PROVE j \in G
    <2>1. ASSUME NEW i \in 1 .. n, i < j PROVE End(rs[i]) < rs[j].pos
      <3>1. rs[i] \in Range1 /\ rs[j] \in Range1
        OBVIOUS
      <3>2. CASE i = j - 1
        <4>1. i \in 1 .. Len(rs) - 1 /\ i + 1 = j
          BY <3>2
        <4>2. QED
          BY <4>1 DEF Canonical
      <3>3. CASE i < j - 1
        <4>1. End(rs[i]) < rs[j - 1].pos
          BY <3>3, <1>2
        <4>2. j - 1 \in 1 .. Len(rs) - 1 /\ (j - 1) + 1 = j
          BY <3>3
        <4>3. End(rs[j - 1]) < rs[j].pos
          BY <4>2 DEF Canonical
        <4>4. rs[j - 1] \in Range1
          BY <4>2
        <4>5. /\ rs[j - 1].pos \in Nat /\ rs[j - 1].size \in Nat \ {0}
              /\ rs[i].pos \in Nat /\ rs[i].size \in Nat /\ rs[j].pos \in Nat
          BY <3>1, <4>4 DEF Range1
        <4>6. QED
          BY <4>1, <4>3, <4>5, SMTT(30) DEF End
      <3>4. QED
        BY <2>1, <3>2, <3>3
    <2>2. QED
      BY <2>1
  <1> HIDE DEF n, G
  <1>3. \A j \in 0 .. n : j \in G
    BY <1>0, <1>1, <1>2, Induct
  <1>4. QED
    BY <1>3 DEF n, G, Apart

LEMMA ApartCanonical ==
  ASSUME NEW rs \in Seq(Range1), Apart(rs, 1, Len(rs))
  PROVE  Canonical(rs)
  <1>1. \A i \in 1 .. Len(rs) : rs[i] \in Range1
    OBVIOUS
  <1>2. DOMAIN rs = 1 .. Len(rs) /\ Len(rs) \in Nat
    OBVIOUS
  <1>3. \A i \in DOMAIN rs : rs[i].size > 0
    BY <1>1, <1>2 DEF Range1
  <1>4. \A i \in 1 .. Len(rs) - 1 : End(rs[i]) < rs[i + 1].pos
    BY <1>2 DEF Apart
  <1>5. QED
    BY <1>3, <1>4 DEF Canonical

\* A function on an interval is a sequence.
LEMMA IntervalSeq ==
  ASSUME NEW S, NEW n \in Nat, NEW f \in [1 .. n -> S]
  PROVE  f \in Seq(S) /\ Len(f) = n
  <1>1. f \in Seq(S)
    BY SeqDef
  <1>2. QED
    BY <1>1

\* The fields of the ranges of a sequence.
LEMMA RangeFields ==
  ASSUME NEW rs \in Seq(Range1)
  PROVE  /\ Len(rs) \in Nat /\ DOMAIN rs = 1 .. Len(rs)
         /\ \A i \in 1 .. Len(rs) : rs[i] \in Range1
         /\ \A i \in 1 .. Len(rs) : rs[i].pos \in Nat /\ rs[i].size \in Nat /\ rs[i].size > 0
  <1>1. \A i \in 1 .. Len(rs) : rs[i] \in Range1
    OBVIOUS
  <1>2. QED
    BY <1>1 DEF Range1

LEMMA MergedFacts ==
  ASSUME NEW a \in Range1, NEW b \in Range1, a.pos <= b.pos, Touches(a, b)
  PROVE  /\ Merged(a, b) \in Range1
         /\ Merged(a, b).pos = a.pos
         /\ End(a) <= End(Merged(a, b)) /\ End(b) <= End(Merged(a, b))
         /\ Bytes(Merged(a, b)) = Bytes(a) \cup Bytes(b)
  <1>1. a.pos \in Nat /\ a.size \in Nat /\ a.size > 0 /\ b.pos \in Nat /\ b.size \in Nat /\ b.size > 0
    BY DEF Range1
  <1>2. a.pos + a.size >= b.pos
    BY DEF Touches, End
  <1>3. PICK e \in Nat : e = Larger(End(a), End(b))
    BY <1>1 DEF Larger, End
  <1>4. e >= a.pos + a.size /\ e >= b.pos + b.size /\ (e = a.pos + a.size \/ e = b.pos + b.size)
    BY <1>1, <1>3 DEF Larger, End
  <1>5. Merged(a, b) = [pos |-> a.pos, size |-> e - a.pos]
    BY <1>3 DEF Merged, Span
  <1>6. End(Merged(a, b)) = e
    BY <1>5, <1>1 DEF End
  <1>7. Merged(a, b) \in Range1
    BY <1>1, <1>4, <1>5 DEF Range1
  <1>8. ASSUME NEW x PROVE x \in Bytes(Merged(a, b)) <=> x \in Bytes(a) \/ x \in Bytes(b)
    BY <1>1, <1>2, <1>4, <1>5, <1>6 DEF Bytes, End
  <1>9. QED
    BY <1>1, <1>4, <1>5, <1>6, <1>7, <1>8 DEF End

\* The positions of a sequence with one more range, and of one with another
\* last range.
LEMMA PositionsAppend ==
  ASSUME NEW s \in Seq(Range1), NEW r \in Range1
  PROVE  /\ Append(s, r) \in Seq(Range1) /\ Len(Append(s, r)) = Len(s) + 1
         /\ Append(s, r)[Len(s) + 1] = r /\ \A i \in 1 .. Len(s) : Append(s, r)[i] = s[i]
         /\ Positions(Append(s, r)) = Positions(s) \cup Bytes(r)
  <1>1. /\ Append(s, r) \in Seq(Range1) /\ Len(Append(s, r)) = Len(s) + 1
        /\ Append(s, r)[Len(s) + 1] = r /\ \A i \in 1 .. Len(s) : Append(s, r)[i] = s[i]
    OBVIOUS
  <1>2. Len(s) \in Nat /\ DOMAIN s = 1 .. Len(s) /\ DOMAIN Append(s, r) = 1 .. Len(s) + 1
    BY <1>1
  <1> DEFINE t == Append(s, r)
  <1> HIDE DEF t
  <1>3. ASSUME NEW x PROVE x \in Positions(t) <=> x \in Positions(s) \/ x \in Bytes(r)
    <2>1. x \in Positions(t) <=> \E i \in 1 .. Len(s) + 1 : x \in Bytes(t[i])
      BY <1>2 DEF Positions, t
    <2>2. x \in Positions(s) <=> \E i \in 1 .. Len(s) : x \in Bytes(s[i])
      BY <1>2 DEF Positions
    <2>3. \A i \in 1 .. Len(s) + 1 : i \in 1 .. Len(s) \/ i = Len(s) + 1
      BY <1>2
    <2>4. \A i \in 1 .. Len(s) : i \in 1 .. Len(s) + 1
      BY <1>2
    <2>5. Len(s) + 1 \in 1 .. Len(s) + 1
      BY <1>2
    <2>6. t[Len(s) + 1] = r /\ \A i \in 1 .. Len(s) : t[i] = s[i]
      BY <1>1 DEF t
    <2>7. QED
      BY <2>1, <2>2, <2>3, <2>4, <2>5, <2>6
  <1>4. QED
    BY <1>1, <1>3 DEF t

LEMMA PrefixFacts ==
  ASSUME NEW s \in Seq(Range1), NEW n \in 0 .. Len(s)
  PROVE  /\ SubSeq(s, 1, n) \in Seq(Range1) /\ Len(SubSeq(s, 1, n)) = n
         /\ \A i \in 1 .. n : SubSeq(s, 1, n)[i] = s[i]
  <1>1. Len(s) \in Nat /\ n \in Nat /\ \A i \in 1 .. Len(s) : s[i] \in Range1
    OBVIOUS
  <1>2. SubSeq(s, 1, n) = [i \in 1 .. n |-> s[i]]
    BY <1>1
  <1> DEFINE t == [i \in 1 .. n |-> s[i]]
  <1>3. t \in [1 .. n -> Range1]
    BY <1>1
  <1>4. t \in Seq(Range1) /\ Len(t) = n
    <2> HIDE DEF t
    <2>1. QED
      BY <1>1, <1>3, IntervalSeq
  <1>5. QED
    BY <1>2, <1>4

LEMMA LastFront ==
  ASSUME NEW s \in Seq(Range1), s # <<>>
  PROVE  /\ Len(s) \in Nat /\ Len(s) >= 1
         /\ SeqExt!Last(s) = s[Len(s)] /\ SeqExt!Last(s) \in Range1
         /\ SeqExt!Front(s) \in Seq(Range1) /\ Len(SeqExt!Front(s)) = Len(s) - 1
         /\ \A i \in 1 .. Len(s) - 1 : SeqExt!Front(s)[i] = s[i]
         /\ Positions(s) = Positions(SeqExt!Front(s)) \cup Bytes(SeqExt!Last(s))
  <1>1. Len(s) \in Nat /\ Len(s) >= 1
    OBVIOUS
  <1>2. SeqExt!Last(s) = s[Len(s)] /\ SeqExt!Last(s) \in Range1
    BY <1>1 DEF SeqExt!Last
  <1>3. /\ SeqExt!Front(s) \in Seq(Range1) /\ Len(SeqExt!Front(s)) = Len(s) - 1
        /\ \A i \in 1 .. Len(s) - 1 : SeqExt!Front(s)[i] = s[i]
    <2>1. SeqExt!Front(s) = SubSeq(s, 1, Len(s) - 1)
      BY DEF SeqExt!Front
    <2>2. /\ SubSeq(s, 1, Len(s) - 1) \in Seq(Range1)
          /\ Len(SubSeq(s, 1, Len(s) - 1)) = Len(s) - 1
          /\ \A i \in 1 .. Len(s) - 1 : SubSeq(s, 1, Len(s) - 1)[i] = s[i]
      <3>1. Len(s) - 1 \in 0 .. Len(s)
        BY <1>1
      <3>2. QED
        BY <3>1, PrefixFacts
    <2>3. QED
      BY <2>1, <2>2
  <1> DEFINE f == SeqExt!Front(s)
             l == SeqExt!Last(s)
  <1> HIDE DEF f, l
  <1>4. ASSUME NEW x PROVE x \in Positions(s) <=> x \in Positions(f) \/ x \in Bytes(l)
    <2>1. DOMAIN s = 1 .. Len(s) /\ DOMAIN f = 1 .. Len(s) - 1
      BY <1>1, <1>3 DEF f
    <2>2. x \in Positions(s) <=> \E i \in 1 .. Len(s) : x \in Bytes(s[i])
      BY <2>1 DEF Positions
    <2>3. x \in Positions(f) <=> \E i \in 1 .. Len(s) - 1 : x \in Bytes(f[i])
      BY <2>1 DEF Positions
    <2>4. \A i \in 1 .. Len(s) : i \in 1 .. Len(s) - 1 \/ i = Len(s)
      BY <1>1
    <2>5. \A i \in 1 .. Len(s) - 1 : i \in 1 .. Len(s) /\ f[i] = s[i]
      BY <1>1, <1>3 DEF f
    <2>6. Len(s) \in 1 .. Len(s) /\ s[Len(s)] = l
      BY <1>1, <1>2 DEF l
    <2>7. QED
      BY <2>2, <2>3, <2>4, <2>5, <2>6
  <1>5. QED
    BY <1>1, <1>2, <1>3, <1>4 DEF f, l

LEMMA AbsorbTyped ==
  ASSUME NEW s \in Seq(Range1) \ {<<>>}, NEW r \in Range1
  PROVE  Absorb(s, r) \in Seq(Range1) \ {<<>>}
  <1>1. SeqExt!Last(s) \in Range1 /\ SeqExt!Front(s) \in Seq(Range1)
    BY LastFront
  <1>2. Merged(SeqExt!Last(s), r) \in Range1
    <2> DEFINE l == SeqExt!Last(s)
    <2>1. l.pos \in Nat /\ l.size \in Nat /\ l.size > 0 /\ r.pos \in Nat /\ r.size \in Nat
      BY <1>1 DEF Range1
    <2> HIDE DEF l
    <2>2. PICK e \in Nat : e = Larger(End(l), End(r)) /\ e > l.pos
      <3>1. End(l) = l.pos + l.size /\ End(r) = r.pos + r.size
        BY DEF End
      <3>2. End(l) \in Nat /\ End(r) \in Nat /\ End(l) > l.pos
        BY <3>1, <2>1
      <3>3. QED
        BY <3>2, <2>1 DEF Larger
    <2>3. Merged(l, r) = [pos |-> l.pos, size |-> Larger(End(l), End(r)) - l.pos]
      BY DEF Merged, Span
    <2>4. QED
      BY <2>1, <2>2, <2>3 DEF Range1, l
  <1>3. Append(SeqExt!Front(s), Merged(SeqExt!Last(s), r)) \in Seq(Range1) \ {<<>>}
    BY <1>1, <1>2, PositionsAppend
  <1>4. Append(s, r) \in Seq(Range1) \ {<<>>}
    BY PositionsAppend
  <1>5. QED
    BY <1>3, <1>4 DEF Absorb

LEMMA AbsorbExact ==
  ASSUME NEW s \in Seq(Range1) \ {<<>>}, NEW r \in Range1, Apart(s, 1, Len(s)),
         SeqExt!Last(s).pos <= r.pos
  PROVE  /\ Apart(Absorb(s, r), 1, Len(Absorb(s, r)))
         /\ Positions(Absorb(s, r)) = Positions(s) \cup Bytes(r)
         /\ SeqExt!Last(Absorb(s, r)).pos <= r.pos
  <1> DEFINE l == SeqExt!Last(s)
             f == SeqExt!Front(s)
             m == Merged(l, r)
             n == Len(s)
  <1>1. /\ n \in Nat /\ n >= 1 /\ l = s[n] /\ l \in Range1 /\ f \in Seq(Range1) /\ Len(f) = n - 1
        /\ \A i \in 1 .. n - 1 : f[i] = s[i]
        /\ Positions(s) = Positions(f) \cup Bytes(l)
    BY LastFront
  <1>2. \A a, b \in 1 .. n : a < b => End(s[a]) < s[b].pos
    BY DEF Apart
  <1>3. \A i \in 1 .. n : s[i].pos \in Nat /\ s[i].size \in Nat /\ s[i].size > 0
    BY RangeFields
  <1>4. r.pos \in Nat /\ l.pos \in Nat
    BY <1>1 DEF Range1
  <1> HIDE DEF l, f, n
  <1>5. CASE Touches(l, r)
    <2> DEFINE t == Append(f, m)
    <2>1. m \in Range1 /\ m.pos = l.pos /\ Bytes(m) = Bytes(l) \cup Bytes(r)
      BY <1>1, <1>5, MergedFacts DEF l
    <2> HIDE DEF m
    <2>2. /\ t \in Seq(Range1) /\ Len(t) = n /\ t[n] = m /\ \A i \in 1 .. n - 1 : t[i] = s[i]
          /\ Positions(t) = Positions(f) \cup Bytes(m)
      BY <1>1, <2>1, PositionsAppend
    <2>3. Absorb(s, r) = t
      BY <1>5 DEF Absorb, l, f, m
    <2> HIDE DEF t
    <2>4. ASSUME NEW a \in 1 .. n, NEW b \in 1 .. n, a < b PROVE End(t[a]) < t[b].pos
      <3>1. t[a] = s[a] /\ End(s[a]) < s[b].pos
        BY <2>4, <2>2, <1>2, <1>1
      <3>2. t[b].pos = s[b].pos
        BY <2>2, <2>1, <1>1
      <3>3. QED
        BY <3>1, <3>2
    <2>5. SeqExt!Last(t) = m
      BY <2>2 DEF SeqExt!Last
    <2>6. QED
      BY <2>1, <2>2, <2>3, <2>4, <2>5, <1>1, <1>4 DEF Apart, l
  <1>6. CASE ~Touches(l, r)
    <2> DEFINE t == Append(s, r)
    <2>1. /\ t \in Seq(Range1) /\ Len(t) = n + 1 /\ t[n + 1] = r /\ \A i \in 1 .. n : t[i] = s[i]
          /\ Positions(t) = Positions(s) \cup Bytes(r)
      BY <1>1, PositionsAppend DEF n
    <2>2. Absorb(s, r) = t
      BY <1>6 DEF Absorb, l
    <2> HIDE DEF t
    <2>3. End(s[n]) < r.pos
      BY <1>6, <1>1, <1>3, <1>4 DEF Touches, End
    <2>4. ASSUME NEW a \in 1 .. n + 1, NEW b \in 1 .. n + 1, a < b PROVE End(t[a]) < t[b].pos
      <3>1. a \in 1 .. n /\ t[a] = s[a]
        BY <2>4, <2>1, <1>1
      <3>2. CASE b \in 1 .. n
        BY <3>1, <3>2, <2>1, <2>4, <1>2
      <3>3. CASE b = n + 1
        <4>1. End(s[a]) <= End(s[n])
          <5>1. CASE a = n
            BY <5>1, <1>3, <1>1 DEF End
          <5>2. CASE a < n
            <6>1. End(s[a]) < s[n].pos
              BY <5>2, <1>1, <1>2, <3>1
            <6>2. s[n].pos \in Nat /\ s[n].size \in Nat /\ s[a].pos \in Nat /\ s[a].size \in Nat
              BY <1>3, <1>1, <3>1
            <6>3. QED
              BY <6>1, <6>2, SMTT(30) DEF End
          <5>3. QED
            BY <5>1, <5>2, <3>1, <1>1
        <4>2. s[n].pos \in Nat /\ s[n].size \in Nat /\ s[a].pos \in Nat /\ s[a].size \in Nat
          BY <1>3, <1>1, <3>1
        <4>0. End(s[a]) \in Int /\ End(s[n]) \in Int
          BY <4>2, SMTT(30) DEF End
        <4>3. End(s[a]) < r.pos
          BY <4>1, <4>0, <2>3, <1>4
        <4>4. QED
          BY <4>3, <3>1, <3>3, <2>1
      <3>4. QED
        BY <3>2, <3>3, <1>1
    <2>5. SeqExt!Last(t) = r
      BY <2>1 DEF SeqExt!Last
    <2>6. QED
      BY <2>1, <2>2, <2>4, <2>5, <1>4 DEF Apart
  <1>7. QED
    BY <1>5, <1>6

LEMMA PartFacts ==
  ASSUME NEW s \in Seq(Range1), NEW i \in 1 .. Len(s)
  PROVE  /\ SubSeq(s, i + 1, Len(s)) \in Seq(Range1)
         /\ Len(SubSeq(s, i + 1, Len(s))) = Len(s) - i
         /\ \A j \in 1 .. Len(s) - i : SubSeq(s, i + 1, Len(s))[j] = s[i + j]
  <1>1. Len(s) \in Nat /\ i \in Nat /\ \A j \in 1 .. Len(s) : s[j] \in Range1
    OBVIOUS
  <1>2. \A j \in i + 1 .. Len(s) : s[j] \in Range1
    BY <1>1
  <1>3. /\ SubSeq(s, i + 1, Len(s)) \in Seq(Range1)
        /\ Len(SubSeq(s, i + 1, Len(s))) = IF i + 1 <= Len(s) THEN Len(s) - (i + 1) + 1 ELSE 0
        /\ \A j \in 1 .. Len(s) - (i + 1) + 1 : SubSeq(s, i + 1, Len(s))[j] = s[(i + 1) + j - 1]
    <2>1. i + 1 \in Int /\ Len(s) \in Int
      BY <1>1
    <2>2. QED
      BY <1>2, <2>1, SubSeqProperties
  <1>4. Len(s) - (i + 1) + 1 = Len(s) - i /\ \A j \in 1 .. Len(s) - i : (i + 1) + j - 1 = i + j
    BY <1>1
  <1>5. Len(SubSeq(s, i + 1, Len(s))) = Len(s) - i
    BY <1>1, <1>3
  <1>6. QED
    BY <1>3, <1>4, <1>5

\* What is to be coalesced: the ranges before the i-th one are in order, and so
\* are those after it, which start after it does.
Joinable(rs, i) ==
  /\ Apart(rs, 1, i - 1) /\ Apart(rs, i + 1, Len(rs))
  /\ \A j \in 1 .. i - 1 : rs[j].pos < rs[i].pos
  /\ \A j \in i + 1 .. Len(rs) : rs[i].pos < rs[j].pos

\* The fold of Coalesce.
LEMMA AbsorbAllExact ==
  ASSUME NEW s \in Seq(Range1) \ {<<>>}, NEW t \in Seq(Range1),
         Apart(s, 1, Len(s)), Apart(t, 1, Len(t)),
         \A j \in 1 .. Len(t) : SeqExt!Last(s).pos <= t[j].pos
  PROVE  /\ AbsorbAll(s, t) \in Seq(Range1)
         /\ Canonical(AbsorbAll(s, t))
         /\ Positions(AbsorbAll(s, t)) = Positions(s) \cup Positions(t)
  <1> DEFINE A == Seq(Range1) \ {<<>>}
             n == Len(t)
             Upto(j) == {x \in Nat : \E k \in 1 .. j : t[k].pos <= x /\ x < t[k].pos + t[k].size}
  <1>0. n \in Nat
    OBVIOUS
  <1>1. \A a \in A, b \in Range1 : Absorb(a, b) \in A
    BY AbsorbTyped
  <1>2. PICK F \in [0 .. n -> A] :
           /\ F[0] = s
           /\ \A i \in 1 .. n : F[i] = Absorb(F[i - 1], t[i])
           /\ AbsorbAll(s, t) = F[n]
    <2> HIDE DEF A
    <2>1. s \in A
      BY DEF A
    <2>2. AbsorbFolds(A, s, t)
      BY <1>1, <2>1, AbsorbFold
    <2>3. QED
      BY <2>2 DEF AbsorbFolds
  <1> DEFINE Good(j) ==
        /\ Apart(F[j], 1, Len(F[j]))
        /\ Positions(F[j]) = Positions(s) \cup Upto(j)
        /\ \A k \in 1 .. n : k > j => SeqExt!Last(F[j]).pos <= t[k].pos
             G == {j \in 0 .. n : Good(j)}
  <1>3. \A k \in 1 .. n : t[k] \in Range1 /\ t[k].pos \in Nat /\ t[k].size \in Nat /\ t[k].size > 0
    BY RangeFields
  <1>4. 0 \in G
    <2>1. Upto(0) = {}
      OBVIOUS
    <2> HIDE DEF Upto
    <2>2. QED
      BY <1>2, <2>1, <1>0
  <1>5. ASSUME NEW j \in 1 .. n, j - 1 \in G PROVE j \in G
    <2>0. j - 1 \in 0 .. n /\ j \in 0 .. n /\ j > j - 1
      BY <1>0
    <2>1. F[j - 1] \in A /\ F[j] \in A /\ F[j] = Absorb(F[j - 1], t[j])
      BY <1>2, <2>0
    <2>2. /\ Apart(F[j - 1], 1, Len(F[j - 1]))
          /\ Positions(F[j - 1]) = Positions(s) \cup Upto(j - 1)
          /\ SeqExt!Last(F[j - 1]).pos <= t[j].pos
      <3> HIDE DEF Upto
      <3>1. QED
        BY <1>5, <2>0
    <2>3. /\ Apart(F[j], 1, Len(F[j]))
          /\ Positions(F[j]) = Positions(F[j - 1]) \cup Bytes(t[j])
          /\ SeqExt!Last(F[j]).pos <= t[j].pos
      BY <2>1, <2>2, <1>3, AbsorbExact
    <2>4. Upto(j) = Upto(j - 1) \cup Bytes(t[j])
      <3>1. ASSUME NEW x PROVE x \in Bytes(t[j]) <=> x \in Nat /\ t[j].pos <= x /\ x < t[j].pos + t[j].size
        BY <1>3 DEF Bytes, End
      <3>2. \A k \in 1 .. j : k \in 1 .. j - 1 \/ k = j
        OBVIOUS
      <3>3. \A k \in 1 .. j - 1 : k \in 1 .. j
        OBVIOUS
      <3>4. j \in 1 .. j
        OBVIOUS
      <3>5. QED
        BY <3>1, <3>2, <3>3, <3>4
    <2>5. ASSUME NEW k \in 1 .. n, k > j PROVE SeqExt!Last(F[j]).pos <= t[k].pos
      <3>1. t[j].pos < t[k].pos
        <4>1. End(t[j]) < t[k].pos
          BY <2>5 DEF Apart
        <4>2. QED
          BY <4>1, <1>3 DEF End
      <3>2. SeqExt!Last(F[j]).pos \in Nat
        <4>1. SeqExt!Last(F[j]) \in Range1
          BY <2>1, LastFront
        <4>2. QED
          BY <4>1 DEF Range1
      <3>3. t[j].pos \in Nat /\ t[k].pos \in Nat
        BY <1>3
      <3>4. QED
        BY <3>1, <3>2, <3>3, <2>3
    <2> HIDE DEF Upto
    <2>6. QED
      BY <2>0, <2>2, <2>3, <2>4, <2>5
  <1>6. \A j \in 0 .. n : j \in G
    <2> HIDE DEF G, n
    <2>1. QED
      BY <1>0, <1>4, <1>5, Induct
  <1>7. n \in G
    <2> HIDE DEF G, n
    <2>1. n \in 0 .. n
      BY <1>0
    <2>2. QED
      BY <1>6, <2>1
  <1>8. Good(n)
    BY <1>7
  <1>9. F[n] \in Seq(Range1)
    BY <1>2, <1>0
  <1>10. Canonical(F[n])
    BY <1>8, <1>9, ApartCanonical
  <1>11. Upto(n) = Positions(t)
    BY PositionsFacts
  <1> HIDE DEF Upto, n
  <1>12. QED
    BY <1>2, <1>8, <1>9, <1>10, <1>11

LEMMA CoalesceExact ==
  ASSUME NEW rs \in Seq(Range1), NEW i \in 1 .. Len(rs), Joinable(rs, i)
  PROVE  /\ Coalesce(rs, i) \in Seq(Range1)
         /\ Canonical(Coalesce(rs, i))
         /\ Positions(Coalesce(rs, i)) = Positions(rs)
  <1> DEFINE back == i > 1 /\ Touches(rs[i - 1], rs[i])
             e == IF back THEN i - 2 ELSE i - 1
             kept == SubSeq(rs, 1, e)
             this == IF back THEN Merged(rs[i - 1], rs[i]) ELSE rs[i]
             s == Append(kept, this)
             t == SubSeq(rs, i + 1, Len(rs))
  <1>1. /\ Len(rs) \in Nat /\ i \in Nat /\ DOMAIN rs = 1 .. Len(rs)
        /\ \A j \in 1 .. Len(rs) : rs[j] \in Range1 /\ rs[j].pos \in Nat /\ rs[j].size \in Nat /\ rs[j].size > 0
    BY RangeFields
  <1>2. /\ \A a, b \in 1 .. i - 1 : a < b => End(rs[a]) < rs[b].pos
        /\ \A a, b \in i + 1 .. Len(rs) : a < b => End(rs[a]) < rs[b].pos
        /\ \A j \in 1 .. i - 1 : rs[j].pos < rs[i].pos
        /\ \A j \in i + 1 .. Len(rs) : rs[i].pos < rs[j].pos
    BY DEF Joinable, Apart
  <1>3. Coalesce(rs, i) = AbsorbAll(s, t)
    BY DEF Coalesce
  <1>4. e \in Nat /\ e <= i - 1 /\ e \in 0 .. Len(rs)
    <2>1. CASE back
      BY <2>1, <1>1
    <2>2. CASE ~back
      BY <2>2, <1>1
    <2>3. QED
      BY <2>1, <2>2
  <1>5. /\ this \in Range1
        /\ this.pos <= rs[i].pos
        /\ \A j \in 1 .. e : End(rs[j]) < this.pos
        /\ Bytes(this) = UNION {Bytes(rs[j]) : j \in e + 1 .. i}
    <2>1. CASE back
      <3>1. i - 1 \in 1 .. Len(rs) /\ i - 1 \in 1 .. i - 1 /\ e = i - 2
        BY <2>1, <1>1
      <3>2. rs[i - 1].pos <= rs[i].pos
        BY <3>1, <1>1, <1>2
      <3>3. this = Merged(rs[i - 1], rs[i])
        BY <2>1
      <3>4. /\ this \in Range1 /\ this.pos = rs[i - 1].pos
            /\ Bytes(this) = Bytes(rs[i - 1]) \cup Bytes(rs[i])
        <4>1. rs[i - 1] \in Range1 /\ rs[i] \in Range1 /\ Touches(rs[i - 1], rs[i])
          BY <2>1, <3>1, <1>1
        <4>2. QED
          BY <4>1, <3>2, <3>3, MergedFacts
      <3>5. \A j \in 1 .. e : End(rs[j]) < this.pos
        <4>1. \A j \in 1 .. e : j \in 1 .. i - 1 /\ j < i - 1
          BY <3>1, <1>1
        <4>2. QED
          BY <4>1, <3>1, <3>4, <1>2
      <3>6. \A j : j \in e + 1 .. i <=> j = i - 1 \/ j = i
        BY <3>1, <1>1
      <3>7. QED
        BY <3>2, <3>4, <3>5, <3>6
    <2>2. CASE ~back
      <3>1. e = i - 1 /\ this = rs[i]
        BY <2>2
      <3>2. ASSUME NEW j \in 1 .. i - 1 PROVE End(rs[j]) < rs[i].pos
        <4>1. i > 1 /\ i - 1 \in 1 .. i - 1 /\ i - 1 \in 1 .. Len(rs) /\ j \in 1 .. Len(rs)
          BY <1>1
        <4>2. ~Touches(rs[i - 1], rs[i])
          BY <4>1, <2>2
        <4>3. rs[i - 1].pos \in Nat /\ rs[i - 1].size \in Nat /\ rs[i].pos \in Nat /\ rs[j].pos \in Nat /\ rs[j].size \in Nat
          BY <4>1, <1>1
        <4>4. End(rs[i - 1]) < rs[i].pos
          BY <4>2, <4>3 DEF Touches, End
        <4>5. CASE j = i - 1
          BY <4>4, <4>5
        <4>6. CASE j < i - 1
          <5>1. End(rs[j]) < rs[i - 1].pos
            BY <4>1, <4>6, <1>2
          <5>2. QED
            BY <5>1, <4>4, <4>3, SMTT(30) DEF End
        <4>7. QED
          BY <4>5, <4>6, <1>1
      <3>3. \A j : j \in e + 1 .. i <=> j = i
        BY <3>1, <1>1
      <3>4. rs[i].pos <= rs[i].pos
        BY <1>1
      <3>5. QED
        BY <3>1, <3>2, <3>3, <3>4, <1>1
    <2>3. QED
      BY <2>1, <2>2
  <1> HIDE DEF e, this
  <1>6. kept \in Seq(Range1) /\ Len(kept) = e /\ \A j \in 1 .. e : kept[j] = rs[j]
    BY <1>4, PrefixFacts
  <1>7. /\ t \in Seq(Range1) /\ Len(t) = Len(rs) - i
        /\ \A j \in 1 .. Len(rs) - i : t[j] = rs[i + j]
    BY PartFacts
  <1> HIDE DEF kept, t
  <1>8. /\ s \in Seq(Range1) /\ Len(s) = e + 1 /\ s[e + 1] = this /\ (\A j \in 1 .. e : s[j] = rs[j])
        /\ Positions(s) = Positions(kept) \cup Bytes(this)
    BY <1>5, <1>6, PositionsAppend
  <1> HIDE DEF s
  <1>9. s # <<>> /\ SeqExt!Last(s) = this
    BY <1>8, <1>4 DEF SeqExt!Last
  <1>10. Apart(s, 1, Len(s))
    <2>1. ASSUME NEW a \in 1 .. e + 1, NEW b \in 1 .. e + 1, a < b PROVE End(s[a]) < s[b].pos
      <3>1. a \in 1 .. e /\ s[a] = rs[a]
        BY <2>1, <1>4, <1>8
      <3>2. CASE b = e + 1
        BY <3>1, <3>2, <1>5, <1>8
      <3>3. CASE b \in 1 .. e
        <4>1. a \in 1 .. i - 1 /\ b \in 1 .. i - 1
          BY <3>1, <3>3, <1>4, <1>1
        <4>2. QED
          BY <4>1, <2>1, <1>2, <1>8, <3>1, <3>3
      <3>4. QED
        BY <3>2, <3>3, <1>4
    <2>2. QED
      BY <2>1, <1>8 DEF Apart
  <1>11. \A j \in 1 .. Len(t) : i + j \in i + 1 .. Len(rs) /\ i + j \in 1 .. Len(rs) /\ t[j] = rs[i + j]
    BY <1>1, <1>7
  <1>12. Apart(t, 1, Len(t))
    <2>1. ASSUME NEW a \in 1 .. Len(t), NEW b \in 1 .. Len(t), a < b PROVE End(t[a]) < t[b].pos
      <3>1. i + a < i + b
        BY <2>1, <1>1, <1>7
      <3>2. QED
        BY <3>1, <1>11, <1>2
    <2>2. QED
      BY <2>1 DEF Apart
  <1>13. \A j \in 1 .. Len(t) : SeqExt!Last(s).pos <= t[j].pos
    <2>1. TAKE j \in 1 .. Len(t)
    <2>2. t[j].pos \in Nat /\ rs[i].pos \in Nat /\ this.pos \in Nat /\ rs[i].pos < t[j].pos
      BY <1>11, <1>1, <1>2, <1>5 DEF Range1
    <2>3. QED
      BY <2>2, <1>5, <1>9
  <1>14. /\ AbsorbAll(s, t) \in Seq(Range1) /\ Canonical(AbsorbAll(s, t))
         /\ Positions(AbsorbAll(s, t)) = Positions(s) \cup Positions(t)
    BY <1>7, <1>8, <1>9, <1>10, <1>12, <1>13, AbsorbAllExact
  <1>15. Positions(s) \cup Positions(t) = Positions(rs)
    <2>1. Positions(kept) = UNION {Bytes(rs[j]) : j \in 1 .. e}
      BY <1>6 DEF Positions
    <2>2. Positions(rs) = UNION {Bytes(rs[j]) : j \in 1 .. Len(rs)}
      BY <1>1 DEF Positions
    <2>3. Positions(t) = UNION {Bytes(rs[j]) : j \in i + 1 .. Len(rs)}
      <3>1. DOMAIN t = 1 .. Len(t)
        BY <1>7
      <3>2. \A k \in i + 1 .. Len(rs) : k - i \in 1 .. Len(t) /\ t[k - i] = rs[k]
        BY <1>1, <1>7
      <3>3. QED
        BY <3>1, <3>2, <1>11 DEF Positions
    <2>4. \A j : j \in 1 .. Len(rs) <=> j \in 1 .. e \/ j \in e + 1 .. i \/ j \in i + 1 .. Len(rs)
      BY <1>1, <1>4
    <2>5. QED
      BY <2>1, <2>2, <2>3, <2>4, <1>5, <1>8
  <1>16. QED
    BY <1>3, <1>14, <1>15

\* Search finds the place where r belongs.
LEMMA SearchFacts ==
  ASSUME NEW rs \in Seq(Range1), Canonical(rs), NEW r \in [pos : Int, size : Int]
  PROVE  /\ Search(rs, r) \in 1 .. Len(rs) + 1
         /\ \A j \in 1 .. Search(rs, r) - 1 : rs[j].pos < r.pos
         /\ \A j \in Search(rs, r) .. Len(rs) : r.pos <= rs[j].pos
  <1>1. /\ Len(rs) \in Nat /\ DOMAIN rs = 1 .. Len(rs) /\ r.pos \in Int
        /\ \A j \in 1 .. Len(rs) : rs[j].pos \in Nat /\ rs[j].size \in Nat /\ rs[j].size > 0
    BY RangeFields
  <1>2. \A a, b \in 1 .. Len(rs) : a < b => rs[a].pos < rs[b].pos
    <2>1. \A a, b \in 1 .. Len(rs) : a < b => End(rs[a]) < rs[b].pos
      BY SortedFacts DEF Apart
    <2>2. QED
      BY <2>1, <1>1 DEF End
  <1> DEFINE S == {j \in 1 .. Len(rs) + 1 : j = Len(rs) + 1 \/ r.pos <= rs[j].pos}
  <1>3. PICK m \in S : \A y \in S : m <= y
    <2>1. S \in SUBSET Nat /\ Len(rs) + 1 \in S
      BY <1>1
    <2> HIDE DEF S
    <2>2. QED
      BY <2>1, LeastExists
  <1>4. m \in 1 .. Len(rs) + 1
    OBVIOUS
  <1>5. \A j \in 1 .. m - 1 : rs[j].pos < r.pos
    <2>1. TAKE j \in 1 .. m - 1
    <2>2. j \in 1 .. Len(rs) /\ j < m /\ j # Len(rs) + 1
      BY <1>1, <1>4
    <2>3. j \notin S
      BY <1>3, <2>2, <1>1, <1>4
    <2>4. ~(r.pos <= rs[j].pos)
      BY <2>2, <2>3, <1>1
    <2>5. QED
      BY <2>4, <2>2, <1>1
  <1>6. \A j \in m .. Len(rs) : r.pos <= rs[j].pos
    <2>1. TAKE j \in m .. Len(rs)
    <2>2. m \in 1 .. Len(rs) /\ r.pos <= rs[m].pos
      BY <1>1, <1>3
    <2>3. CASE j = m
      BY <2>2, <2>3
    <2>4. CASE j > m
      BY <2>2, <2>4, <1>1, <1>2
    <2>5. QED
      BY <2>3, <2>4, <1>4
  <1>7. {i \in DOMAIN rs : rs[i].pos < r.pos} = 1 .. m - 1
    <2>1. ASSUME NEW j \in 1 .. Len(rs), rs[j].pos < r.pos PROVE j \in 1 .. m - 1
      <3>1. ~(j \in m .. Len(rs))
        BY <2>1, <1>6, <1>1
      <3>2. QED
        BY <3>1, <1>1, <1>4
    <2>2. \A j \in 1 .. m - 1 : j \in 1 .. Len(rs)
      BY <1>1, <1>4
    <2>3. QED
      BY <2>1, <2>2, <1>1, <1>5
  <1>8. Cardinality(1 .. m - 1) = m - 1
    <2>1. 1 \in Int /\ m - 1 \in Int
      BY <1>1, <1>4
    <2>2. Cardinality(1 .. m - 1) = IF 1 > m - 1 THEN 0 ELSE (m - 1) - 1 + 1
      BY <2>1, FS_Interval
    <2>3. QED
      BY <2>2, <1>1, <1>4
  <1>9. Search(rs, r) = m
    <2>1. Search(rs, r) = 1 + Cardinality(1 .. m - 1)
      BY <1>7 DEF Search
    <2>2. QED
      BY <2>1, <1>8, <1>1, <1>4
  <1>10. QED
    BY <1>4, <1>5, <1>6, <1>9

\* A sequence with r put before its i-th range.
PutAt(rs, i, r) == SubSeq(rs, 1, i - 1) \o <<r>> \o SubSeq(rs, i, Len(rs))

\* What PutAt returns: r at place i, what was there and after it one place further.
PutFacts(rs, i, r, t) ==
  /\ t \in Seq(Range1) /\ Len(t) = Len(rs) + 1
  /\ \A j \in 1 .. i - 1 : t[j] = rs[j]
  /\ t[i] = r
  /\ \A j \in i + 1 .. Len(rs) + 1 : t[j] = rs[j - 1]

LEMMA PutIn ==
  ASSUME NEW rs \in Seq(Range1), NEW i \in 1 .. Len(rs) + 1, NEW r \in Range1, NEW t,
         t = PutAt(rs, i, r)
  PROVE  PutFacts(rs, i, r, t)
  <1> DEFINE a == SubSeq(rs, 1, i - 1)
             b == SubSeq(rs, i, Len(rs))
             n == Len(rs)
  <1>1. n \in Nat /\ i \in Nat /\ i >= 1 /\ i <= n + 1 /\ \A j \in 1 .. n : rs[j] \in Range1
    OBVIOUS
  <1>2. a \in Seq(Range1) /\ Len(a) = i - 1 /\ \A j \in 1 .. i - 1 : a[j] = rs[j]
    <2>1. i - 1 \in 0 .. Len(rs)
      BY <1>1
    <2>2. QED
      BY <2>1, PrefixFacts
  <1>3. /\ b \in Seq(Range1) /\ Len(b) = n - i + 1
        /\ \A j \in 1 .. n - i + 1 : b[j] = rs[i + j - 1]
    <2>1. \A j \in i .. n : rs[j] \in Range1
      BY <1>1
    <2>2. i \in Int /\ n \in Int
      BY <1>1
    <2>3. /\ b \in Seq(Range1) /\ Len(b) = IF i <= n THEN n - i + 1 ELSE 0
          /\ \A j \in 1 .. n - i + 1 : b[j] = rs[i + j - 1]
      BY <2>1, <2>2, SubSeqProperties
    <2>4. QED
      BY <2>3, <1>1
  <1> HIDE DEF a, b, n
  <1> DEFINE c == a \o <<r>>
  <1>4. c \in Seq(Range1) /\ Len(c) = i /\ (\A j \in 1 .. i - 1 : c[j] = rs[j]) /\ c[i] = r
    <2>1. c = Append(a, r)
      BY <1>2
    <2>2. /\ Append(a, r) \in Seq(Range1) /\ Len(Append(a, r)) = Len(a) + 1
          /\ Append(a, r)[Len(a) + 1] = r /\ \A j \in 1 .. Len(a) : Append(a, r)[j] = a[j]
      BY <1>2, PositionsAppend
    <2>3. Len(a) + 1 = i
      BY <1>1, <1>2
    <2> HIDE DEF c
    <2>4. QED
      BY <2>1, <2>2, <2>3, <1>2
  <1>5. t = c \o b
    BY DEF a, b, n, PutAt
  <1> HIDE DEF c
  <1>0. /\ c \o b \in Seq(Range1) /\ Len(c \o b) = Len(c) + Len(b)
        /\ \A j \in 1 .. Len(c) + Len(b) : (c \o b)[j] = IF j <= Len(c) THEN c[j] ELSE b[j - Len(c)]
    BY <1>3, <1>4, ConcatProperties
  <1>12. i + (n - i + 1) = n + 1
    BY <1>1
  <1>13. /\ t \in Seq(Range1) /\ Len(t) = n + 1
          /\ \A j \in 1 .. n + 1 : t[j] = IF j <= i THEN c[j] ELSE b[j - i]
    BY <1>0, <1>12, <1>3, <1>4, <1>5
  <1>6. t \in Seq(Range1) /\ Len(t) = n + 1
    BY <1>13
  <1>7. ASSUME NEW j \in 1 .. i PROVE t[j] = c[j]
    <2>1. j \in 1 .. n + 1 /\ j <= i
      BY <1>1
    <2>2. QED
      BY <2>1, <1>13
  <1>8. ASSUME NEW j \in i + 1 .. n + 1 PROVE t[j] = rs[j - 1]
    <2>0. j \in 1 .. n + 1 /\ ~(j <= i)
      BY <1>1
    <2>1. t[j] = b[j - i]
      BY <1>13, <2>0
    <2>2. j - i \in 1 .. n - i + 1 /\ i + (j - i) - 1 = j - 1
      BY <1>1
    <2>3. QED
      BY <2>1, <2>2, <1>3
  <1>9. \A j \in 1 .. i - 1 : j \in 1 .. i
    BY <1>1
  <1>10. i \in 1 .. i
    BY <1>1
  <1>11. QED
    BY <1>4, <1>6, <1>7, <1>8, <1>9, <1>10 DEF n, PutFacts

\* Insert keeps the ranges sorted and coalesced and adds just the bytes of r.
THEOREM InsertExact ==
  ASSUME NEW rs \in Seq(Range1), Canonical(rs), NEW r \in [pos : Nat, size : Int]
  PROVE  /\ Insert(rs, r) \in Seq(Range1)
         /\ Canonical(Insert(rs, r))
         /\ Positions(Insert(rs, r)) = Positions(rs) \cup Bytes(r)
  <1> DEFINE i == Search(rs, r)
             n == Len(rs)
  <1>1. /\ n \in Nat /\ DOMAIN rs = 1 .. n
        /\ \A j \in 1 .. n : rs[j] \in Range1 /\ rs[j].pos \in Nat /\ rs[j].size \in Nat /\ rs[j].size > 0
    BY RangeFields
  <1>2. /\ i \in 1 .. n + 1
        /\ \A j \in 1 .. i - 1 : rs[j].pos < r.pos
        /\ \A j \in i .. n : r.pos <= rs[j].pos
    BY SearchFacts
  <1>3. \A a, b \in 1 .. n : a < b => End(rs[a]) < rs[b].pos
    BY SortedFacts DEF Apart
  <1>4. ASSUME NEW a \in 1 .. n, NEW b \in 1 .. n, a < b PROVE rs[a].pos < rs[b].pos
    <2>1. rs[a].pos + rs[a].size < rs[b].pos
      BY <1>4, <1>3 DEF End
    <2>2. rs[a].pos \in Nat /\ rs[a].size \in Nat /\ rs[b].pos \in Nat
      BY <1>1
    <2>3. QED
      BY <2>1, <2>2
  <1>5. r.pos \in Nat /\ r.size \in Int
    OBVIOUS
  <1> HIDE DEF i
  <1>6. CASE IsEmpty(r)
    <2>1. Insert(rs, r) = rs
      BY <1>6 DEF Insert
    <2>2. Bytes(r) = {}
      BY <1>6, <1>5 DEF IsEmpty, Bytes, End
    <2>3. QED
      BY <2>1, <2>2
  <1>7. CASE ~IsEmpty(r) /\ i <= n /\ Touches(r, rs[i])
    <2> DEFINE m == Merged(r, rs[i])
               t == [rs EXCEPT ![i] = m]
    <2>1. Insert(rs, r) = Coalesce(t, i)
      BY <1>7 DEF Insert, i
    <2>2. i \in 1 .. n /\ r.pos <= rs[i].pos /\ r \in Range1 /\ rs[i] \in Range1
      BY <1>7, <1>1, <1>2, <1>5 DEF IsEmpty, Range1
    <2>3. m \in Range1 /\ m.pos = r.pos /\ Bytes(m) = Bytes(r) \cup Bytes(rs[i])
      BY <1>7, <2>2, MergedFacts
    <2> HIDE DEF m
    <2>4. t \in Seq(Range1) /\ Len(t) = n /\ t[i] = m /\ (\A j \in 1 .. n : j # i => t[j] = rs[j])
      BY <1>1, <2>2, <2>3
    <2> HIDE DEF t
    <2>5. Joinable(t, i)
      <3>1. \A a, b \in 1 .. i - 1 : a < b => End(t[a]) < t[b].pos
        <4>1. \A a \in 1 .. i - 1 : a \in 1 .. n /\ t[a] = rs[a]
          BY <2>4, <2>2, <1>1
        <4>2. QED
          BY <4>1, <1>3
      <3>2. \A a \in i + 1 .. n : a \in 1 .. n /\ t[a] = rs[a] /\ a > i
        BY <2>4, <2>2, <1>1
      <3>3. \A a, b \in i + 1 .. n : a < b => End(t[a]) < t[b].pos
        BY <3>2, <1>3
      <3>4. \A j \in 1 .. i - 1 : t[j].pos < t[i].pos
        <4>1. \A j \in 1 .. i - 1 : t[j] = rs[j]
          BY <2>4, <2>2, <1>1
        <4>2. QED
          BY <4>1, <1>2, <2>3, <2>4
      <3>5. \A j \in i + 1 .. n : t[i].pos < t[j].pos
        <4>1. TAKE j \in i + 1 .. n
        <4>2. t[j] = rs[j] /\ rs[i].pos < rs[j].pos /\ rs[j].pos \in Nat /\ rs[i].pos \in Nat
          BY <3>2, <1>4, <2>2, <1>1
        <4>3. QED
          BY <4>2, <2>2, <2>3, <2>4, <1>5
      <3>6. QED
        BY <3>1, <3>3, <3>4, <3>5, <2>4 DEF Joinable, Apart
    <2>6. /\ Coalesce(t, i) \in Seq(Range1) /\ Canonical(Coalesce(t, i))
          /\ Positions(Coalesce(t, i)) = Positions(t)
      BY <2>2, <2>4, <2>5, CoalesceExact
    <2>7. Positions(t) = Positions(rs) \cup Bytes(r)
      <3>1. DOMAIN t = 1 .. n /\ DOMAIN rs = 1 .. n
        BY <1>1, <2>4
      <3>2. ASSUME NEW x PROVE x \in Positions(t) <=> x \in Positions(rs) \/ x \in Bytes(r)
        <4>1. x \in Positions(t) <=> \E j \in 1 .. n : x \in Bytes(t[j])
          BY <3>1 DEF Positions
        <4>2. x \in Positions(rs) <=> \E j \in 1 .. n : x \in Bytes(rs[j])
          BY <3>1 DEF Positions
        <4>3. QED
          BY <4>1, <4>2, <2>2, <2>3, <2>4
      <3>3. QED
        BY <3>2
    <2>8. QED
      BY <2>1, <2>6, <2>7
  <1>8. CASE ~IsEmpty(r) /\ ~(i <= n /\ Touches(r, rs[i]))
    <2> DEFINE t == PutAt(rs, i, r)
    <2>1. Insert(rs, r) = Coalesce(t, i)
      BY <1>8 DEF Insert, i, PutAt
    <2>2. r \in Range1
      BY <1>8, <1>5 DEF IsEmpty, Range1
    <2>3. /\ t \in Seq(Range1) /\ Len(t) = n + 1 /\ (\A j \in 1 .. i - 1 : t[j] = rs[j]) /\ t[i] = r
          /\ \A j \in i + 1 .. n + 1 : t[j] = rs[j - 1]
      <3>1. PutFacts(rs, i, r, t)
        <4> HIDE DEF i
        <4>1. i \in 1 .. Len(rs) + 1
          BY <1>2
        <4>2. QED
          BY <4>1, <2>2, PutIn
      <3>2. QED
        BY <3>1 DEF PutFacts
    <2> HIDE DEF t
    <2>4. \A j \in i + 1 .. n + 1 : j - 1 \in i .. n /\ j - 1 \in 1 .. n
      BY <1>1, <1>2
    <2>5. \A j \in 1 .. i - 1 : j \in 1 .. n
      BY <1>1, <1>2
    <2>6. Joinable(t, i)
      <3>1. \A a, b \in 1 .. i - 1 : a < b => End(t[a]) < t[b].pos
        BY <2>3, <2>5, <1>3
      <3>2. ASSUME NEW a \in i + 1 .. n + 1, NEW b \in i + 1 .. n + 1, a < b PROVE End(t[a]) < t[b].pos
        <4>1. a - 1 < b - 1
          BY <3>2, <1>1, <1>2
        <4>2. QED
          BY <4>1, <2>3, <2>4, <1>3
      <3>3. \A j \in 1 .. i - 1 : t[j].pos < t[i].pos
        BY <2>3, <1>2
      <3>4. ASSUME NEW j \in i + 1 .. n + 1 PROVE t[i].pos < t[j].pos
        <4>1. i \in 1 .. n /\ i <= n
          BY <1>1, <1>2
        <4>2. ~Touches(r, rs[i]) /\ rs[i].pos \in Nat
          BY <4>1, <1>8, <1>1
        <4>3. r.pos < rs[i].pos
          BY <4>2, <1>5, <2>2 DEF Touches, End, Range1
        <4>4. rs[i].pos <= rs[j - 1].pos
          <5>1. CASE j - 1 = i
            BY <5>1, <4>2
          <5>2. CASE j - 1 > i
            <6>1. rs[i].pos < rs[j - 1].pos /\ rs[j - 1].pos \in Nat
              BY <5>2, <4>1, <2>4, <1>4, <1>1
            <6>2. QED
              BY <6>1, <4>2
          <5>3. QED
            BY <5>1, <5>2, <1>2, <2>4
        <4>5. rs[j - 1].pos \in Nat /\ t[j] = rs[j - 1] /\ t[i] = r
          BY <2>3, <2>4, <1>1
        <4>6. QED
          BY <4>2, <4>3, <4>4, <4>5, <1>5
      <3>5. QED
        BY <3>1, <3>2, <3>3, <3>4, <2>3 DEF Joinable, Apart
    <2>7. i \in 1 .. Len(t)
      BY <1>2, <2>3
    <2>8. /\ Coalesce(t, i) \in Seq(Range1) /\ Canonical(Coalesce(t, i))
          /\ Positions(Coalesce(t, i)) = Positions(t)
      BY <2>3, <2>6, <2>7, CoalesceExact
    <2>9. Positions(t) = Positions(rs) \cup Bytes(r)
      <3>1. DOMAIN t = 1 .. n + 1 /\ DOMAIN rs = 1 .. n
        BY <1>1, <2>3
      <3>2. ASSUME NEW x PROVE x \in Positions(t) <=> x \in Positions(rs) \/ x \in Bytes(r)
        <4>1. x \in Positions(t) <=> \E j \in 1 .. n + 1 : x \in Bytes(t[j])
          BY <3>1 DEF Positions
        <4>2. x \in Positions(rs) <=> \E j \in 1 .. n : x \in Bytes(rs[j])
          BY <3>1 DEF Positions
        <4>3. \A j \in 1 .. n + 1 : j \in 1 .. i - 1 \/ j = i \/ j \in i + 1 .. n + 1
          BY <1>1, <1>2
        <4>4. \A j \in 1 .. n : j \in 1 .. i - 1 \/ (j + 1 \in i + 1 .. n + 1 /\ (j + 1) - 1 = j)
          BY <1>1, <1>2
        <4>5. \A j \in 1 .. n + 1 : j \in i + 1 .. n + 1 => t[j] = rs[j - 1] /\ j - 1 \in 1 .. n
          BY <2>3, <2>4
        <4>6. i \in 1 .. n + 1 /\ \A j \in 1 .. i - 1 : j \in 1 .. n + 1
          BY <1>1, <1>2
        <4>7. \A j \in i + 1 .. n + 1 : j \in 1 .. n + 1
          BY <1>1, <1>2
        <4>8. ASSUME x \in Positions(t) PROVE x \in Positions(rs) \/ x \in Bytes(r)
          <5>1. PICK j \in 1 .. n + 1 : x \in Bytes(t[j])
            BY <4>1, <4>8
          <5>2. CASE j \in 1 .. i - 1
            BY <5>1, <5>2, <2>3, <2>5, <4>2
          <5>3. CASE j = i
            BY <5>1, <5>3, <2>3
          <5>4. CASE j \in i + 1 .. n + 1
            BY <5>1, <5>4, <4>5, <4>2
          <5>5. QED
            BY <5>2, <5>3, <5>4, <4>3
        <4>9. ASSUME x \in Bytes(r) PROVE x \in Positions(t)
          BY <4>9, <4>1, <4>6, <2>3
        <4>10. ASSUME x \in Positions(rs) PROVE x \in Positions(t)
          <5>1. PICK j \in 1 .. n : x \in Bytes(rs[j])
            BY <4>2, <4>10
          <5>2. CASE j \in 1 .. i - 1
            BY <5>1, <5>2, <4>1, <4>6, <2>3
          <5>3. CASE j + 1 \in i + 1 .. n + 1 /\ (j + 1) - 1 = j
            <6>1. t[j + 1] = rs[j] /\ j + 1 \in 1 .. n + 1
              BY <5>3, <2>3, <4>7
            <6>2. QED
              BY <6>1, <5>1, <4>1
          <5>4. QED
            BY <5>2, <5>3, <4>4
        <4>11. QED
          BY <4>8, <4>9, <4>10
      <3>3. QED
        BY <3>2
    <2>10. QED
      BY <2>1, <2>8, <2>9
  <1>9. QED
    BY <1>6, <1>7, <1>8

-----------------------------------------------------------------------------
(* Queries *)

\* What a range of a sequence has in common with r.
LEMMA CommonFacts ==
  ASSUME NEW a \in Range1, NEW r \in Range1
  PROVE  /\ a.pos < End(r) /\ r.pos < End(a) =>
              Intersect(a, r) = Span(Larger(a.pos, r.pos), Smaller(End(a), End(r)) - Larger(a.pos, r.pos))
         /\ ~(a.pos < End(r) /\ r.pos < End(a)) => Intersect(a, r) = Span(0, 0)
  <1>1. a.pos \in Nat /\ a.size \in Nat /\ a.size > 0 /\ r.pos \in Nat /\ r.size \in Nat /\ r.size > 0
    BY DEF Range1
  <1>2. ((a.pos >= r.pos /\ a.pos < End(r)) \/ (r.pos >= a.pos /\ r.pos < End(a)))
          <=> (a.pos < End(r) /\ r.pos < End(a))
    BY <1>1 DEF End
  <1>3. ASSUME a.pos < End(r) /\ r.pos < End(a)
        PROVE  Intersect(a, r) = Span(Larger(a.pos, r.pos), Smaller(End(a), End(r)) - Larger(a.pos, r.pos))
    <2>1. (a.pos >= r.pos /\ a.pos < End(r)) \/ (r.pos >= a.pos /\ r.pos < End(a))
      BY <1>1, <1>3 DEF End
    <2>2. QED
      BY <2>1, Zenon DEF Intersect
  <1>4. ASSUME ~(a.pos < End(r) /\ r.pos < End(a)) PROVE Intersect(a, r) = Span(0, 0)
    BY <1>2, <1>4 DEF Intersect
  <1>5. QED
    BY <1>3, <1>4, Zenon

\* Find: the first part of r is wholly present or wholly absent, and ends where
\* r, or the range it is in, ends, or where the next range starts.
FindFacts(rs, r, f) ==
  /\ f.curr \in Range1 /\ f.next \in [pos : Nat, size : Nat] /\ f.present \in BOOLEAN
  /\ f.curr.pos = r.pos /\ f.curr.size + f.next.size = r.size
  /\ f.next.size > 0 => f.next.pos = r.pos + f.curr.size
  /\ f.present =>
       \E k \in 1 .. Len(rs) :
         /\ rs[k].pos <= r.pos /\ r.pos + f.curr.size <= rs[k].pos + rs[k].size
         /\ f.next.size > 0 => r.pos + f.curr.size = rs[k].pos + rs[k].size
  /\ ~f.present =>
       /\ \A k \in 1 .. Len(rs) :
            rs[k].pos + rs[k].size <= r.pos \/ r.pos + f.curr.size <= rs[k].pos
       /\ f.next.size > 0 => \E k \in 1 .. Len(rs) : r.pos + f.curr.size = rs[k].pos

LEMMA FindExact ==
  ASSUME NEW rs \in Seq(Range1), Canonical(rs), NEW r \in Range1
  PROVE  FindFacts(rs, r, Find(rs, r))
  <1> DEFINE i == Search(rs, r)
             n == Len(rs)
             before == Common(rs, i - 1, r)
             after == Common(rs, i, r)
             f == Find(rs, r)
             p == r.pos
             z == r.size
  <1>1. /\ n \in Nat /\ DOMAIN rs = 1 .. n
        /\ \A j \in 1 .. n : rs[j] \in Range1 /\ rs[j].pos \in Nat /\ rs[j].size \in Nat /\ rs[j].size > 0
    BY RangeFields
  <1>2. /\ i \in 1 .. n + 1
        /\ \A j \in 1 .. i - 1 : rs[j].pos < p
        /\ \A j \in i .. n : p <= rs[j].pos
    <2>1. r \in [pos : Int, size : Int]
      BY DEF Range1
    <2>2. QED
      BY <2>1, SearchFacts
  <1>3. \A a, b \in 1 .. n : a < b => rs[a].pos + rs[a].size < rs[b].pos
    BY SortedFacts DEF Apart, End
  <1>4. p \in Nat /\ z \in Nat /\ z > 0 /\ End(r) = p + z
    BY DEF Range1, End
  <1>5. f = FirstPart(r, before, after) /\ ~IsEmpty(r)
    BY <1>4 DEF Find, IsEmpty
  <1>0. SUFFICES FindFacts(rs, r, f)
    OBVIOUS
  <1> HIDE DEF i, before, after, f
  <1>6. CASE i - 1 \in 1 .. n /\ p < rs[i - 1].pos + rs[i - 1].size
    <2> DEFINE a == rs[i - 1]
    <2>1. a \in Range1 /\ a.pos \in Nat /\ a.size \in Nat /\ a.size > 0 /\ a.pos < p /\ p < a.pos + a.size
      <3>1. i - 1 \in 1 .. i - 1
        BY <1>6
      <3>2. QED
        BY <1>6, <1>1, <1>2, <3>1
    <2>2. before = Intersect(a, r)
      BY <1>6, <1>1 DEF before, Common
    <2> HIDE DEF a
    <2>3. PICK e \in Nat : e = Smaller(a.pos + a.size, p + z)
      BY <2>1, <1>4 DEF Smaller
    <2>4. e > p /\ e <= p + z /\ e <= a.pos + a.size /\ (e = p + z \/ e = a.pos + a.size)
      BY <2>1, <2>3, <1>4 DEF Smaller
    <2>5. before = [pos |-> p, size |-> e - p]
      <3>1. a.pos < End(r) /\ r.pos < End(a) /\ End(a) = a.pos + a.size /\ Larger(a.pos, r.pos) = p
        BY <2>1, <1>4 DEF End, Larger
      <3>2. Intersect(a, r) = Span(Larger(a.pos, r.pos), Smaller(End(a), End(r)) - Larger(a.pos, r.pos))
        BY <2>1, <3>1, CommonFacts
      <3>3. QED
        BY <3>1, <3>2, <2>2, <2>3, <1>4 DEF Span
    <2>6. ~IsEmpty(before)
      BY <2>4, <2>5, <1>4 DEF IsEmpty
    <2>7. f = [curr |-> before, next |-> Span(End(before), r.size - before.size), present |-> TRUE]
      BY <1>5, <2>6 DEF FirstPart, Found
    <2>8. End(before) = e /\ before.pos = p /\ before.size = e - p
      BY <2>5, <1>4 DEF End
    <2>9. f.curr = before /\ f.next = [pos |-> e, size |-> z - (e - p)] /\ f.present = TRUE
      BY <2>7, <2>8 DEF Span
    <2>10. f.curr \in Range1 /\ f.next \in [pos : Nat, size : Nat]
      BY <2>4, <2>5, <2>9, <1>4 DEF Range1
    <2>11. f.next.size > 0 => e = a.pos + a.size
      BY <2>4, <2>9, <1>4
    <2>12. \E k \in 1 .. n : /\ rs[k].pos <= p /\ p + f.curr.size <= rs[k].pos + rs[k].size
                             /\ f.next.size > 0 => p + f.curr.size = rs[k].pos + rs[k].size
      <3>1. p + f.curr.size = e
        BY <2>8, <2>9, <1>4
      <3>2. a.pos <= p
        BY <2>1, <1>4
      <3>3. QED
        BY <3>1, <3>2, <2>4, <2>11, <1>6 DEF a
    <2>13. f.curr.pos = p /\ f.curr.size + f.next.size = z /\ (f.next.size > 0 => f.next.pos = p + f.curr.size)
      BY <2>8, <2>9, <1>4
    <2>14. QED
      BY <2>9, <2>10, <2>12, <2>13 DEF FindFacts
  <1>7. CASE ~(i - 1 \in 1 .. n /\ p < rs[i - 1].pos + rs[i - 1].size)
    <2>1. IsEmpty(before)
      <3>1. CASE i - 1 \in 1 .. n
        <4> DEFINE a == rs[i - 1]
        <4>1. a \in Range1 /\ a.pos \in Nat /\ a.size \in Nat /\ ~(p < a.pos + a.size)
          BY <3>1, <1>7, <1>1
        <4>2. before = Intersect(a, r)
          BY <3>1, <1>1 DEF before, Common
        <4> HIDE DEF a
        <4>3. ~(a.pos < End(r) /\ r.pos < End(a))
          BY <4>1 DEF End
        <4>4. before = Span(0, 0)
          BY <4>1, <4>2, <4>3, CommonFacts
        <4>5. QED
          BY <4>4 DEF Span, IsEmpty
      <3>2. CASE i - 1 \notin 1 .. n
        BY <3>2, <1>1 DEF before, Common, Span, IsEmpty
      <3>3. QED
        BY <3>1, <3>2
    <2>2. \A k \in 1 .. i - 1 : rs[k].pos + rs[k].size <= p
      <3>1. TAKE k \in 1 .. i - 1
      <3>2. i - 1 \in 1 .. n /\ k \in 1 .. n
        BY <1>1, <1>2
      <3>3. rs[i - 1].pos \in Nat /\ rs[i - 1].size \in Nat /\ rs[k].pos \in Nat /\ rs[k].size \in Nat
        BY <3>2, <1>1
      <3>4. rs[i - 1].pos + rs[i - 1].size <= p
        BY <3>2, <3>3, <1>7, <1>4
      <3>5. CASE k = i - 1
        BY <3>4, <3>5
      <3>6. CASE k < i - 1
        <4>1. rs[k].pos + rs[k].size < rs[i - 1].pos
          BY <3>2, <3>6, <1>3
        <4>2. QED
          BY <4>1, <3>3, <3>4, <1>4, SMTT(30)
      <3>7. QED
        BY <3>5, <3>6, <1>2
    <2>3. CASE i \in 1 .. n /\ rs[i].pos < p + z
      <3> DEFINE a == rs[i]
      <3>1. a \in Range1 /\ a.pos \in Nat /\ a.size \in Nat /\ a.size > 0 /\ p <= a.pos /\ a.pos < p + z
        <4>1. i \in i .. n
          BY <2>3
        <4>2. QED
          BY <4>1, <2>3, <1>1, <1>2
      <3>2. after = Intersect(a, r)
        BY <2>3, <1>1 DEF after, Common
      <3> HIDE DEF a
      <3>3. PICK e \in Nat : e = Smaller(a.pos + a.size, p + z)
        BY <3>1, <1>4 DEF Smaller
      <3>4. e > a.pos /\ e <= p + z /\ e <= a.pos + a.size /\ (e = p + z \/ e = a.pos + a.size)
        BY <3>1, <3>3, <1>4 DEF Smaller
      <3>5. after = [pos |-> a.pos, size |-> e - a.pos]
        <4>1. a.pos < End(r) /\ r.pos < End(a) /\ End(a) = a.pos + a.size /\ Larger(a.pos, r.pos) = a.pos
          BY <3>1, <1>4 DEF End, Larger
        <4>2. Intersect(a, r) = Span(Larger(a.pos, r.pos), Smaller(End(a), End(r)) - Larger(a.pos, r.pos))
          BY <3>1, <4>1, CommonFacts
        <4>3. QED
          BY <4>1, <4>2, <3>2, <3>3, <1>4 DEF Span
      <3>6. ~IsEmpty(after)
        BY <3>1, <3>4, <3>5 DEF IsEmpty
      <3>7. after.pos = a.pos /\ after.size = e - a.pos /\ End(after) = e
        BY <3>1, <3>5 DEF End
      <3>8. CASE p < a.pos
        <4> DEFINE h == Span(p, a.pos - p)
        <4>1. f = [curr |-> h, next |-> Span(End(h), r.size - h.size), present |-> FALSE]
          BY <3>6, <3>7, <3>8, <2>1, <1>5 DEF FirstPart, Found
        <4>2. h.pos = p /\ h.size = a.pos - p /\ End(h) = a.pos
          BY <3>1, <1>4 DEF Span, End
        <4>3. f.curr = [pos |-> p, size |-> a.pos - p] /\ f.next = [pos |-> a.pos, size |-> z - (a.pos - p)] /\ f.present = FALSE
          BY <4>1, <4>2 DEF Span
        <4>4. f.curr \in Range1 /\ f.next \in [pos : Nat, size : Nat]
          BY <4>3, <3>1, <3>8, <1>4 DEF Range1
        <4>5. f.curr.pos = p /\ f.curr.size + f.next.size = z /\ f.next.pos = p + f.curr.size /\ p + f.curr.size = a.pos
          BY <4>3, <3>1, <1>4
        <4>6. ASSUME NEW k \in 1 .. n
              PROVE  rs[k].pos + rs[k].size <= p \/ a.pos <= rs[k].pos
          <5>1. CASE k \in 1 .. i - 1
            BY <5>1, <2>2
          <5>2. CASE k = i
            BY <5>2, <3>1 DEF a
          <5>3. CASE k > i
            <6>1. a.pos + a.size < rs[k].pos /\ rs[k].pos \in Nat
              BY <5>3, <2>3, <1>3, <1>1 DEF a
            <6>2. QED
              BY <6>1, <3>1
          <5>4. QED
            BY <5>1, <5>2, <5>3, <1>2
        <4>7. \E k \in 1 .. n : a.pos = rs[k].pos
          BY <2>3 DEF a
        <4>8. QED
          BY <4>3, <4>4, <4>5, <4>6, <4>7 DEF FindFacts
      <3>9. CASE p = a.pos
        <4>1. f = [curr |-> after, next |-> Span(End(after), r.size - after.size), present |-> TRUE]
          BY <3>1, <3>6, <3>7, <3>9, <2>1, <1>5 DEF FirstPart, Found
        <4>2. f.curr = after /\ f.next = [pos |-> e, size |-> z - (e - p)] /\ f.present = TRUE
          BY <4>1, <3>7, <3>9 DEF Span
        <4>3. f.curr \in Range1 /\ f.next \in [pos : Nat, size : Nat]
          BY <4>2, <3>1, <3>4, <3>5, <3>9, <1>4 DEF Range1
        <4>9. f.curr.pos = p /\ f.curr.size = e - p /\ f.next.pos = e /\ f.next.size = z - (e - p)
          BY <4>2, <3>7, <3>9
        <4>4. f.curr.pos = p /\ f.curr.size + f.next.size = z /\ f.next.pos = p + f.curr.size /\ p + f.curr.size = e
          BY <4>9, <1>4
        <4>5. f.next.size > 0 => e = a.pos + a.size
          BY <4>2, <3>1, <3>4, <1>4
        <4>6. \E k \in 1 .. n : /\ rs[k].pos <= p /\ p + f.curr.size <= rs[k].pos + rs[k].size
                                /\ f.next.size > 0 => p + f.curr.size = rs[k].pos + rs[k].size
          <5>1. a.pos <= p
            BY <3>9, <1>4
          <5>2. QED
            BY <5>1, <4>4, <4>5, <3>4, <2>3 DEF a
        <4>7. QED
          BY <4>2, <4>3, <4>4, <4>6 DEF FindFacts
      <3>10. QED
        BY <3>1, <3>8, <3>9, <1>4
    <2>4. CASE ~(i \in 1 .. n /\ rs[i].pos < p + z)
      <3>1. IsEmpty(after)
        <4>1. CASE i \in 1 .. n
          <5> DEFINE a == rs[i]
          <5>1. a \in Range1 /\ a.pos \in Nat /\ a.size \in Nat /\ ~(a.pos < p + z)
            BY <4>1, <2>4, <1>1
          <5>2. after = Intersect(a, r)
            BY <4>1, <1>1 DEF after, Common
          <5> HIDE DEF a
          <5>3. ~(a.pos < End(r) /\ r.pos < End(a))
            BY <5>1, <1>4
          <5>4. after = Span(0, 0)
            BY <5>1, <5>2, <5>3, CommonFacts
          <5>5. QED
            BY <5>4 DEF Span, IsEmpty
        <4>2. CASE i \notin 1 .. n
          BY <4>2, <1>1 DEF after, Common, Span, IsEmpty
        <4>3. QED
          BY <4>1, <4>2
      <3>2. f = [curr |-> r, next |-> Span(0, 0), present |-> FALSE]
        BY <3>1, <2>1, <1>5 DEF FirstPart, Absent
      <3>3. f.curr = r /\ f.next = [pos |-> 0, size |-> 0] /\ f.present = FALSE
        BY <3>2 DEF Span
      <3>4. ASSUME NEW k \in 1 .. n
            PROVE  rs[k].pos + rs[k].size <= p \/ p + z <= rs[k].pos
        <4>1. CASE k \in 1 .. i - 1
          BY <4>1, <2>2
        <4>2. CASE k >= i
          <5>1. i \in 1 .. n /\ rs[i].pos \in Nat /\ rs[i].size \in Nat /\ rs[k].pos \in Nat
            BY <4>2, <1>1, <1>2
          <5>2. p + z <= rs[i].pos
            BY <5>1, <2>4, <1>4
          <5>3. CASE k = i
            BY <5>2, <5>3
          <5>4. CASE k > i
            <6>1. rs[i].pos + rs[i].size < rs[k].pos
              BY <5>1, <5>4, <1>3
            <6>2. QED
              BY <6>1, <5>1, <5>2, <1>4
          <5>5. QED
            BY <5>3, <5>4, <4>2, <1>2
        <4>3. QED
          BY <4>1, <4>2, <1>2
      <3>5. f.next \in [pos : Nat, size : Nat] /\ f.next.size = 0
        BY <3>3
      <3>6. f.curr.pos = p /\ f.curr.size = z /\ f.curr.size + f.next.size = z /\ ~(f.next.size > 0)
        BY <3>3, <3>5, <1>4
      <3>7. QED
        BY <3>3, <3>4, <3>5, <3>6 DEF FindFacts
    <2>5. QED
      BY <2>3, <2>4
  <1>8. QED
    BY <1>6, <1>7

\* Present and FindMissing answer as the set of positions does.
LEMMA QueryAnswers ==
  ASSUME NEW rs \in Seq(Range1), Canonical(rs), NEW r \in Range1
  PROVE  QueryExact(rs, r, Bytes(r) \ Positions(rs), FindMissing(rs, r))
  <1> DEFINE f == Find(rs, r)
             n == Len(rs)
             p == r.pos
             z == r.size
             q == p + f.curr.size
             P == Positions(rs)
             m == FindMissing(rs, r)
  <1>1. /\ n \in Nat
        /\ \A j \in 1 .. n : rs[j].pos \in Nat /\ rs[j].size \in Nat /\ rs[j].size > 0
    BY RangeFields
  <1>2. \A a, b \in 1 .. n : a < b => rs[a].pos + rs[a].size < rs[b].pos
    BY SortedFacts DEF Apart, End
  <1>3. p \in Nat /\ z \in Nat /\ z > 0 /\ End(r) = p + z /\ ~IsEmpty(r)
    BY DEF Range1, End, IsEmpty
  <1>4. FindFacts(rs, r, f)
    BY FindExact
  <1>5. /\ f.curr.pos = p /\ f.curr.size \in Nat /\ f.curr.size > 0 /\ f.next.size \in Nat
        /\ f.curr.size + f.next.size = z /\ f.present \in BOOLEAN
    BY <1>4 DEF FindFacts, Range1
  <1>6. q \in Nat /\ q > p /\ q <= p + z /\ (f.next.size = 0 <=> q = p + z) /\ End(f.curr) = q
    BY <1>5, <1>3 DEF End
  <1>7. \A x : x \in P <=> x \in Nat /\ \E i \in 1 .. n : rs[i].pos <= x /\ x < rs[i].pos + rs[i].size
    BY PositionsFacts
  <1>8. \A x : x \in Bytes(r) <=> x \in Nat /\ p <= x /\ x < p + z
    BY <1>3 DEF Bytes
  <1>9. /\ m = Remainder(r, f)
        /\ Present(rs, r) <=> f.present /\ f.next.size = 0
    BY <1>3, <1>5 DEF FindMissing, Present, AllThere, IsEmpty
  <1>10. SUFFICES QueryExact(rs, r, Bytes(r) \ P, m)
    OBVIOUS
  <1> DEFINE Miss == Bytes(r) \ P
  <1>11. CASE f.present
    <2>1. PICK k \in 1 .. n :
             /\ rs[k].pos <= p /\ q <= rs[k].pos + rs[k].size
             /\ f.next.size > 0 => q = rs[k].pos + rs[k].size
      BY <1>4, <1>11 DEF FindFacts
    <2>2. rs[k].pos \in Nat /\ rs[k].size \in Nat
      BY <1>1
    <2>3. m = [pos |-> q, size |-> z - (q - p)]
      BY <1>3, <1>6, <1>9, <1>11 DEF Remainder, Span
    <2>4. m.pos = q /\ End(m) = p + z
      BY <2>3, <1>3, <1>6 DEF End
    <2> HIDE DEF m, P, q, f
    <2>5. \A x \in Miss : x \in Nat /\ q <= x /\ x < p + z
      <3>1. TAKE x \in Miss
      <3>2. x \in Nat /\ p <= x /\ x < p + z /\ x \notin P
        BY <1>8
      <3>3. ~(x < q)
        BY <3>2, <1>6, <1>7, <2>1, <2>2, <1>3, SMTT(30)
      <3>4. QED
        BY <3>2, <3>3, <1>6
    <2>6. Miss \subseteq Bytes(m)
      BY <2>4, <2>5, <1>3 DEF Bytes
    <2>7. CASE f.next.size = 0
      <3>1. Miss = {}
        BY <2>5, <2>7, <1>6, <1>3
      <3>2. QED
        BY <3>1, <2>4, <2>6, <2>7, <1>3, <1>9, <1>11 DEF QueryExact
    <2>8. CASE f.next.size > 0
      <3>1. q = rs[k].pos + rs[k].size /\ q < p + z
        BY <2>1, <2>8, <1>6, <1>3
      <3>2. q \notin P
        <4>1. SUFFICES ASSUME NEW j \in 1 .. n, rs[j].pos <= q, q < rs[j].pos + rs[j].size PROVE FALSE
          BY <1>7
        <4>2. rs[j].pos \in Nat /\ rs[j].size \in Nat
          BY <1>1
        <4>3. CASE j < k
          <5>1. rs[j].pos + rs[j].size < rs[k].pos
            BY <4>3, <1>2
          <5>2. QED
            BY <5>1, <4>1, <4>2, <2>2, <3>1
        <4>4. CASE j = k
          BY <4>4, <4>1, <3>1, <2>2
        <4>5. CASE j > k
          <5>1. rs[k].pos + rs[k].size < rs[j].pos
            BY <4>5, <1>2
          <5>2. QED
            BY <5>1, <4>1, <4>2, <2>2, <3>1
        <4>6. QED
          BY <4>3, <4>4, <4>5
      <3>3. q \in Bytes(r)
        BY <3>1, <1>6, <1>8, <1>3
      <3>4. q \in Miss /\ Miss # {}
        BY <3>2, <3>3
      <3>5. ~Present(rs, r)
        BY <2>8, <1>5, <1>9
      <3>6. QED
        BY <3>4, <3>5, <2>4, <2>6, <1>3 DEF QueryExact
    <2>9. QED
      BY <2>7, <2>8, <1>5
  <1>12. CASE ~f.present
    <2>1. \A k \in 1 .. n : rs[k].pos + rs[k].size <= p \/ q <= rs[k].pos
      BY <1>4, <1>12 DEF FindFacts
    <2>2. m = r
      BY <1>9, <1>12 DEF Remainder
    <2> HIDE DEF m, P, q, f
    <2>3. p \notin P
      <3>1. SUFFICES ASSUME NEW j \in 1 .. n, rs[j].pos <= p, p < rs[j].pos + rs[j].size PROVE FALSE
        BY <1>7
      <3>2. rs[j].pos \in Nat /\ rs[j].size \in Nat
        BY <1>1
      <3>3. QED
        BY <3>1, <3>2, <2>1, <1>6, <1>3
    <2>4. p \in Miss
      BY <2>3, <1>8, <1>3
    <2>5. ~Present(rs, r)
      BY <1>9, <1>12
    <2>6. Miss \subseteq Bytes(r)
      OBVIOUS
    <2>7. QED
      BY <2>2, <2>4, <2>5, <2>6 DEF QueryExact
  <1>13. QED
    BY <1>11, <1>12, <1>5

\* The queries of every canonical sequence are exact.
THEOREM QueriesAreExact ==
  ASSUME NEW rs \in Seq(Range1), Canonical(rs), NEW max \in Nat
  PROVE  QueriesExact(rs, Positions(rs), max)
  <1>1. ASSUME NEW pos \in 0 .. max, NEW last \in pos .. max
        PROVE  QueryExact(rs, Span(pos, last - pos + 1), Bytes(Span(pos, last - pos + 1)) \ Positions(rs),
                          FindMissing(rs, Span(pos, last - pos + 1)))
    <2>1. Span(pos, last - pos + 1) \in Range1
      BY DEF Span, Range1
    <2>2. QED
      BY <2>1, QueryAnswers
  <1>2. QED
    BY <1>1 DEF QueriesExact

\* The fold of FindAll, step by step, each result in A.
NextFolds(A, rs, base, seq) ==
  \E F \in [0 .. Len(seq) -> A] :
    /\ F[0] = base
    /\ \A i \in 1 .. Len(seq) : F[i] = NextPart(rs, F[i - 1])
    /\ NextParts(rs, base, seq) = F[Len(seq)]

LEMMA NextFold ==
  ASSUME NEW rs, NEW A, NEW B, NEW base \in A, NEW seq \in Seq(B),
         \A a \in A : NextPart(rs, a) \in A
  PROVE  NextFolds(A, rs, base, seq)
  <1> DEFINE n == Len(seq)
             D == SUBSET (1 .. n)
             step == [x \in (1 .. n) \X A |-> NextPart(rs, x[2])]
             I(h) == h = [s \in D |-> IF s = {} THEN base
                                      ELSE NextPart(rs, h[s \ {SeqExt!Max(s)}])]
             H == CHOOSE h : I(h)
             F == [i \in 0 .. n |-> H[1 .. i]]
  <1>1. n \in Nat /\ DOMAIN seq = 1 .. n /\ \A i \in 1 .. n : seq[i] \in B
    OBVIOUS
  <1>2. step \in [(1 .. n) \X A -> A]
    BY <1>1
  <1>3. PICK g \in [D -> A] : FoldOn(g, n, base, step)
    <2> HIDE DEF step, n
    <2>1. QED
      BY <1>1, <1>2, FoldOnExists
  <1>4. I(g)
    <2>1. ASSUME NEW s \in D, s # {}
          PROVE  g[s] = NextPart(rs, g[s \ {SeqExt!Max(s)}])
      <3>1. SeqExt!Max(s) \in 1 .. n
        BY <2>1, <1>1, MaxFacts
      <3>2. g[s \ {SeqExt!Max(s)}] \in A
        OBVIOUS
      <3>3. g[s] = step[<<SeqExt!Max(s), g[s \ {SeqExt!Max(s)}]>>]
        BY <2>1, <1>3 DEF FoldOn
      <3>4. QED
        BY <3>1, <3>2, <3>3
    <2>2. {} \in D /\ g[{}] = base
      BY <1>3 DEF FoldOn
    <2>3. QED
      BY <2>1, <2>2
  <1>5. I(H)
    <2> HIDE DEF I
    <2>1. QED
      BY <1>4
  <1>6. NextParts(rs, base, seq) = H[1 .. n]
    BY <1>1 DEF NextParts, SeqExt!FoldLeft, SeqExt!MapThenFoldSet
  <1> HIDE DEF H
  <1>7. F[0] = base
    <2>1. 1 .. 0 = {} /\ {} \in D
      OBVIOUS
    <2>2. H[{}] = base
      BY <1>5, <2>1
    <2>3. QED
      BY <2>1, <2>2, <1>1
  <1>8. ASSUME NEW i \in 1 .. n PROVE F[i] = NextPart(rs, F[i - 1])
    <2>1. /\ 1 .. i \in SUBSET (1 .. n) /\ 1 .. i # {}
          /\ SeqExt!Max(1 .. i) = i
          /\ (1 .. i) \ {i} = 1 .. i - 1
      BY <1>1, UpTo
    <2>2. H[1 .. i] = NextPart(rs, H[1 .. i - 1])
      BY <1>5, <2>1
    <2>3. QED
      BY <2>2, <1>1
  <1> DEFINE G == {i \in 0 .. n : F[i] \in A}
  <1>9. \A i \in 0 .. n : i \in G
    <2>1. 0 \in G
      BY <1>7, <1>1
    <2>2. ASSUME NEW i \in 1 .. n, i - 1 \in G PROVE i \in G
      <3>1. F[i - 1] \in A
        BY <2>2
      <3> HIDE DEF F
      <3>2. NextPart(rs, F[i - 1]) \in A
        BY <3>1, <1>1
      <3>3. QED
        BY <3>2, <1>8
    <2> HIDE DEF G, F, n
    <2>3. QED
      BY <2>1, <2>2, <1>1, Induct
  <1>10. F \in [0 .. n -> A] /\ F[n] = H[1 .. n]
    BY <1>9, <1>1
  <1> HIDE DEF F
  <1>11. QED
    BY <1>6, <1>7, <1>8, <1>10 DEF NextFolds

\* The fold of Intersection, step by step, each result in A.
InsertFolds(A, base, seq) ==
  \E F \in [0 .. Len(seq) -> A] :
    /\ F[0] = base
    /\ \A i \in 1 .. Len(seq) : F[i] = InsertPresent(F[i - 1], seq[i])
    /\ InsertAllPresent(base, seq) = F[Len(seq)]

LEMMA InsertFold ==
  ASSUME NEW A, NEW B, NEW base \in A, NEW seq \in Seq(B),
         \A a \in A, b \in B : InsertPresent(a, b) \in A
  PROVE  InsertFolds(A, base, seq)
  <1> DEFINE n == Len(seq)
             D == SUBSET (1 .. n)
             step == [x \in (1 .. n) \X A |-> InsertPresent(x[2], seq[x[1]])]
             I(h) == h = [s \in D |-> IF s = {} THEN base
                                      ELSE InsertPresent(h[s \ {SeqExt!Max(s)}], seq[SeqExt!Max(s)])]
             H == CHOOSE h : I(h)
             F == [i \in 0 .. n |-> H[1 .. i]]
  <1>1. n \in Nat /\ DOMAIN seq = 1 .. n /\ \A i \in 1 .. n : seq[i] \in B
    OBVIOUS
  <1>2. step \in [(1 .. n) \X A -> A]
    BY <1>1
  <1>3. PICK g \in [D -> A] : FoldOn(g, n, base, step)
    <2> HIDE DEF step, n
    <2>1. QED
      BY <1>1, <1>2, FoldOnExists
  <1>4. I(g)
    <2>1. ASSUME NEW s \in D, s # {}
          PROVE  g[s] = InsertPresent(g[s \ {SeqExt!Max(s)}], seq[SeqExt!Max(s)])
      <3>1. SeqExt!Max(s) \in 1 .. n
        BY <2>1, <1>1, MaxFacts
      <3>2. g[s \ {SeqExt!Max(s)}] \in A
        OBVIOUS
      <3>3. g[s] = step[<<SeqExt!Max(s), g[s \ {SeqExt!Max(s)}]>>]
        BY <2>1, <1>3 DEF FoldOn
      <3>4. QED
        BY <3>1, <3>2, <3>3
    <2>2. {} \in D /\ g[{}] = base
      BY <1>3 DEF FoldOn
    <2>3. QED
      BY <2>1, <2>2
  <1>5. I(H)
    <2> HIDE DEF I
    <2>1. QED
      BY <1>4
  <1>6. InsertAllPresent(base, seq) = H[1 .. n]
    BY <1>1 DEF InsertAllPresent, SeqExt!FoldLeft, SeqExt!MapThenFoldSet
  <1> HIDE DEF H
  <1>7. F[0] = base
    <2>1. 1 .. 0 = {} /\ {} \in D
      OBVIOUS
    <2>2. H[{}] = base
      BY <1>5, <2>1
    <2>3. QED
      BY <2>1, <2>2, <1>1
  <1>8. ASSUME NEW i \in 1 .. n PROVE F[i] = InsertPresent(F[i - 1], seq[i])
    <2>1. /\ 1 .. i \in SUBSET (1 .. n) /\ 1 .. i # {}
          /\ SeqExt!Max(1 .. i) = i
          /\ (1 .. i) \ {i} = 1 .. i - 1
      BY <1>1, UpTo
    <2>2. H[1 .. i] = InsertPresent(H[1 .. i - 1], seq[i])
      BY <1>5, <2>1
    <2>3. QED
      BY <2>2, <1>1
  <1> DEFINE G == {i \in 0 .. n : F[i] \in A}
  <1>9. \A i \in 0 .. n : i \in G
    <2>1. 0 \in G
      BY <1>7, <1>1
    <2>2. ASSUME NEW i \in 1 .. n, i - 1 \in G PROVE i \in G
      <3>1. F[i - 1] \in A
        BY <2>2
      <3> HIDE DEF F
      <3>2. InsertPresent(F[i - 1], seq[i]) \in A
        BY <3>1, <1>1
      <3>3. QED
        BY <3>2, <1>8
    <2> HIDE DEF G, F, n
    <2>3. QED
      BY <2>1, <2>2, <1>1, Induct
  <1>10. F \in [0 .. n -> A] /\ F[n] = H[1 .. n]
    BY <1>9, <1>1
  <1> HIDE DEF F
  <1>11. QED
    BY <1>6, <1>7, <1>8, <1>10 DEF InsertFolds

-----------------------------------------------------------------------------
(* FindAll and Intersection *)

Part1 == [r : Range1, present : BOOLEAN]
Acc1 == [rest : [pos : Nat, size : Nat], parts : Seq(Part1)]

\* Parts that cover the positions in S, each wholly present or wholly absent.
PartsExact(rs, parts, S) ==
  /\ \A i \in 1 .. Len(parts) :
       /\ Bytes(parts[i].r) \subseteq S
       /\ parts[i].present => Bytes(parts[i].r) \subseteq Positions(rs)
       /\ ~parts[i].present => Bytes(parts[i].r) \cap Positions(rs) = {}
  /\ \A x \in S : \E i \in 1 .. Len(parts) : x \in Bytes(parts[i].r)

\* The first c ranges end at p or before it, the others after it.
Cut(rs, p, c) ==
  /\ \A k \in 1 .. c : rs[k].pos + rs[k].size <= p
  /\ \A k \in c + 1 .. Len(rs) : p < rs[k].pos + rs[k].size

\* After j parts, what is left is the end of the range, and at least j/2 ranges
\* lie before it.
Left1(rs, r, j, acc) ==
  /\ PartsExact(rs, acc.parts, Bytes(r) \ Bytes(acc.rest))
  /\ acc.rest.size > 0 =>
       /\ acc.rest.pos + acc.rest.size = r.pos + r.size /\ r.pos <= acc.rest.pos
       /\ \E c \in 0 .. Len(rs) :
            /\ Cut(rs, acc.rest.pos, c)
            /\ j <= 2 * c \/ (j <= 2 * c + 1 /\ acc.rest.pos \in Positions(rs))

LEMMA CutExists ==
  ASSUME NEW rs \in Seq(Range1), Canonical(rs), NEW p \in Nat
  PROVE  \E c \in 0 .. Len(rs) : Cut(rs, p, c)
  <1> DEFINE n == Len(rs)
             S == {k \in 1 .. n + 1 : k = n + 1 \/ p < rs[k].pos + rs[k].size}
  <1>1. /\ n \in Nat
        /\ \A j \in 1 .. n : rs[j].pos \in Nat /\ rs[j].size \in Nat /\ rs[j].size > 0
    BY RangeFields
  <1>2. \A a, b \in 1 .. n : a < b => rs[a].pos + rs[a].size < rs[b].pos
    BY SortedFacts DEF Apart, End
  <1>3. PICK m \in S : \A y \in S : m <= y
    <2>1. S \in SUBSET Nat /\ n + 1 \in S
      BY <1>1
    <2> HIDE DEF S
    <2>2. QED
      BY <2>1, LeastExists
  <1>4. m - 1 \in 0 .. n /\ m \in Nat
    BY <1>1
  <1>5. ASSUME NEW k \in 1 .. m - 1 PROVE rs[k].pos + rs[k].size <= p
    <2>1. k \in 1 .. n /\ k < m
      BY <1>1, <1>4
    <2>2. k \notin S
      BY <2>1, <1>3, <1>4
    <2>3. ~(p < rs[k].pos + rs[k].size)
      BY <2>1, <2>2, <1>1
    <2>4. rs[k].pos \in Nat /\ rs[k].size \in Nat
      BY <2>1, <1>1
    <2>5. QED
      BY <2>3, <2>4
  <1>6. ASSUME NEW k \in (m - 1) + 1 .. n PROVE p < rs[k].pos + rs[k].size
    <2>1. m \in 1 .. n /\ p < rs[m].pos + rs[m].size /\ k \in 1 .. n /\ k >= m
      BY <1>1, <1>3, <1>4
    <2>2. CASE k = m
      BY <2>1, <2>2
    <2>3. CASE k > m
      <3>1. rs[m].pos + rs[m].size < rs[k].pos
        BY <2>1, <2>3, <1>2
      <3>2. rs[m].pos \in Nat /\ rs[m].size \in Nat /\ rs[k].pos \in Nat /\ rs[k].size \in Nat
        BY <2>1, <1>1
      <3>3. QED
        BY <3>1, <3>2, <2>1, SMTT(30)
    <2>4. QED
      BY <2>1, <2>2, <2>3
  <1>7. Cut(rs, p, m - 1)
    BY <1>5, <1>6 DEF Cut
  <1>8. QED
    BY <1>4, <1>7

LEMMA NextPartTyped ==
  ASSUME NEW rs \in Seq(Range1), Canonical(rs), NEW acc \in Acc1
  PROVE  NextPart(rs, acc) \in Acc1
  <1> DEFINE f == Find(rs, acc.rest)
  <1>1. acc.rest \in [pos : Nat, size : Nat] /\ acc.parts \in Seq(Part1)
    BY DEF Acc1
  <1>2. CASE IsEmpty(acc.rest)
    BY <1>2 DEF NextPart
  <1>3. CASE ~IsEmpty(acc.rest)
    <2>1. acc.rest \in Range1
      BY <1>1, <1>3 DEF IsEmpty, Range1
    <2>2. f.curr \in Range1 /\ f.next \in [pos : Nat, size : Nat] /\ f.present \in BOOLEAN
      BY <2>1, FindExact DEF FindFacts
    <2> HIDE DEF f
    <2>3. [r |-> f.curr, present |-> f.present] \in Part1
      BY <2>2 DEF Part1
    <2>4. Append(acc.parts, [r |-> f.curr, present |-> f.present]) \in Seq(Part1)
      BY <2>3, <1>1
    <2>5. NextPart(rs, acc) = [rest |-> f.next, parts |-> Append(acc.parts, [r |-> f.curr, present |-> f.present])]
      BY <1>3 DEF NextPart, f
    <2>6. QED
      BY <2>2, <2>4, <2>5 DEF Acc1
  <1>4. QED
    BY <1>2, <1>3

LEMMA NextPartExact ==
  ASSUME NEW rs \in Seq(Range1), Canonical(rs), NEW r \in [pos : Nat, size : Nat],
         NEW acc \in Acc1, NEW j \in Nat, Left1(rs, r, j, acc)
  PROVE  Left1(rs, r, j + 1, NextPart(rs, acc))
  <1> DEFINE f == Find(rs, acc.rest)
             n == Len(rs)
             p == acc.rest.pos
             z == acc.rest.size
             q == p + f.curr.size
             P == Positions(rs)
             part == [r |-> f.curr, present |-> f.present]
             parts == Append(acc.parts, part)
             new == [rest |-> f.next, parts |-> parts]
  <1>1. /\ n \in Nat
        /\ \A k \in 1 .. n : rs[k].pos \in Nat /\ rs[k].size \in Nat /\ rs[k].size > 0
    BY RangeFields
  <1>2. \A a, b \in 1 .. n : a < b => rs[a].pos + rs[a].size < rs[b].pos
    BY SortedFacts DEF Apart, End
  <1>3. acc.rest \in [pos : Nat, size : Nat] /\ acc.parts \in Seq(Part1) /\ p \in Nat /\ z \in Nat
    BY DEF Acc1
  <1>4. CASE IsEmpty(acc.rest)
    <2>1. NextPart(rs, acc) = acc /\ ~(acc.rest.size > 0)
      BY <1>3, <1>4 DEF NextPart, IsEmpty
    <2>2. QED
      BY <2>1 DEF Left1
  <1>5. CASE ~IsEmpty(acc.rest)
    <2>1. acc.rest \in Range1 /\ z > 0
      BY <1>3, <1>5 DEF IsEmpty, Range1
    <2>2. FindFacts(rs, acc.rest, f)
      BY <2>1, FindExact
    <2>3. /\ f.curr \in Range1 /\ f.curr.pos = p /\ f.curr.size \in Nat /\ f.curr.size > 0
          /\ f.next \in [pos : Nat, size : Nat] /\ f.next.size \in Nat /\ f.next.pos \in Nat
          /\ f.curr.size + f.next.size = z /\ f.present \in BOOLEAN
          /\ f.next.size > 0 => f.next.pos = q
      BY <2>2 DEF FindFacts, Range1
    <2>21. /\ f.curr.size \in Nat /\ f.curr.size > 0 /\ f.next.size \in Nat
           /\ f.curr.size + f.next.size = z /\ p \in Nat /\ z \in Nat
      BY <2>3, <1>3
    <2>4. q \in Nat /\ q > p /\ q <= p + z /\ (f.next.size > 0 <=> q < p + z)
      <3> DEFINE a == f.curr.size
                 b == f.next.size
      <3>1. q = p + a
        OBVIOUS
      <3>2. a \in Nat /\ a > 0 /\ b \in Nat /\ a + b = z /\ p \in Nat /\ z \in Nat
        BY <2>21
      <3> HIDE DEF a, b, q, p, z
      <3>3. q \in Nat /\ q > p /\ q <= p + z /\ (b > 0 <=> q < p + z)
        BY <3>1, <3>2
      <3>4. QED
        BY <3>3 DEF b
    <2>5. NextPart(rs, acc) = new
      BY <1>5 DEF NextPart
    <2>6. /\ p + z = r.pos + r.size /\ r.pos <= p
          /\ \E c \in 0 .. n : Cut(rs, p, c) /\ (j <= 2 * c \/ (j <= 2 * c + 1 /\ p \in P))
      BY <2>1 DEF Left1
    <2>7. \A x : x \in P <=> x \in Nat /\ \E i \in 1 .. n : rs[i].pos <= x /\ x < rs[i].pos + rs[i].size
      BY PositionsFacts
    <2>8. \A x : x \in Bytes(f.curr) <=> x \in Nat /\ p <= x /\ x < q
      BY <2>3, <2>4, <1>3, SMTT(30) DEF Bytes, End
    <2>9. \A x : x \in Bytes(r) <=> x \in Nat /\ r.pos <= x /\ x < p + z
      BY <2>6, <1>3, SMTT(30) DEF Bytes, End
    <2>10. \A x : x \in Bytes(acc.rest) <=> x \in Nat /\ p <= x /\ x < p + z
      BY <1>3 DEF Bytes, End
    <2>11. \A x : x \in Bytes(f.next) <=> x \in Nat /\ q <= x /\ x < p + z
      <3>1. CASE f.next.size > 0
        <4>1. f.next.pos = q /\ f.next.pos + f.next.size = p + z
          BY <3>1, <2>3, <1>3, SMTT(30)
        <4>2. QED
          BY <4>1, <2>3, <2>4, <1>3, SMTT(30) DEF Bytes, End
      <3>2. CASE f.next.size = 0
        <4>1. q = p + z
          BY <3>2, <2>3, <2>4, <1>3
        <4>2. QED
          BY <3>2, <4>1, <2>3, <2>4, <1>3, SMTT(30) DEF Bytes, End
      <3>3. QED
        BY <3>1, <3>2, <2>3
    <2>12. /\ f.present => \E k \in 1 .. n :
                              /\ rs[k].pos <= p /\ q <= rs[k].pos + rs[k].size
                              /\ f.next.size > 0 => q = rs[k].pos + rs[k].size
           /\ ~f.present => \A k \in 1 .. n : rs[k].pos + rs[k].size <= p \/ q <= rs[k].pos
           /\ ~f.present /\ f.next.size > 0 => \E k \in 1 .. n : q = rs[k].pos
      BY <2>2 DEF FindFacts
    <2>13. /\ f.present => Bytes(f.curr) \subseteq P
           /\ ~f.present => Bytes(f.curr) \cap P = {}
      <3>1. ASSUME f.present, NEW x \in Bytes(f.curr) PROVE x \in P
        <4>1. PICK k \in 1 .. n : rs[k].pos <= p /\ q <= rs[k].pos + rs[k].size
          BY <2>12, <3>1
        <4>2. x \in Nat /\ p <= x /\ x < q /\ rs[k].pos \in Nat /\ rs[k].size \in Nat
          BY <3>1, <2>8, <1>1
        <4>3. rs[k].pos <= x /\ x < rs[k].pos + rs[k].size
          BY <4>1, <4>2, <2>4, <1>3, SMTT(30)
        <4>4. QED
          BY <4>2, <4>3, <2>7
      <3>2. ASSUME ~f.present, NEW x \in Bytes(f.curr) PROVE x \notin P
        <4>1. SUFFICES ASSUME NEW k \in 1 .. n, rs[k].pos <= x, x < rs[k].pos + rs[k].size PROVE FALSE
          BY <2>7
        <4>2. x \in Nat /\ p <= x /\ x < q /\ rs[k].pos \in Nat /\ rs[k].size \in Nat
          BY <3>2, <2>8, <1>1
        <4>3. rs[k].pos + rs[k].size <= p \/ q <= rs[k].pos
          BY <3>2, <2>12
        <4>4. QED
          BY <4>1, <4>2, <4>3, <2>4, <1>3, SMTT(30)
      <3>3. QED
        BY <3>1, <3>2
    <2>14. part \in Part1 /\ part.r = f.curr /\ part.present = f.present
      BY <2>3 DEF Part1
    <2> HIDE DEF part
    <2>15. /\ Len(acc.parts) \in Nat
           /\ Len(parts) = Len(acc.parts) + 1 /\ parts[Len(acc.parts) + 1] = part
           /\ \A i \in 1 .. Len(acc.parts) : parts[i] = acc.parts[i]
      BY <1>3, <2>14
    <2> HIDE DEF f, q, P, n, p, z
    <2>16. PartsExact(rs, parts, Bytes(r) \ Bytes(f.next))
      <3> DEFINE S == Bytes(r) \ Bytes(acc.rest)
                 T == Bytes(r) \ Bytes(f.next)
                 l == Len(acc.parts)
      <3>1. /\ \A i \in 1 .. l :
                 /\ Bytes(acc.parts[i].r) \subseteq S
                 /\ acc.parts[i].present => Bytes(acc.parts[i].r) \subseteq P
                 /\ ~acc.parts[i].present => Bytes(acc.parts[i].r) \cap P = {}
            /\ \A x \in S : \E i \in 1 .. l : x \in Bytes(acc.parts[i].r)
        BY DEF Left1, PartsExact, P
      <3>2. \A x : x \in T <=> x \in S \/ x \in Bytes(f.curr)
        <4>1. p \in Nat /\ z \in Nat /\ q \in Nat /\ q > p /\ q <= p + z /\ r.pos <= p /\ r.pos \in Nat
          BY <1>3, <2>4, <2>6
        <4>2. QED
          BY <4>1, <2>8, <2>9, <2>10, <2>11
      <3> HIDE DEF S, T, l, parts
      <3>3. \A i \in 1 .. l + 1 : i \in 1 .. l \/ i = l + 1
        BY <2>15 DEF l
      <3>4. \A i \in 1 .. l : i \in 1 .. l + 1
        BY <2>15 DEF l
      <3>5. l + 1 \in 1 .. l + 1
        BY <2>15 DEF l
      <3>6. Len(parts) = l + 1 /\ parts[l + 1] = part /\ \A i \in 1 .. l : parts[i] = acc.parts[i]
        BY <2>15 DEF l
      <3>7. ASSUME NEW i \in 1 .. l + 1
            PROVE  /\ Bytes(parts[i].r) \subseteq T
                   /\ parts[i].present => Bytes(parts[i].r) \subseteq P
                   /\ ~parts[i].present => Bytes(parts[i].r) \cap P = {}
        <4>1. CASE i \in 1 .. l
          BY <4>1, <3>1, <3>2, <3>6
        <4>2. CASE i = l + 1
          BY <4>2, <3>2, <3>6, <2>13, <2>14
        <4>3. QED
          BY <4>1, <4>2, <3>3
      <3>8. ASSUME NEW x \in T PROVE \E i \in 1 .. l + 1 : x \in Bytes(parts[i].r)
        <4>1. CASE x \in S
          BY <4>1, <3>1, <3>4, <3>6
        <4>2. CASE x \in Bytes(f.curr)
          BY <4>2, <3>5, <3>6, <2>14
        <4>3. QED
          BY <4>1, <4>2, <3>2
      <3>9. QED
        BY <3>6, <3>7, <3>8 DEF PartsExact, P, T
    <2>17. ASSUME f.next.size > 0
           PROVE  /\ f.next.pos + f.next.size = r.pos + r.size /\ r.pos <= f.next.pos
                  /\ \E c \in 0 .. n : Cut(rs, f.next.pos, c) /\ (j + 1 <= 2 * c \/ (j + 1 <= 2 * c + 1 /\ f.next.pos \in P))
      <3>1. PICK c \in 0 .. n : Cut(rs, p, c) /\ (j <= 2 * c \/ (j <= 2 * c + 1 /\ p \in P))
        BY <2>6
      <3>2. f.next.pos = q
        BY <2>3, <2>17 DEF q
      <3>3. f.next.pos + f.next.size = r.pos + r.size /\ r.pos <= f.next.pos
        <4>1. q + f.next.size = p + z
          BY <2>21, SMTT(30) DEF q
        <4>2. r.pos \in Nat /\ r.pos <= q
          BY <2>4, <2>6, <2>21
        <4>3. QED
          BY <3>2, <4>1, <4>2, <2>6
      <3>4. /\ \A k \in 1 .. c : rs[k].pos + rs[k].size <= p
            /\ \A k \in c + 1 .. n : p < rs[k].pos + rs[k].size
        BY <3>1 DEF Cut, n
      <3>5. CASE f.present
        <4>1. PICK k \in 1 .. n : rs[k].pos <= p /\ q = rs[k].pos + rs[k].size
          BY <3>5, <2>12, <2>17
        <4>2. rs[k].pos \in Nat /\ rs[k].size \in Nat /\ rs[k].size > 0
          BY <1>1
        <4>3. k > c
          <5>1. ~(k \in 1 .. c)
            BY <3>4, <4>1, <4>2, <2>4, <1>3
          <5>2. QED
            BY <5>1, <3>1, <1>1
        <4>4. \A i \in 1 .. k : rs[i].pos + rs[i].size <= q
          <5>1. TAKE i \in 1 .. k
          <5>2. i \in 1 .. n /\ rs[i].pos \in Nat /\ rs[i].size \in Nat
            BY <1>1
          <5>3. CASE i = k
            <6>1. rs[i].pos + rs[i].size = q
              BY <5>3, <4>1
            <6>2. QED
              BY <6>1, <2>4
          <5>4. CASE i < k
            <6>1. rs[i].pos + rs[i].size < rs[k].pos
              BY <5>2, <5>4, <1>2
            <6>2. rs[k].pos < q /\ rs[k].pos \in Nat /\ q \in Nat
              BY <4>1, <4>2, <2>4
            <6>3. QED
              BY <6>1, <6>2, <5>2, SMTT(30)
          <5>5. i <= k /\ i \in Int /\ k \in Int
            OBVIOUS
          <5>6. QED
            BY <5>3, <5>4, <5>5
        <4>5. \A i \in k + 1 .. n : q < rs[i].pos + rs[i].size
          <5>1. TAKE i \in k + 1 .. n
          <5>2. i \in 1 .. n /\ k < i
            BY <1>1
          <5>3. rs[i].pos \in Nat /\ rs[i].size \in Nat /\ rs[i].size > 0 /\ rs[k].pos + rs[k].size < rs[i].pos
            BY <5>2, <1>1, <1>2
          <5>4. QED
            BY <5>3, <4>1, <4>2, <2>4, SMTT(30)
        <4>6. Cut(rs, q, k)
          BY <4>4, <4>5 DEF Cut, n
        <4>7. j + 1 <= 2 * k
          BY <4>3, <3>1, <1>1
        <4>8. k \in 0 .. n
          BY <1>1
        <4>9. QED
          BY <3>2, <3>3, <4>6, <4>7, <4>8
      <3>6. CASE ~f.present
        <4>1. \A k \in 1 .. n : rs[k].pos + rs[k].size <= p \/ q <= rs[k].pos
          BY <3>6, <2>12
        <4>2. p \notin P
          <5>1. SUFFICES ASSUME NEW k \in 1 .. n, rs[k].pos <= p, p < rs[k].pos + rs[k].size PROVE FALSE
            BY <2>7
          <5>2. rs[k].pos \in Nat /\ rs[k].size \in Nat
            BY <1>1
          <5>3. CASE rs[k].pos + rs[k].size <= p
            BY <5>1, <5>2, <5>3, <2>21, SMTT(30)
          <5>4. CASE q <= rs[k].pos
            BY <5>1, <5>2, <5>4, <2>4, <2>21, SMTT(30)
          <5>5. QED
            BY <5>3, <5>4, <4>1
        <4>3. j <= 2 * c
          BY <4>2, <3>1
        <4>4. \A i \in 1 .. c : rs[i].pos + rs[i].size <= q
          <5>1. TAKE i \in 1 .. c
          <5>2. rs[i].pos \in Nat /\ rs[i].size \in Nat /\ rs[i].pos + rs[i].size <= p
            BY <3>1, <3>4, <1>1
          <5>3. QED
            BY <5>2, <2>4, <1>3, SMTT(30)
        <4>5. \A i \in c + 1 .. n : q < rs[i].pos + rs[i].size
          <5>1. TAKE i \in c + 1 .. n
          <5>2. i \in 1 .. n
            BY <3>1, <1>1
          <5>3. rs[i].pos \in Nat /\ rs[i].size \in Nat /\ rs[i].size > 0 /\ p < rs[i].pos + rs[i].size
            BY <5>2, <3>4, <1>1
          <5>4. q <= rs[i].pos
            BY <5>2, <5>3, <4>1, <1>3, SMTT(30)
          <5>5. QED
            BY <5>3, <5>4, <2>4
        <4>6. Cut(rs, q, c)
          BY <4>4, <4>5 DEF Cut, n
        <4>7. q \in P
          <5>1. PICK k \in 1 .. n : q = rs[k].pos
            BY <3>6, <2>12, <2>17
          <5>2. rs[k].pos \in Nat /\ rs[k].size \in Nat /\ rs[k].size > 0
            BY <1>1
          <5>3. rs[k].pos <= q /\ q < rs[k].pos + rs[k].size
            BY <5>1, <5>2
          <5>4. QED
            BY <5>3, <2>4, <2>7
        <4>8. j + 1 <= 2 * c + 1
          BY <4>3, <3>1, <1>1
        <4>9. QED
          BY <3>2, <3>3, <3>1, <4>6, <4>7, <4>8
      <3>7. QED
        BY <3>5, <3>6
    <2>18. new.rest = f.next /\ new.parts = parts
      OBVIOUS
    <2> HIDE DEF new, parts
    <2>19. Left1(rs, r, j + 1, new)
      BY <2>16, <2>17, <2>18 DEF Left1, P, n
    <2>20. QED
      BY <2>5, <2>19
  <1>6. QED
    BY <1>4, <1>5

\* FindAll: the parts cover r, each is wholly present or wholly absent, and the
\* number of steps is enough for all of them.
THEOREM FindAllExact ==
  ASSUME NEW rs \in Seq(Range1), Canonical(rs), NEW r \in [pos : Nat, size : Nat]
  PROVE  /\ FindAll(rs, r) \in Seq(Part1)
         /\ PartsExact(rs, FindAll(rs, r), Bytes(r))
  <1> DEFINE n == Len(rs)
             N == 2 * n + 1
             steps == [k \in 1 .. N |-> k]
             base == [rest |-> r, parts |-> <<>>]
  <1>1. n \in Nat /\ N \in Nat
    BY RangeFields
  <1>2. steps \in Seq(Nat) /\ Len(steps) = N
    <2>1. steps \in [1 .. N -> Nat]
      OBVIOUS
    <2> HIDE DEF steps, N
    <2>2. QED
      BY <2>1, <1>1, IntervalSeq
  <1>3. base \in Acc1
    BY DEF Acc1
  <1>4. FindAll(rs, r) = NextParts(rs, base, steps).parts
    BY DEF FindAll
  <1> HIDE DEF steps
  <1>5. PICK F \in [0 .. N -> Acc1] :
           /\ F[0] = base
           /\ \A i \in 1 .. N : F[i] = NextPart(rs, F[i - 1])
           /\ NextParts(rs, base, steps) = F[N]
    <2>1. \A a \in Acc1 : NextPart(rs, a) \in Acc1
      BY NextPartTyped
    <2> HIDE DEF base, N
    <2>2. NextFolds(Acc1, rs, base, steps)
      BY <2>1, <1>2, <1>3, NextFold
    <2>3. QED
      BY <2>2, <1>2 DEF NextFolds
  <1> DEFINE G == {i \in 0 .. N : Left1(rs, r, i, F[i])}
  <1>6. 0 \in G
    <2>1. base.rest = r /\ base.parts = <<>>
      OBVIOUS
    <2>2. PartsExact(rs, base.parts, Bytes(r) \ Bytes(base.rest))
      BY <2>1 DEF PartsExact
    <2>3. r.pos \in Nat /\ r.size \in Nat
      OBVIOUS
    <2>4. PICK c \in 0 .. Len(rs) : Cut(rs, r.pos, c)
      BY <2>3, CutExists
    <2>5. 0 <= 2 * c /\ r.pos + r.size = r.pos + r.size /\ r.pos <= r.pos
      BY <2>3, <1>1
    <2> HIDE DEF base
    <2>6. Left1(rs, r, 0, base)
      BY <2>1, <2>2, <2>4, <2>5 DEF Left1
    <2> HIDE DEF N
    <2>7. QED
      BY <2>6, <1>5, <1>1
  <1>7. ASSUME NEW i \in 1 .. N, i - 1 \in G PROVE i \in G
    <2> HIDE DEF N
    <2>1. i - 1 \in Nat /\ i \in 0 .. N /\ i - 1 \in 0 .. N /\ (i - 1) + 1 = i
      BY <1>1
    <2>2. F[i - 1] \in Acc1 /\ Left1(rs, r, i - 1, F[i - 1]) /\ F[i] = NextPart(rs, F[i - 1])
      BY <1>5, <1>7, <2>1
    <2>3. Left1(rs, r, (i - 1) + 1, NextPart(rs, F[i - 1]))
      BY <2>1, <2>2, NextPartExact
    <2>4. QED
      BY <2>1, <2>2, <2>3
  <1>8. N \in G
    <2> HIDE DEF G, N
    <2>1. \A i \in 0 .. N : i \in G
      BY <1>1, <1>6, <1>7, Induct
    <2>2. N \in 0 .. N
      BY <1>1
    <2>3. QED
      BY <2>1, <2>2
  <1>9. Left1(rs, r, N, F[N]) /\ F[N] \in Acc1
    <2> HIDE DEF N
    <2>1. QED
      BY <1>8, <1>5
  <1> DEFINE acc == F[N]
  <1>10. acc.rest \in [pos : Nat, size : Nat] /\ acc.rest.size \in Nat /\ acc.rest.pos \in Nat /\ acc.parts \in Seq(Part1)
    BY <1>9 DEF Acc1
  <1>11. acc.rest.size = 0
    <2>1. SUFFICES ASSUME acc.rest.size > 0 PROVE FALSE
      BY <1>10
    <2>2. PICK c \in 0 .. n : /\ Cut(rs, acc.rest.pos, c)
                              /\ N <= 2 * c \/ (N <= 2 * c + 1 /\ acc.rest.pos \in Positions(rs))
      BY <1>9, <2>1 DEF Left1
    <2>3. c = n /\ acc.rest.pos \in Positions(rs)
      BY <2>2, <1>1
    <2>4. PICK k \in 1 .. n : rs[k].pos <= acc.rest.pos /\ acc.rest.pos < rs[k].pos + rs[k].size
      BY <2>3, PositionsFacts
    <2>5. rs[k].pos + rs[k].size <= acc.rest.pos
      BY <2>2, <2>3 DEF Cut
    <2>6. rs[k].pos \in Nat /\ rs[k].size \in Nat
      BY RangeFields
    <2>7. QED
      BY <2>4, <2>5, <2>6, <1>10
  <1>12. Bytes(acc.rest) = {}
    BY <1>10, <1>11 DEF Bytes, End
  <1>13. PartsExact(rs, acc.parts, Bytes(r))
    <2>1. PartsExact(rs, acc.parts, Bytes(r) \ Bytes(acc.rest))
      BY <1>9 DEF Left1
    <2>2. Bytes(r) \ Bytes(acc.rest) = Bytes(r)
      BY <1>12
    <2>3. QED
      BY <2>1, <2>2
  <1>14. FindAll(rs, r) = acc.parts
    BY <1>4, <1>5
  <1>15. QED
    BY <1>10, <1>13, <1>14

\* Intersection keeps just the positions of r.
THEOREM IntersectionExact ==
  ASSUME NEW rs \in Seq(Range1), Canonical(rs), NEW r \in [pos : Nat, size : Nat]
  PROVE  /\ Intersection(rs, r) \in Seq(Range1)
         /\ Canonical(Intersection(rs, r))
         /\ Positions(Intersection(rs, r)) = Positions(rs) \cap Bytes(r)
  <1> DEFINE parts == FindAll(rs, r)
             n == Len(parts)
             A == {s \in Seq(Range1) : Canonical(s)}
  <1>1. parts \in Seq(Part1) /\ n \in Nat /\ PartsExact(rs, parts, Bytes(r))
    BY FindAllExact
  <1>2. Intersection(rs, r) = InsertAllPresent(<<>>, parts)
    BY DEF Intersection
  <1> HIDE DEF parts
  <1>3. \A i \in 1 .. n : parts[i] \in Part1 /\ parts[i].r \in [pos : Nat, size : Int] /\ parts[i].present \in BOOLEAN
    <2>1. \A i \in 1 .. n : parts[i] \in Part1
      BY <1>1
    <2>2. QED
      BY <2>1 DEF Part1, Range1
  <1>4. <<>> \in A /\ Positions(<<>>) = {}
    BY DEF Canonical, Positions
  <1>5. \A a \in A, b \in Part1 : InsertPresent(a, b) \in A
    <2>1. TAKE a \in A, b \in Part1
    <2>2. b.r \in [pos : Nat, size : Int]
      BY DEF Part1, Range1
    <2>3. Insert(a, b.r) \in A
      BY <2>2, InsertExact
    <2>4. QED
      BY <2>3 DEF InsertPresent
  <1>6. PICK F \in [0 .. n -> A] :
           /\ F[0] = <<>>
           /\ \A i \in 1 .. n : F[i] = InsertPresent(F[i - 1], parts[i])
           /\ InsertAllPresent(<<>>, parts) = F[n]
    <2> HIDE DEF A
    <2>1. InsertFolds(A, <<>>, parts)
      BY <1>1, <1>4, <1>5, InsertFold
    <2>2. QED
      BY <2>1 DEF InsertFolds
  <1> DEFINE Upto(i) == {x \in Nat : \E k \in 1 .. i : parts[k].present /\ x \in Bytes(parts[k].r)}
             G == {i \in 0 .. n : Positions(F[i]) = Upto(i)}
  <1>7. 0 \in G
    <2>1. Upto(0) = {}
      OBVIOUS
    <2> HIDE DEF Upto
    <2>2. QED
      BY <2>1, <1>1, <1>4, <1>6, SMTT(30)
  <1>8. ASSUME NEW i \in 1 .. n, i - 1 \in G PROVE i \in G
    <2>1. i - 1 \in 0 .. n /\ i \in 0 .. n
      BY <1>1
    <2>2. Positions(F[i - 1]) = Upto(i - 1) /\ F[i - 1] \in A /\ F[i] = InsertPresent(F[i - 1], parts[i])
      <3> HIDE DEF Upto, A
      <3>1. QED
        BY <1>6, <1>8, <2>1
    <2>3. \A x : x \in Upto(i) <=> x \in Upto(i - 1) \/ (x \in Nat /\ parts[i].present /\ x \in Bytes(parts[i].r))
      <3>1. \A k \in 1 .. i : k \in 1 .. i - 1 \/ k = i
        OBVIOUS
      <3>2. \A k \in 1 .. i - 1 : k \in 1 .. i
        OBVIOUS
      <3>3. i \in 1 .. i
        OBVIOUS
      <3>4. QED
        BY <3>1, <3>2, <3>3
    <2>4. Bytes(parts[i].r) \subseteq Nat
      BY <1>3 DEF Bytes, End
    <2> HIDE DEF Upto
    <2>5. CASE parts[i].present
      <3>1. F[i] = Insert(F[i - 1], parts[i].r)
        BY <2>2, <2>5 DEF InsertPresent
      <3>2. Positions(F[i]) = Positions(F[i - 1]) \cup Bytes(parts[i].r)
        BY <3>1, <2>2, <1>3, InsertExact
      <3>3. QED
        BY <3>2, <2>1, <2>2, <2>3, <2>4, <2>5
    <2>6. CASE ~parts[i].present
      <3>1. F[i] = F[i - 1]
        BY <2>2, <2>6 DEF InsertPresent
      <3>2. Upto(i) = Upto(i - 1)
        BY <2>3, <2>6
      <3>3. QED
        BY <3>1, <3>2, <2>1, <2>2
    <2>7. QED
      BY <2>5, <2>6
  <1>9. n \in G
    <2> HIDE DEF G, n
    <2>1. \A i \in 0 .. n : i \in G
      BY <1>1, <1>7, <1>8, Induct
    <2>2. n \in 0 .. n
      BY <1>1
    <2>3. QED
      BY <2>1, <2>2
  <1>10. Positions(F[n]) = Upto(n) /\ F[n] \in A
    <2> HIDE DEF Upto, A
    <2>1. QED
      BY <1>9, <1>6
  <1>11. Upto(n) = Positions(rs) \cap Bytes(r)
    <2>1. /\ \A i \in 1 .. n :
               /\ Bytes(parts[i].r) \subseteq Bytes(r)
               /\ parts[i].present => Bytes(parts[i].r) \subseteq Positions(rs)
               /\ ~parts[i].present => Bytes(parts[i].r) \cap Positions(rs) = {}
          /\ \A x \in Bytes(r) : \E i \in 1 .. n : x \in Bytes(parts[i].r)
      BY <1>1 DEF PartsExact
    <2>2. Positions(rs) \subseteq Nat
      BY PositionsFacts
    <2>3. ASSUME NEW x \in Upto(n) PROVE x \in Positions(rs) \cap Bytes(r)
      BY <2>1
    <2>4. ASSUME NEW x \in Positions(rs) \cap Bytes(r) PROVE x \in Upto(n)
      <3>1. PICK i \in 1 .. n : x \in Bytes(parts[i].r)
        BY <2>1
      <3>2. parts[i].present
        BY <3>1, <2>1, <2>4
      <3>3. x \in Nat
        BY <2>2
      <3>4. QED
        BY <3>1, <3>2, <3>3
    <2> HIDE DEF Upto
    <2>5. QED
      BY <2>3, <2>4
  <1> HIDE DEF Upto
  <1>12. QED
    BY <1>2, <1>6, <1>10, <1>11

=============================================================================
