-------------------------- MODULE DownloadersProofs --------------------------
(***************************************************************************)
(* Theorems about Downloaders: the types, the ranges, the closing and the  *)
(* reads, for every number of readers, downloaders, writes, truncates and  *)
(* resets.                                                                 *)
(***************************************************************************)
EXTENDS Downloaders, RangesProofs

-----------------------------------------------------------------------------
(* Folds *)

\* The fold of Select, step by step, each result in A.
SelectFolds(A, T, seq) ==
  \E F \in [0 .. Len(seq) -> A] :
    /\ F[0] = <<>>
    /\ \A i \in 1 .. Len(seq) : F[i] = (IF seq[i] \in T THEN Append(F[i - 1], seq[i]) ELSE F[i - 1])
    /\ Select(seq, T) = F[Len(seq)]

LEMMA SelectFold ==
  ASSUME NEW T, NEW A, NEW B, <<>> \in A, NEW seq \in Seq(B),
         \A a \in A, b \in B : (IF b \in T THEN Append(a, b) ELSE a) \in A
  PROVE  SelectFolds(A, T, seq)
  <1> DEFINE n == Len(seq)
             D == SUBSET (1 .. n)
             step == [x \in (1 .. n) \X A |-> (IF seq[x[1]] \in T THEN Append(x[2], seq[x[1]]) ELSE x[2])]
             I(h) == h = [s \in D |-> IF s = {} THEN <<>>
                                      ELSE (IF seq[SeqExt!Max(s)] \in T THEN Append(h[s \ {SeqExt!Max(s)}], seq[SeqExt!Max(s)]) ELSE h[s \ {SeqExt!Max(s)}])]
             H == CHOOSE h : I(h)
             F == [i \in 0 .. n |-> H[1 .. i]]
  <1>1. n \in Nat /\ DOMAIN seq = 1 .. n /\ \A i \in 1 .. n : seq[i] \in B
    OBVIOUS
  <1>2. step \in [(1 .. n) \X A -> A]
    BY <1>1
  <1>3. PICK g \in [D -> A] : FoldOn(g, n, <<>>, step)
    <2> HIDE DEF step, n
    <2>1. QED
      BY <1>1, <1>2, FoldOnExists
  <1>4. I(g)
    <2>1. ASSUME NEW s \in D, s # {}
          PROVE  g[s] = (IF seq[SeqExt!Max(s)] \in T THEN Append(g[s \ {SeqExt!Max(s)}], seq[SeqExt!Max(s)]) ELSE g[s \ {SeqExt!Max(s)}])
      <3>1. SeqExt!Max(s) \in 1 .. n
        BY <2>1, <1>1, MaxFacts
      <3>2. g[s \ {SeqExt!Max(s)}] \in A
        OBVIOUS
      <3>3. g[s] = step[<<SeqExt!Max(s), g[s \ {SeqExt!Max(s)}]>>]
        BY <2>1, <1>3 DEF FoldOn
      <3>4. QED
        BY <3>1, <3>2, <3>3
    <2>2. {} \in D /\ g[{}] = <<>>
      BY <1>3 DEF FoldOn
    <2>3. QED
      BY <2>1, <2>2
  <1>5. I(H)
    <2> HIDE DEF I
    <2>1. QED
      BY <1>4
  <1>6. Select(seq, T) = H[1 .. n]
    BY <1>1 DEF Select, SeqExt!FoldLeft, SeqExt!MapThenFoldSet
  <1> HIDE DEF H
  <1>7. F[0] = <<>>
    <2>1. 1 .. 0 = {} /\ {} \in D
      OBVIOUS
    <2>2. H[{}] = <<>>
      BY <1>5, <2>1
    <2>3. QED
      BY <2>1, <2>2, <1>1
  <1>8. ASSUME NEW i \in 1 .. n PROVE F[i] = (IF seq[i] \in T THEN Append(F[i - 1], seq[i]) ELSE F[i - 1])
    <2>1. /\ 1 .. i \in SUBSET (1 .. n) /\ 1 .. i # {}
          /\ SeqExt!Max(1 .. i) = i
          /\ (1 .. i) \ {i} = 1 .. i - 1
      BY <1>1, UpTo
    <2>2. H[1 .. i] = (IF seq[i] \in T THEN Append(H[1 .. i - 1], seq[i]) ELSE H[1 .. i - 1])
      BY <1>5, <2>1
    <2>3. QED
      BY <2>2, <1>1
  <1> DEFINE G == {i \in 0 .. n : F[i] \in A}
  <1>9. \A i \in 0 .. n : i \in G
    <2>1. 0 \in G
      BY <1>7, <1>1
    <2>2. ASSUME NEW i \in 1 .. n, i - 1 \in G PROVE i \in G
      <3>1. F[i - 1] \in A
        BY <2>2
      <3> HIDE DEF F
      <3>2. (IF seq[i] \in T THEN Append(F[i - 1], seq[i]) ELSE F[i - 1]) \in A
        BY <3>1, <1>1
      <3>3. QED
        BY <3>2, <1>8
    <2> HIDE DEF G, F, n
    <2>3. QED
      BY <2>1, <2>2, <1>1, Induct
  <1>10. F \in [0 .. n -> A] /\ F[n] = H[1 .. n]
    BY <1>9, <1>1
  <1> HIDE DEF F
  <1>11. QED
    BY <1>6, <1>7, <1>8, <1>10 DEF SelectFolds

\* The fold of EnsureAll, step by step, each result in A.
EnsureFolds(A, base, seq) ==
  \E F \in [0 .. Len(seq) -> A] :
    /\ F[0] = base
    /\ \A i \in 1 .. Len(seq) : F[i] = EnsureDownloader(F[i - 1], reads[seq[i]].r)
    /\ EnsureEach(base, seq) = F[Len(seq)]

LEMMA EnsureFold ==
  ASSUME NEW A, NEW B, NEW base \in A, NEW seq \in Seq(B),
         \A a \in A, b \in B : EnsureDownloader(a, reads[b].r) \in A
  PROVE  EnsureFolds(A, base, seq)
  <1> DEFINE n == Len(seq)
             D == SUBSET (1 .. n)
             step == [x \in (1 .. n) \X A |-> EnsureDownloader(x[2], reads[seq[x[1]]].r)]
             I(h) == h = [s \in D |-> IF s = {} THEN base
                                      ELSE EnsureDownloader(h[s \ {SeqExt!Max(s)}], reads[seq[SeqExt!Max(s)]].r)]
             H == CHOOSE h : I(h)
             F == [i \in 0 .. n |-> H[1 .. i]]
  <1>1. n \in Nat /\ DOMAIN seq = 1 .. n /\ \A i \in 1 .. n : seq[i] \in B
    OBVIOUS
  <1>2. step \in [(1 .. n) \X A -> A]
    BY <1>1
  <1>3. PICK g \in [D -> A] : FoldOn(g, n, base, step)
    <2> HIDE DEF step, n
    <2>1. QED
      BY <1>1, <1>2, FoldOnExists
  <1>4. I(g)
    <2>1. ASSUME NEW s \in D, s # {}
          PROVE  g[s] = EnsureDownloader(g[s \ {SeqExt!Max(s)}], reads[seq[SeqExt!Max(s)]].r)
      <3>1. SeqExt!Max(s) \in 1 .. n
        BY <2>1, <1>1, MaxFacts
      <3>2. g[s \ {SeqExt!Max(s)}] \in A
        OBVIOUS
      <3>3. g[s] = step[<<SeqExt!Max(s), g[s \ {SeqExt!Max(s)}]>>]
        BY <2>1, <1>3 DEF FoldOn
      <3>4. QED
        BY <3>1, <3>2, <3>3
    <2>2. {} \in D /\ g[{}] = base
      BY <1>3 DEF FoldOn
    <2>3. QED
      BY <2>1, <2>2
  <1>5. I(H)
    <2> HIDE DEF I
    <2>1. QED
      BY <1>4
  <1>6. EnsureEach(base, seq) = H[1 .. n]
    BY <1>1 DEF EnsureEach, SeqExt!FoldLeft, SeqExt!MapThenFoldSet
  <1> HIDE DEF H
  <1>7. F[0] = base
    <2>1. 1 .. 0 = {} /\ {} \in D
      OBVIOUS
    <2>2. H[{}] = base
      BY <1>5, <2>1
    <2>3. QED
      BY <2>1, <2>2, <1>1
  <1>8. ASSUME NEW i \in 1 .. n PROVE F[i] = EnsureDownloader(F[i - 1], reads[seq[i]].r)
    <2>1. /\ 1 .. i \in SUBSET (1 .. n) /\ 1 .. i # {}
          /\ SeqExt!Max(1 .. i) = i
          /\ (1 .. i) \ {i} = 1 .. i - 1
      BY <1>1, UpTo
    <2>2. H[1 .. i] = EnsureDownloader(H[1 .. i - 1], reads[seq[i]].r)
      BY <1>5, <2>1
    <2>3. QED
      BY <2>2, <1>1
  <1> DEFINE G == {i \in 0 .. n : F[i] \in A}
  <1>9. \A i \in 0 .. n : i \in G
    <2>1. 0 \in G
      BY <1>7, <1>1
    <2>2. ASSUME NEW i \in 1 .. n, i - 1 \in G PROVE i \in G
      <3>1. F[i - 1] \in A
        BY <2>2
      <3> HIDE DEF F
      <3>2. EnsureDownloader(F[i - 1], reads[seq[i]].r) \in A
        BY <3>1, <1>1
      <3>3. QED
        BY <3>2, <1>8
    <2> HIDE DEF G, F, n
    <2>3. QED
      BY <2>1, <2>2, <1>1, Induct
  <1>10. F \in [0 .. n -> A] /\ F[n] = H[1 .. n]
    BY <1>9, <1>1
  <1> HIDE DEF F
  <1>11. QED
    BY <1>6, <1>7, <1>8, <1>10 DEF EnsureFolds

\* The fold of WriteParts, step by step, each result in A.
PutFolds(A, base, seq) ==
  \E F \in [0 .. Len(seq) -> A] :
    /\ F[0] = base
    /\ \A i \in 1 .. Len(seq) : F[i] = PutPart(F[i - 1], seq[i])
    /\ PutParts(base, seq) = F[Len(seq)]

LEMMA PutFold ==
  ASSUME NEW A, NEW B, NEW base \in A, NEW seq \in Seq(B),
         \A a \in A, b \in B : PutPart(a, b) \in A
  PROVE  PutFolds(A, base, seq)
  <1> DEFINE n == Len(seq)
             D == SUBSET (1 .. n)
             step == [x \in (1 .. n) \X A |-> PutPart(x[2], seq[x[1]])]
             I(h) == h = [s \in D |-> IF s = {} THEN base
                                      ELSE PutPart(h[s \ {SeqExt!Max(s)}], seq[SeqExt!Max(s)])]
             H == CHOOSE h : I(h)
             F == [i \in 0 .. n |-> H[1 .. i]]
  <1>1. n \in Nat /\ DOMAIN seq = 1 .. n /\ \A i \in 1 .. n : seq[i] \in B
    OBVIOUS
  <1>2. step \in [(1 .. n) \X A -> A]
    BY <1>1
  <1>3. PICK g \in [D -> A] : FoldOn(g, n, base, step)
    <2> HIDE DEF step, n
    <2>1. QED
      BY <1>1, <1>2, FoldOnExists
  <1>4. I(g)
    <2>1. ASSUME NEW s \in D, s # {}
          PROVE  g[s] = PutPart(g[s \ {SeqExt!Max(s)}], seq[SeqExt!Max(s)])
      <3>1. SeqExt!Max(s) \in 1 .. n
        BY <2>1, <1>1, MaxFacts
      <3>2. g[s \ {SeqExt!Max(s)}] \in A
        OBVIOUS
      <3>3. g[s] = step[<<SeqExt!Max(s), g[s \ {SeqExt!Max(s)}]>>]
        BY <2>1, <1>3 DEF FoldOn
      <3>4. QED
        BY <3>1, <3>2, <3>3
    <2>2. {} \in D /\ g[{}] = base
      BY <1>3 DEF FoldOn
    <2>3. QED
      BY <2>1, <2>2
  <1>5. I(H)
    <2> HIDE DEF I
    <2>1. QED
      BY <1>4
  <1>6. PutParts(base, seq) = H[1 .. n]
    BY <1>1 DEF PutParts, SeqExt!FoldLeft, SeqExt!MapThenFoldSet
  <1> HIDE DEF H
  <1>7. F[0] = base
    <2>1. 1 .. 0 = {} /\ {} \in D
      OBVIOUS
    <2>2. H[{}] = base
      BY <1>5, <2>1
    <2>3. QED
      BY <2>1, <2>2, <1>1
  <1>8. ASSUME NEW i \in 1 .. n PROVE F[i] = PutPart(F[i - 1], seq[i])
    <2>1. /\ 1 .. i \in SUBSET (1 .. n) /\ 1 .. i # {}
          /\ SeqExt!Max(1 .. i) = i
          /\ (1 .. i) \ {i} = 1 .. i - 1
      BY <1>1, UpTo
    <2>2. H[1 .. i] = PutPart(H[1 .. i - 1], seq[i])
      BY <1>5, <2>1
    <2>3. QED
      BY <2>2, <1>1
  <1> DEFINE G == {i \in 0 .. n : F[i] \in A}
  <1>9. \A i \in 0 .. n : i \in G
    <2>1. 0 \in G
      BY <1>7, <1>1
    <2>2. ASSUME NEW i \in 1 .. n, i - 1 \in G PROVE i \in G
      <3>1. F[i - 1] \in A
        BY <2>2
      <3> HIDE DEF F
      <3>2. PutPart(F[i - 1], seq[i]) \in A
        BY <3>1, <1>1
      <3>3. QED
        BY <3>2, <1>8
    <2> HIDE DEF G, F, n
    <2>3. QED
      BY <2>1, <2>2, <1>1, Induct
  <1>10. F \in [0 .. n -> A] /\ F[n] = H[1 .. n]
    BY <1>9, <1>1
  <1> HIDE DEF F
  <1>11. QED
    BY <1>6, <1>7, <1>8, <1>10 DEF PutFolds

-----------------------------------------------------------------------------
(* Sequences without repetition *)

Distinct(s) == \A i, j \in DOMAIN s : i # j => s[i] # s[j]

LEMMA ToSetFacts ==
  ASSUME NEW X, NEW s \in Seq(X)
  PROVE  /\ \A x : x \in SeqExt!ToSet(s) <=> \E i \in 1 .. Len(s) : s[i] = x
         /\ SeqExt!ToSet(s) \subseteq X
         /\ SeqExt!ToSet(s) = {} => s = <<>>
  <1>1. DOMAIN s = 1 .. Len(s) /\ Len(s) \in Nat
    OBVIOUS
  <1>2. \A x : x \in SeqExt!ToSet(s) <=> \E i \in 1 .. Len(s) : s[i] = x
    BY <1>1 DEF SeqExt!ToSet
  <1>3. \A i \in 1 .. Len(s) : s[i] \in X
    OBVIOUS
  <1>4. ASSUME SeqExt!ToSet(s) = {} PROVE s = <<>>
    <2>1. SUFFICES ASSUME s # <<>> PROVE FALSE
      OBVIOUS
    <2>2. 1 \in 1 .. Len(s)
      BY <2>1
    <2>3. QED
      BY <2>2, <1>2, <1>4
  <1>5. QED
    BY <1>2, <1>3, <1>4

LEMMA AppendFacts ==
  ASSUME NEW X, NEW s \in Seq(X), NEW x \in X
  PROVE  /\ Append(s, x) \in Seq(X)
         /\ SeqExt!ToSet(Append(s, x)) = SeqExt!ToSet(s) \cup {x}
         /\ Distinct(s) /\ x \notin SeqExt!ToSet(s) => Distinct(Append(s, x))
  <1> DEFINE t == Append(s, x)
             n == Len(s)
  <1>1. n \in Nat /\ DOMAIN s = 1 .. n
    OBVIOUS
  <1>2. t \in Seq(X) /\ Len(t) = n + 1 /\ DOMAIN t = 1 .. n + 1
    OBVIOUS
  <1>3. t[n + 1] = x /\ \A i \in 1 .. n : t[i] = s[i]
    OBVIOUS
  <1>4. \A i \in 1 .. n + 1 : i \in 1 .. n \/ i = n + 1
    BY <1>1
  <1>5. n + 1 \in 1 .. n + 1 /\ \A i \in 1 .. n : i \in 1 .. n + 1
    BY <1>1
  <1> HIDE DEF t, n
  <1>6. SeqExt!ToSet(t) = SeqExt!ToSet(s) \cup {x}
    BY <1>1, <1>2, <1>3, <1>4, <1>5 DEF SeqExt!ToSet
  <1>7. ASSUME Distinct(s), x \notin SeqExt!ToSet(s) PROVE Distinct(t)
    <2>1. \A i \in 1 .. n : s[i] # x
      BY <1>1, <1>7 DEF SeqExt!ToSet
    <2>2. \A i, j \in 1 .. n : i # j => s[i] # s[j]
      BY <1>1, <1>7 DEF Distinct
    <2>3. QED
      BY <2>1, <2>2, <1>2, <1>3, <1>4 DEF Distinct
  <1>8. QED
    BY <1>2, <1>6, <1>7 DEF t

LEMMA SelectFacts ==
  ASSUME NEW X, NEW s \in Seq(X), NEW T
  PROVE  /\ Select(s, T) \in Seq(X)
         /\ SeqExt!ToSet(Select(s, T)) = SeqExt!ToSet(s) \cap T
         /\ Distinct(s) => Distinct(Select(s, T))
  <1> DEFINE n == Len(s)
             A == Seq(X)
             Upto(i) == {x \in X : \E k \in 1 .. i : s[k] = x}
  <1>1. n \in Nat /\ DOMAIN s = 1 .. n /\ \A i \in 1 .. n : s[i] \in X
    OBVIOUS
  <1>2. PICK F \in [0 .. n -> A] :
           /\ F[0] = <<>>
           /\ \A i \in 1 .. n : F[i] = IF s[i] \in T THEN Append(F[i - 1], s[i]) ELSE F[i - 1]
           /\ Select(s, T) = F[n]
    <2>1. <<>> \in A /\ \A a \in A, b \in X : (IF b \in T THEN Append(a, b) ELSE a) \in A
      OBVIOUS
    <2> HIDE DEF A
    <2>2. SelectFolds(A, T, s)
      BY <2>1, SelectFold
    <2>3. QED
      BY <2>2 DEF SelectFolds
  <1> DEFINE G == {i \in 0 .. n : /\ SeqExt!ToSet(F[i]) = Upto(i) \cap T
                                  /\ Distinct(s) => Distinct(F[i])}
  <1>3. 0 \in G
    <2>1. Upto(0) = {} /\ SeqExt!ToSet(<<>>) = {} /\ Distinct(<<>>)
      BY DEF SeqExt!ToSet, Distinct
    <2> HIDE DEF Upto
    <2>2. QED
      BY <2>1, <1>1, <1>2
  <1>4. ASSUME NEW i \in 1 .. n, i - 1 \in G PROVE i \in G
    <2>1. i - 1 \in 0 .. n /\ i \in 0 .. n
      BY <1>1
    <2>2. /\ SeqExt!ToSet(F[i - 1]) = Upto(i - 1) \cap T
          /\ Distinct(s) => Distinct(F[i - 1])
          /\ F[i - 1] \in Seq(X) /\ F[i] = IF s[i] \in T THEN Append(F[i - 1], s[i]) ELSE F[i - 1]
          /\ s[i] \in X
      <3> HIDE DEF Upto
      <3>1. QED
        BY <1>1, <1>2, <1>4, <2>1
    <2>3. \A x : x \in Upto(i) <=> x \in Upto(i - 1) \/ (x \in X /\ x = s[i])
      <3>1. \A k \in 1 .. i : k \in 1 .. i - 1 \/ k = i
        OBVIOUS
      <3>2. \A k \in 1 .. i - 1 : k \in 1 .. i
        OBVIOUS
      <3>3. i \in 1 .. i
        OBVIOUS
      <3>4. QED
        BY <3>1, <3>2, <3>3
    <2>4. Distinct(s) => s[i] \notin Upto(i - 1)
      <3>1. \A k \in 1 .. i - 1 : k \in 1 .. n /\ k # i
        BY <1>1
      <3>2. QED
        BY <3>1, <1>1 DEF Distinct
    <2> HIDE DEF Upto
    <2>5. CASE s[i] \in T
      <3>1. F[i] = Append(F[i - 1], s[i])
        BY <2>2, <2>5
      <3>2. /\ SeqExt!ToSet(F[i]) = SeqExt!ToSet(F[i - 1]) \cup {s[i]}
            /\ Distinct(F[i - 1]) /\ s[i] \notin SeqExt!ToSet(F[i - 1]) => Distinct(F[i])
        <4>1. F[i - 1] \in Seq(X) /\ s[i] \in X
          BY <2>2
        <4>2. /\ SeqExt!ToSet(Append(F[i - 1], s[i])) = SeqExt!ToSet(F[i - 1]) \cup {s[i]}
              /\ Distinct(F[i - 1]) /\ s[i] \notin SeqExt!ToSet(F[i - 1]) => Distinct(Append(F[i - 1], s[i]))
          BY <4>1, AppendFacts
        <4>3. QED
          BY <4>2, <3>1
      <3>3. SeqExt!ToSet(F[i]) = Upto(i) \cap T
        BY <3>2, <2>2, <2>3, <2>5
      <3>4. Distinct(s) => Distinct(F[i])
        BY <3>2, <2>2, <2>4
      <3>5. QED
        BY <3>3, <3>4, <2>1
    <2>6. CASE s[i] \notin T
      <3>1. F[i] = F[i - 1]
        BY <2>2, <2>6
      <3>2. Upto(i) \cap T = Upto(i - 1) \cap T
        BY <2>3, <2>6
      <3>3. QED
        BY <3>1, <3>2, <2>1, <2>2
    <2>7. QED
      BY <2>5, <2>6
  <1>5. n \in G
    <2> HIDE DEF G, n
    <2>1. \A i \in 0 .. n : i \in G
      BY <1>1, <1>3, <1>4, Induct
    <2>2. n \in 0 .. n
      BY <1>1
    <2>3. QED
      BY <2>1, <2>2
  <1>6. Upto(n) = SeqExt!ToSet(s)
    BY <1>1 DEF SeqExt!ToSet
  <1>7. SeqExt!ToSet(F[n]) = Upto(n) \cap T /\ (Distinct(s) => Distinct(F[n])) /\ F[n] \in Seq(X)
    <2> HIDE DEF Upto
    <2>1. QED
      BY <1>5, <1>2
  <1> HIDE DEF Upto, n
  <1>8. QED
    BY <1>2, <1>6, <1>7

-----------------------------------------------------------------------------
(* Types *)

Range0 == [pos : Nat, size : Nat]
Err1 == {"none", "io", "nospace"}
Item1 == [rs : Seq(Range1), size : Nat, length : Nat, tail : Range0, kept : Nat, beingReset : BOOLEAN,
          dirty : BOOLEAN, fd : BOOLEAN]
Read1 == [pc : {"idle", "ensure", "waiting", "read", "failed", "retry"}, ask : Range0,
          r : [pos : Nat, size : Int], present : BOOLEAN, tries : Nat, err : Err1]
Dl1 == [pc : {"run", "kick", "end", "closed", "last"}, start : Nat, offset : Nat, max : Nat, skipped : Nat,
        stop : BOOLEAN, err : Err1, old : BOOLEAN]
Close1 == [pc : {"open", "fetch", "stop", "join", "closed", "failed"}, reset : BOOLEAN, todo : Seq(Nat)]

\* The goroutines, by number.
DlOK(dl) ==
  /\ DOMAIN dl \subseteq Nat /\ IsFiniteSet(DOMAIN dl) /\ dl \in [DOMAIN dl -> Dl1]
  /\ \A k \in DOMAIN dl : dl[k].start <= dl[k].offset

Writing(dl) == {k \in DOMAIN dl : dl[k].pc \notin {"closed", "last"}}

\* The part of the type invariant that is about the downloaders alone.
DlsOK(D) ==
  /\ D = [open |-> D.open, list |-> D.list, waiters |-> D.waiters, errors |-> D.errors,
          lastErr |-> D.lastErr, dl |-> D.dl]
  /\ D.open \in BOOLEAN /\ D.list \in Seq(Nat) /\ D.waiters \in Seq(Thread)
  /\ D.errors \in Nat /\ D.lastErr \in Err1
  /\ DlOK(D.dl) /\ SeqExt!ToSet(D.list) = Writing(D.dl)

\* The reads, and the queue of the waiters.
ReadsOK(rd, waiters) ==
  /\ rd \in [Thread -> Read1]
  /\ \A p \in Thread : rd[p].pc \in {"ensure", "waiting"} => ~IsEmpty(rd[p].r)
  /\ SeqExt!ToSet(waiters) = {p \in Thread : rd[p].pc = "waiting"}
  /\ Distinct(waiters)

LEMMA TypeParts ==
  TypeOK <=> /\ item \in Item1 /\ held \subseteq Nat /\ write \in Range0
             /\ DlsOK(dls) /\ ReadsOK(reads, dls.waiters) /\ close \in Close1
  <1> DEFINE typed == dls \in [open : BOOLEAN, list : Seq(Nat), waiters : Seq(Thread), errors : Nat,
                               lastErr : Err1, dl : [DOMAIN dls.dl -> Dl1]]
             form == dls = [open |-> dls.open, list |-> dls.list, waiters |-> dls.waiters,
                            errors |-> dls.errors, lastErr |-> dls.lastErr, dl |-> dls.dl]
             fields == /\ dls.open \in BOOLEAN /\ dls.list \in Seq(Nat) /\ dls.waiters \in Seq(Thread)
                       /\ dls.errors \in Nat /\ dls.lastErr \in Err1 /\ dls.dl \in [DOMAIN dls.dl -> Dl1]
  <1>1. typed => form /\ fields
    OBVIOUS
  <1>2. form /\ fields => typed
    OBVIOUS
  <1>3. TypeOK <=>
          /\ item \in Item1 /\ held \subseteq Nat /\ write \in Range0
          /\ reads \in [Thread -> Read1]
          /\ \A p \in Thread : reads[p].pc \in {"ensure", "waiting"} => ~IsEmpty(reads[p].r)
          /\ typed
          /\ DOMAIN dls.dl \subseteq Nat /\ IsFiniteSet(DOMAIN dls.dl)
          /\ SeqExt!ToSet(dls.waiters) = {p \in Thread : reads[p].pc = "waiting"}
          /\ Distinct(dls.waiters)
          /\ SeqExt!ToSet(dls.list) = {k \in DOMAIN dls.dl : dls.dl[k].pc \notin {"closed", "last"}}
          /\ \A k \in DOMAIN dls.dl : dls.dl[k].start <= dls.dl[k].offset
          /\ close \in Close1
    BY Zenon DEF TypeOK, Item1, Range0, Range1, Read1, Err1, Dl1, Close1, Distinct
  <1> HIDE DEF typed
  <1>4. typed <=> form /\ fields
    BY <1>1, <1>2
  <1>5. QED
    BY <1>3, <1>4, Zenon DEF DlsOK, DlOK, Writing, ReadsOK

\* The downloaders of the right type, as a set.
DlsSet ==
  {D \in [open : BOOLEAN, list : Seq(Nat), waiters : Seq(Thread), errors : Nat, lastErr : Err1,
          dl : UNION {[S -> Dl1] : S \in SUBSET Nat}] : DlsOK(D)}

LEMMA DlsSetFacts ==
  \A D : D \in DlsSet <=> DlsOK(D)
  <1>1. ASSUME NEW D, DlsOK(D) PROVE D \in DlsSet
    <2>1. D.dl \in UNION {[S -> Dl1] : S \in SUBSET Nat}
      <3>1. D.dl \in [DOMAIN D.dl -> Dl1] /\ DOMAIN D.dl \in SUBSET Nat
        BY <1>1 DEF DlsOK, DlOK
      <3>2. QED
        BY <3>1
    <2> DEFINE U == UNION {[S -> Dl1] : S \in SUBSET Nat}
    <2> HIDE DEF U
    <2>2. /\ D.dl \in U
          /\ D = [open |-> D.open, list |-> D.list, waiters |-> D.waiters, errors |-> D.errors,
                  lastErr |-> D.lastErr, dl |-> D.dl]
          /\ D.open \in BOOLEAN /\ D.list \in Seq(Nat) /\ D.waiters \in Seq(Thread)
          /\ D.errors \in Nat /\ D.lastErr \in Err1
      BY <1>1, <2>1 DEF DlsOK, U
    <2>3. D \in [open : BOOLEAN, list : Seq(Nat), waiters : Seq(Thread), errors : Nat, lastErr : Err1, dl : U]
      BY <2>2
    <2>4. QED
      BY <2>3, <1>1 DEF DlsSet, U
  <1>2. QED
    BY <1>1 DEF DlsSet

-----------------------------------------------------------------------------
(* Downloaders *)

LEMMA MissingTyped ==
  ASSUME item \in Item1, Canonical(item.rs), NEW r \in Range0
  PROVE  Missing(r) \in Range0 /\ FindMissing(item.rs, r) \in Range0
  <1> DEFINE f == Find(item.rs, r)
             m == FindMissing(item.rs, r)
  <1>1. item.rs \in Seq(Range1) /\ item.size \in Nat
    BY DEF Item1
  <1>2. m \in Range0
    <2>1. CASE IsEmpty(r)
      BY <2>1 DEF FindMissing, Remainder
    <2>2. CASE ~IsEmpty(r)
      <3>1. r \in Range1
        BY <2>2 DEF Range0, Range1, IsEmpty
      <3>2. FindFacts(item.rs, r, f)
        BY <1>1, <3>1, FindExact
      <3>3. /\ f.curr \in Range1 /\ f.next \in Range0
            /\ f.curr.pos = r.pos /\ f.curr.size + f.next.size = r.size
        BY <3>2 DEF FindFacts, Range0
      <3> HIDE DEF f
      <3>4. /\ f.curr.pos \in Nat /\ f.curr.size \in Nat /\ f.next.size \in Nat
            /\ r.pos \in Nat /\ r.size \in Nat
        BY <3>3 DEF Range0, Range1
      <3>5. Remainder(r, f) \in Range0
        BY <3>3, <3>4 DEF Remainder, Span, End, Range0
      <3>6. QED
        BY <3>5 DEF FindMissing, f
    <2>3. QED
      BY <2>1, <2>2
  <1> HIDE DEF m
  <1>3. Clip(m, item.size) \in Range0
    BY <1>1, <1>2 DEF Clip, Span, End, Range0
  <1>4. QED
    BY <1>2, <1>3 DEF Missing, m

LEMMA GoalTyped ==
  ASSUME item \in Item1, Canonical(item.rs), NEW r \in Range0
  PROVE  Goal(r, [r EXCEPT !.size = @ + Window]) \in Range0
  <1> DEFINE w == [r EXCEPT !.size = @ + Window]
  <1>1. w \in Range0
    BY DownloadersAssumption DEF Range0
  <1> HIDE DEF w
  <1>2. Missing(w) \in Range0
    BY <1>1, MissingTyped
  <1>3. Goal(r, w) \in Range0
    BY <1>1, <1>2 DEF Goal, Span, End, Range0
  <1>4. QED
    BY <1>3 DEF w

LEMMA UnusedFresh ==
  ASSUME NEW dl, DOMAIN dl \subseteq Nat, IsFiniteSet(DOMAIN dl)
  PROVE  Unused(dl) \in Nat /\ Unused(dl) \notin DOMAIN dl
  <1> DEFINE n == Cardinality(DOMAIN dl)
             S == {x \in 1 .. n + 1 : x \notin DOMAIN dl}
  <1>1. n \in Nat
    BY FS_CardinalityType
  <1>2. S # {}
    <2>1. SUFFICES ASSUME 1 .. n + 1 \subseteq DOMAIN dl PROVE FALSE
      OBVIOUS
    <2>2. Cardinality(1 .. n + 1) <= n
      BY <2>1, FS_Subset
    <2>3. Cardinality(1 .. n + 1) = n + 1
      <3> HIDE DEF n
      <3>1. 1 \in Int /\ n + 1 \in Int
        BY <1>1
      <3>2. Cardinality(1 .. n + 1) = IF 1 > n + 1 THEN 0 ELSE (n + 1) - 1 + 1
        BY <3>1, FS_Interval
      <3>3. QED
        BY <3>2, <1>1
    <2> HIDE DEF n
    <2>4. QED
      BY <1>1, <2>2, <2>3
  <1>3. PICK x \in S : \A y \in S : x <= y
    <2>1. S \in SUBSET Nat
      OBVIOUS
    <2> HIDE DEF S
    <2>2. QED
      BY <1>2, <2>1, LeastExists
  <1>4. x \in 1 .. n + 1 /\ x \notin DOMAIN dl /\ 1 .. x - 1 \subseteq DOMAIN dl
    <2>1. x \in 1 .. n + 1 /\ x \notin DOMAIN dl
      BY <1>3
    <2> HIDE DEF n
    <2>2. ASSUME NEW y \in 1 .. x - 1 PROVE y \in DOMAIN dl
      <3>1. y \in 1 .. n + 1 /\ ~(x <= y)
        BY <2>1, <1>1
      <3>2. QED
        BY <3>1, <1>3
    <2>3. QED
      BY <2>1, <2>2
  <1>5. Unused(dl) \in 1 .. n + 1 /\ Unused(dl) \notin DOMAIN dl
    BY <1>4 DEF Unused
  <1> HIDE DEF n
  <1>6. QED
    BY <1>5, <1>1

GoodDl(d) == d \in Dl1 /\ d.start <= d.offset

\* A goroutine is new, or another state of one that runs.
PutDl(new, dl, k, d) ==
  \/ new = [n \in DOMAIN dl \cup {k} |-> IF n = k THEN d ELSE dl[n]]
  \/ k \in DOMAIN dl /\ new = [dl EXCEPT ![k] = d]

LEMMA DlPut ==
  ASSUME NEW dl, DlOK(dl), NEW k \in Nat, NEW d, GoodDl(d), NEW new, PutDl(new, dl, k, d)
  PROVE  /\ DlOK(new) /\ DOMAIN new = DOMAIN dl \cup {k}
         /\ \A x : x \in Writing(new) <=> IF x = k THEN d.pc \notin {"closed", "last"} ELSE x \in Writing(dl)
  <1>1. /\ DOMAIN new = DOMAIN dl \cup {k}
        /\ \A n \in DOMAIN new : new[n] = IF n = k THEN d ELSE dl[n]
        /\ new = [n \in DOMAIN new |-> new[n]]
    BY DEF DlOK, PutDl
  <1>2. DOMAIN new \subseteq Nat /\ IsFiniteSet(DOMAIN new)
    <2>1. IsFiniteSet(DOMAIN dl \cup {k})
      BY FS_AddElement DEF DlOK
    <2>2. QED
      BY <1>1, <2>1 DEF DlOK
  <1>3. \A n \in DOMAIN new : new[n] \in Dl1 /\ new[n].start <= new[n].offset
    BY <1>1 DEF DlOK, GoodDl
  <1>4. new \in [DOMAIN new -> Dl1]
    BY <1>1, <1>3
  <1>5. \A x : x \in Writing(new) <=> IF x = k THEN d.pc \notin {"closed", "last"} ELSE x \in Writing(dl)
    BY <1>1 DEF Writing
  <1>6. QED
    BY <1>1, <1>2, <1>3, <1>4, <1>5 DEF DlOK

\* Only the list and the goroutines change.
LEMMA DlsPut ==
  ASSUME NEW D, DlsOK(D), NEW list \in Seq(Nat), NEW dl, DlOK(dl), SeqExt!ToSet(list) = Writing(dl),
         NEW E, E = [open |-> D.open, list |-> list, waiters |-> D.waiters, errors |-> D.errors,
                     lastErr |-> D.lastErr, dl |-> dl]
  PROVE  DlsOK(E) /\ E.waiters = D.waiters /\ E.open = D.open /\ E.list = list /\ E.dl = dl
         /\ E.errors = D.errors /\ E.lastErr = D.lastErr
  BY DEF DlsOK

\* What EnsureDownloader leaves as it is.
Kept(D, E) ==
  /\ DlsOK(E) /\ E.waiters = D.waiters /\ E.open = D.open
  /\ E.errors = D.errors /\ E.lastErr = D.lastErr

LEMMA NewDownloaderTyped ==
  ASSUME NEW D, DlsOK(D), NEW r \in Range0
  PROVE  Kept(D, NewDownloader(D, r))
  <1> DEFINE k == Unused(D.dl)
             d == [Ended EXCEPT !.pc = "run", !.start = r.pos, !.offset = r.pos, !.max = End(r)]
             dl == [n \in DOMAIN D.dl \cup {k} |-> IF n = k THEN d ELSE D.dl[n]]
             list == Append(D.list, k)
             E == NewDownloader(D, r)
  <1>1. DlOK(D.dl) /\ D.list \in Seq(Nat) /\ SeqExt!ToSet(D.list) = Writing(D.dl)
    BY DEF DlsOK
  <1>2. k \in Nat /\ k \notin DOMAIN D.dl
    BY <1>1, UnusedFresh DEF DlOK
  <1>3. d \in Dl1 /\ d.start <= d.offset /\ d.pc \notin {"closed", "last"}
    <2>1. r.pos \in Nat /\ r.size \in Nat /\ End(r) \in Nat
      BY DEF Range0, End
    <2>2. Ended \in Dl1
      BY DEF Ended, Dl1, Err1
    <2>3. d \in Dl1
      BY <2>1, <2>2 DEF Dl1
    <2>4. d.start = r.pos /\ d.offset = r.pos /\ d.pc = "run"
      BY DEF Ended
    <2> HIDE DEF d
    <2>5. QED
      BY <2>1, <2>3, <2>4
  <1>4. E = [open |-> D.open, list |-> list, waiters |-> D.waiters, errors |-> D.errors,
             lastErr |-> D.lastErr, dl |-> dl]
    <2>1. D = [open |-> D.open, list |-> D.list, waiters |-> D.waiters, errors |-> D.errors,
               lastErr |-> D.lastErr, dl |-> D.dl]
      BY DEF DlsOK
    <2> HIDE DEF d, k
    <2>2. E = [D EXCEPT !.list = list, !.dl = dl]
      BY DEF NewDownloader, d, k
    <2> HIDE DEF dl, list, E
    <2>3. QED
      BY <2>1, <2>2
  <1> HIDE DEF k, d, E
  <1>5. DlOK(dl) /\ Writing(dl) = Writing(D.dl) \cup {k}
    <2>1. PutDl(dl, D.dl, k, d)
      BY DEF PutDl
    <2> HIDE DEF dl
    <2>2. QED
      <3>1. GoodDl(d)
        BY <1>3 DEF GoodDl
      <3>2. DlOK(dl)
        BY <3>1, <2>1, <1>1, <1>2, DlPut
      <3>3. Writing(dl) = Writing(D.dl) \cup {k}
        <4>1. \A x : x \in Writing(dl) <=> IF x = k THEN d.pc \notin {"closed", "last"} ELSE x \in Writing(D.dl)
          BY <3>1, <2>1, <1>1, <1>2, DlPut
        <4>2. QED
          BY <4>1, <1>3
      <3>4. QED
        BY <3>2, <3>3
  <1>6. list \in Seq(Nat) /\ SeqExt!ToSet(list) = SeqExt!ToSet(D.list) \cup {k}
    BY <1>1, <1>2, AppendFacts
  <1> HIDE DEF list, dl
  <1>7. SeqExt!ToSet(list) = Writing(dl)
    BY <1>1, <1>5, <1>6
  <1>8. DlsOK(E) /\ E.waiters = D.waiters /\ E.open = D.open /\ E.errors = D.errors /\ E.lastErr = D.lastErr
    BY <1>4, <1>5, <1>6, <1>7, DlsPut
  <1>9. QED
    BY <1>8 DEF Kept, E

LEMMA ExtendOrStartTyped ==
  ASSUME NEW D, DlsOK(D), NEW r \in Range0
  PROVE  Kept(D, ExtendOrStart(D, r))
  <1> DEFINE InRange(k) == r.pos >= D.dl[k].start /\ r.pos < D.dl[k].offset + Larger(Window, MinWindow)
             near == Select(D.list, {k \in DOMAIN D.dl : InRange(k)})
             E == ExtendOrStart(D, r)
  <1>1. DlOK(D.dl) /\ D.list \in Seq(Nat) /\ SeqExt!ToSet(D.list) = Writing(D.dl)
    BY DEF DlsOK
  <1>2. /\ near # <<>> => E = [D EXCEPT !.dl[Head(near)].max = Larger(@, End(r))]
        /\ near = <<>> => E = D \/ E = NewDownloader(D, r)
    BY DEF ExtendOrStart
  <1>3. near \in Seq(Nat) /\ SeqExt!ToSet(near) \subseteq SeqExt!ToSet(D.list)
    <2> DEFINE T == {k \in DOMAIN D.dl : InRange(k)}
    <2> HIDE DEF T
    <2>1. Select(D.list, T) \in Seq(Nat) /\ SeqExt!ToSet(Select(D.list, T)) = SeqExt!ToSet(D.list) \cap T
      BY <1>1, SelectFacts
    <2>2. QED
      BY <2>1 DEF T
  <1> HIDE DEF near, E
  <1>4. CASE near # <<>>
    <2> DEFINE h == Head(near)
               d == [D.dl[h] EXCEPT !.max = Larger(@, End(r))]
               dl == [D.dl EXCEPT ![h] = d]
    <2>1. h \in SeqExt!ToSet(near)
      <3>1. 1 \in 1 .. Len(near) /\ h = near[1]
        BY <1>3, <1>4
      <3>2. QED
        BY <3>1, <1>3, ToSetFacts
    <2>2. h \in Nat /\ h \in DOMAIN D.dl /\ D.dl[h].pc \notin {"closed", "last"} /\ D.dl[h] \in Dl1 /\ D.dl[h].start <= D.dl[h].offset
      BY <2>1, <1>1, <1>3 DEF Writing, DlOK
    <2>3. d \in Dl1 /\ d.start <= d.offset /\ d.pc \notin {"closed", "last"}
      <3>1. D.dl[h].max \in Nat /\ End(r) \in Nat
        BY <2>2 DEF Dl1, Range0, End
      <3>2. Larger(D.dl[h].max, End(r)) \in Nat
        BY <3>1 DEF Larger
      <3>3. QED
        BY <2>2, <3>2 DEF Dl1
    <2>4. E = [open |-> D.open, list |-> D.list, waiters |-> D.waiters, errors |-> D.errors,
               lastErr |-> D.lastErr, dl |-> dl]
      <3>1. E = [D EXCEPT !.dl[Head(near)].max = Larger(@, End(r))]
        BY <1>2, <1>4
      <3>2. D = [open |-> D.open, list |-> D.list, waiters |-> D.waiters, errors |-> D.errors,
                 lastErr |-> D.lastErr, dl |-> D.dl]
        BY DEF DlsOK
      <3>3. QED
        BY <3>1, <3>2
    <2> HIDE DEF d, h
    <2>5. DlOK(dl) /\ Writing(dl) = Writing(D.dl) \cup {h}
      <3>1. PutDl(dl, D.dl, h, d)
        BY <2>2 DEF PutDl
      <3> HIDE DEF dl
      <3>2. QED
        <4>1. GoodDl(d)
          BY <2>3 DEF GoodDl
        <4>2. DlOK(dl)
          BY <4>1, <3>1, <2>2, <1>1, DlPut
        <4>3. Writing(dl) = Writing(D.dl) \cup {h}
          <5>1. \A x : x \in Writing(dl) <=> IF x = h THEN d.pc \notin {"closed", "last"} ELSE x \in Writing(D.dl)
            BY <4>1, <3>1, <2>2, <1>1, DlPut
          <5>2. QED
            BY <5>1, <2>3
        <4>4. QED
          BY <4>2, <4>3
    <2> HIDE DEF dl
    <2>6. SeqExt!ToSet(D.list) = Writing(dl)
      BY <2>5, <2>2, <1>1 DEF Writing
    <2>7. DlsOK(E) /\ E.waiters = D.waiters /\ E.open = D.open /\ E.errors = D.errors /\ E.lastErr = D.lastErr
      BY <1>1, <2>4, <2>5, <2>6, DlsPut
    <2>8. QED
      BY <2>7 DEF Kept, E
  <1>5. CASE near = <<>>
    <2>1. Kept(D, D)
      BY DEF Kept
    <2>2. Kept(D, NewDownloader(D, r))
      BY NewDownloaderTyped
    <2>3. QED
      BY <2>1, <2>2, <1>2, <1>5 DEF E
  <1>6. QED
    BY <1>4, <1>5

LEMMA EnsureDownloaderTyped ==
  ASSUME item \in Item1, Canonical(item.rs), NEW D, DlsOK(D), NEW r \in Range0
  PROVE  Kept(D, EnsureDownloader(D, r))
  <1> DEFINE ahead == [r EXCEPT !.size = @ + ReadAhead]
             m == Missing(ahead)
             goal == Goal(m, [m EXCEPT !.size = @ + Window])
  <1>1. ahead \in Range0
    BY DownloadersAssumption DEF Range0
  <1> HIDE DEF ahead
  <1>2. m \in Range0
    BY <1>1, MissingTyped
  <1> HIDE DEF m
  <1>3. goal \in Range0
    BY <1>2, GoalTyped
  <1> HIDE DEF goal
  <1>4. Kept(D, ExtendOrStart(D, goal))
    BY <1>3, ExtendOrStartTyped
  <1>5. QED
    BY <1>4 DEF EnsureDownloader, EnsureMissing, ahead, m, goal

LEMMA EnsureEachTyped ==
  ASSUME item \in Item1, Canonical(item.rs), NEW D, DlsOK(D), NEW waiters \in Seq(Thread),
         \A p \in SeqExt!ToSet(waiters) : reads[p].r \in Range0
  PROVE  /\ Kept(D, EnsureEach(D, waiters))
         /\ waiters = <<>> => EnsureEach(D, waiters) = D
  <1> DEFINE A == {E \in DlsSet : Kept(D, E)}
             B == {p \in Thread : reads[p].r \in Range0}
  <1>1. D \in A /\ \A E : E \in A <=> Kept(D, E)
    BY DlsSetFacts DEF Kept
  <1>2. waiters \in Seq(B) /\ Len(waiters) \in Nat
    <2>1. \A i \in 1 .. Len(waiters) : waiters[i] \in B
      BY ToSetFacts
    <2>2. waiters \in [1 .. Len(waiters) -> B] /\ Len(waiters) \in Nat
      BY <2>1
    <2> HIDE DEF B
    <2>3. QED
      BY <2>2, IntervalSeq
  <1>3. \A E \in A, p \in B : EnsureDownloader(E, reads[p].r) \in A
    <2>1. ASSUME NEW E, Kept(D, E), NEW p \in B PROVE Kept(D, EnsureDownloader(E, reads[p].r))
      <3>1. Kept(E, EnsureDownloader(E, reads[p].r))
        BY <2>1, EnsureDownloaderTyped DEF Kept
      <3>2. QED
        BY <2>1, <3>1 DEF Kept
    <2> HIDE DEF A, B
    <2>2. QED
      BY <1>1, <2>1
  <1> HIDE DEF A, B
  <1>4. EnsureFolds(A, D, waiters)
    BY <1>1, <1>2, <1>3, EnsureFold
  <1>5. PICK F \in [0 .. Len(waiters) -> A] : F[0] = D /\ EnsureEach(D, waiters) = F[Len(waiters)]
    BY <1>4 DEF EnsureFolds
  <1>6. Len(waiters) \in 0 .. Len(waiters)
    BY <1>2
  <1>7. Kept(D, EnsureEach(D, waiters))
    BY <1>1, <1>5, <1>6
  <1>8. waiters = <<>> => EnsureEach(D, waiters) = D
    BY <1>5
  <1>9. QED
    BY <1>7, <1>8

\* What a downloader leaves alone; the file may grow.
SameFile(it, new) ==
  new.beingReset = it.beingReset /\ new.size = it.size /\ new.kept = it.kept /\ it.length <= new.length

\* The parts that are not present are written, and the file grows.
LEMMA PutPartTyped ==
  ASSUME NEW it \in Item1, Canonical(it.rs), NEW part \in Part1
  PROVE  /\ PutPart(it, part) \in Item1 /\ Canonical(PutPart(it, part).rs)
         /\ SameFile(it, PutPart(it, part))
         /\ Positions(PutPart(it, part).rs) = IF part.present THEN Positions(it.rs)
                                              ELSE Positions(it.rs) \cup Bytes(part.r)
  <1> DEFINE new == PutPart(it, part)
             rs == Insert(it.rs, part.r)
             len == Larger(it.length, End(part.r))
  <1>1. CASE part.present
    <2>1. new = it
      BY <1>1 DEF PutPart
    <2>2. it.length <= it.length
      BY DEF Item1
    <2>3. QED
      BY <1>1, <2>1, <2>2 DEF SameFile
  <1>2. CASE ~part.present
    <2>1. part.r \in [pos : Nat, size : Int] /\ it.rs \in Seq(Range1) /\ it.length \in Nat /\ End(part.r) \in Nat
      BY DEF Part1, Range1, Item1, End
    <2>2. rs \in Seq(Range1) /\ Canonical(rs) /\ Positions(rs) = Positions(it.rs) \cup Bytes(part.r)
      BY <2>1, InsertExact
    <2>3. len \in Nat /\ it.length <= len
      BY <2>1 DEF Larger
    <2>4. new = [it EXCEPT !.rs = rs, !.length = len]
      BY <1>2 DEF PutPart
    <2> HIDE DEF rs, len, new
    <2>5. new \in Item1
      BY <2>2, <2>3, <2>4 DEF Item1
    <2>6. /\ new.rs = rs /\ new.beingReset = it.beingReset /\ new.size = it.size /\ new.kept = it.kept
          /\ new.length = len
      BY <2>4 DEF Item1
    <2>7. QED
      BY <1>2, <2>2, <2>3, <2>5, <2>6 DEF new, SameFile
  <1>3. QED
    BY <1>1, <1>2

LEMMA PutPartsTyped ==
  ASSUME NEW it \in Item1, Canonical(it.rs), NEW parts \in Seq(Part1)
  PROVE  /\ PutParts(it, parts) \in Item1 /\ Canonical(PutParts(it, parts).rs)
         /\ SameFile(it, PutParts(it, parts))
         /\ Positions(it.rs) \subseteq Positions(PutParts(it, parts).rs)
         /\ \A i \in 1 .. Len(parts) :
              ~parts[i].present => Bytes(parts[i].r) \subseteq Positions(PutParts(it, parts).rs)
         /\ \A y \in Positions(PutParts(it, parts).rs) :
              y \in Positions(it.rs) \/ \E i \in 1 .. Len(parts) : ~parts[i].present /\ y \in Bytes(parts[i].r)
  <1> DEFINE n == Len(parts)
             A == {x \in Item1 : Canonical(x.rs) /\ SameFile(it, x)}
             There(j, x) == /\ Positions(it.rs) \subseteq Positions(x.rs)
                            /\ \A i \in 1 .. j : ~parts[i].present => Bytes(parts[i].r) \subseteq Positions(x.rs)
                            /\ \A y \in Positions(x.rs) :
                                 y \in Positions(it.rs) \/ \E i \in 1 .. j : ~parts[i].present /\ y \in Bytes(parts[i].r)
  <1>1. n \in Nat /\ \A i \in 1 .. n : parts[i] \in Part1
    OBVIOUS
  <1>2. it \in A
    BY DEF SameFile, Item1
  <1>3. \A x \in A, part \in Part1 : PutPart(x, part) \in A
    <2>1. TAKE x \in A, part \in Part1
    <2>2. x \in Item1 /\ Canonical(x.rs) /\ SameFile(it, x)
      OBVIOUS
    <2>3. PutPart(x, part) \in Item1 /\ Canonical(PutPart(x, part).rs) /\ SameFile(x, PutPart(x, part))
      BY <2>2, PutPartTyped
    <2>4. it.length \in Nat /\ x.length \in Nat /\ PutPart(x, part).length \in Nat
      BY <2>2, <2>3 DEF Item1
    <2>5. SameFile(it, PutPart(x, part))
      BY <2>2, <2>3, <2>4 DEF SameFile
    <2>6. QED
      BY <2>3, <2>5
  <1>4. PICK F \in [0 .. n -> A] :
           /\ F[0] = it
           /\ \A i \in 1 .. n : F[i] = PutPart(F[i - 1], parts[i])
           /\ PutParts(it, parts) = F[n]
    <2> HIDE DEF A
    <2>1. PutFolds(A, it, parts)
      BY <1>2, <1>3, PutFold
    <2>2. QED
      BY <2>1 DEF PutFolds
  <1> DEFINE G == {j \in 0 .. n : There(j, F[j])}
  <1>5. 0 \in G
    BY <1>1, <1>4
  <1>6. ASSUME NEW j \in 1 .. n, j - 1 \in G PROVE j \in G
    <2>1. j - 1 \in 0 .. n /\ j \in 0 .. n
      BY <1>1
    <2>2. There(j - 1, F[j - 1])
      <3> HIDE DEF There
      <3>1. QED
        BY <1>6
    <2>3. F[j - 1] \in Item1 /\ Canonical(F[j - 1].rs) /\ F[j] = PutPart(F[j - 1], parts[j])
      BY <1>4, <2>1
    <2>4. Positions(F[j].rs) = IF parts[j].present THEN Positions(F[j - 1].rs)
                               ELSE Positions(F[j - 1].rs) \cup Bytes(parts[j].r)
      BY <2>3, <1>1, PutPartTyped
    <2>5. (\A i \in 1 .. j : i \in 1 .. j - 1 \/ i = j) /\ j \in 1 .. j /\ \A i \in 1 .. j - 1 : i \in 1 .. j
      OBVIOUS
    <2>6. There(j, F[j])
      BY <2>2, <2>4, <2>5
    <2> HIDE DEF There
    <2>7. QED
      BY <2>6, <2>1
  <1>7. There(n, F[n]) /\ F[n] \in A
    <2> HIDE DEF There, A
    <2>1. n \in 0 .. n
      BY <1>1
    <2>2. n \in G
      <3> HIDE DEF G, n
      <3>1. \A i \in 0 .. n : i \in G
        BY <1>1, <1>5, <1>6, Induct
      <3>2. QED
        BY <3>1, <2>1
    <2>3. QED
      BY <2>1, <2>2
  <1>8. QED
    BY <1>4, <1>7

LEMMA WritePartsExact ==
  ASSUME item \in Item1, Canonical(item.rs), held \subseteq Nat,
         held \ Bytes(write) \subseteq Positions(item.rs),
         NEW off \in Nat, NEW n \in Nat, WriteParts(off, n)
  PROVE  /\ item' \in Item1 /\ Canonical(item'.rs) /\ SameFile(item, item')
         /\ held' \subseteq Nat /\ held' \ Bytes(write) \subseteq Positions(item'.rs)
         /\ held \subseteq held' /\ \A y \in Positions(item'.rs) : y \in Positions(item.rs) \/ y \in held'
  <1> DEFINE parts == FindAll(item.rs, Span(off, n))
  <1>1. item.rs \in Seq(Range1) /\ Span(off, n) \in [pos : Nat, size : Nat]
    BY DEF Item1, Span
  <1>2. parts \in Seq(Part1)
    BY <1>1, FindAllExact
  <1>3. /\ item' = PutParts(item, parts)
        /\ held' = held \cup UNION {Bytes(parts[i].r) : i \in {j \in DOMAIN parts : ~parts[j].present}}
    BY DEF WriteParts
  <1> HIDE DEF parts
  <1>4. DOMAIN parts = 1 .. Len(parts)
    BY <1>2
  <1>5. /\ item' \in Item1 /\ Canonical(item'.rs) /\ SameFile(item, item')
        /\ Positions(item.rs) \subseteq Positions(item'.rs)
        /\ \A i \in 1 .. Len(parts) : ~parts[i].present => Bytes(parts[i].r) \subseteq Positions(item'.rs)
        /\ \A y \in Positions(item'.rs) :
             y \in Positions(item.rs) \/ \E i \in 1 .. Len(parts) : ~parts[i].present /\ y \in Bytes(parts[i].r)
    <2>1. /\ PutParts(item, parts) \in Item1 /\ Canonical(PutParts(item, parts).rs)
          /\ SameFile(item, PutParts(item, parts))
          /\ Positions(item.rs) \subseteq Positions(PutParts(item, parts).rs)
          /\ \A i \in 1 .. Len(parts) :
               ~parts[i].present => Bytes(parts[i].r) \subseteq Positions(PutParts(item, parts).rs)
          /\ \A y \in Positions(PutParts(item, parts).rs) :
               y \in Positions(item.rs) \/ \E i \in 1 .. Len(parts) : ~parts[i].present /\ y \in Bytes(parts[i].r)
      BY <1>2, PutPartsTyped
    <2>2. QED
      BY <2>1, <1>3
  <1>6. \A x \in held' : x \in held \/ \E i \in 1 .. Len(parts) : ~parts[i].present /\ x \in Bytes(parts[i].r)
    BY <1>3, <1>4
  <1>7. \A i \in 1 .. Len(parts) : Bytes(parts[i].r) \subseteq Nat
    <2>1. \A i \in 1 .. Len(parts) : parts[i] \in Part1
      BY <1>2
    <2>2. \A i \in 1 .. Len(parts) : parts[i].r.pos \in Nat /\ parts[i].r.size \in Nat
      BY <2>1 DEF Part1, Range1
    <2>3. QED
      BY <2>2 DEF Bytes, End
  <1>8. held \subseteq held' /\ \A i \in 1 .. Len(parts) : ~parts[i].present => Bytes(parts[i].r) \subseteq held'
    BY <1>3, <1>4
  <1>9. QED
    BY <1>5, <1>6, <1>7, <1>8

-----------------------------------------------------------------------------
(* Waiters *)

LEMMA ToldFacts ==
  ASSUME reads \in [Thread -> Read1], NEW p \in Thread, NEW err \in Err1
  PROVE  Told(p, err) \in Read1 /\ Told(p, err).pc \in {"read", "failed"}
  <1> DEFINE pc == IF err = "none" THEN "read" ELSE "failed"
             t == [Idle EXCEPT !.pc = pc, !.err = err, !.ask = reads[p].ask, !.tries = reads[p].tries]
  <1>1. reads[p] \in Read1
    OBVIOUS
  <1>2. reads[p].ask \in Range0 /\ reads[p].tries \in Nat
    BY <1>1 DEF Read1
  <1>3. Idle \in Read1
    <2>1. Empty \in Range0 /\ Empty \in [pos : Nat, size : Int]
      BY DEF Empty, Span, Range0
    <2>2. QED
      BY <2>1 DEF Idle, Read1, Err1
  <1>4. pc \in {"read", "failed"}
    OBVIOUS
  <1>5. Told(p, err) = t
    BY DEF Told
  <1> HIDE DEF pc
  <1>6. t \in Read1 /\ t.pc = pc
    BY <1>2, <1>3, <1>4 DEF Read1
  <1>7. QED
    BY <1>4, <1>5, <1>6

LEMMA IdleFacts ==
  Idle \in Read1 /\ Idle.pc = "idle"
  <1>1. Empty \in Range0 /\ Empty \in [pos : Nat, size : Int]
    BY DEF Empty, Span, Range0
  <1>2. QED
    BY <1>1 DEF Idle, Read1, Err1

\* The range of a thread that waits is not empty.
LEMMA WaitingRange ==
  ASSUME NEW rd, NEW waiters, ReadsOK(rd, waiters), NEW p \in Thread, rd[p].pc \in {"ensure", "waiting"}
  PROVE  rd[p].r \in Range0
  <1>1. rd[p] \in Read1 /\ ~IsEmpty(rd[p].r)
    BY DEF ReadsOK
  <1>2. rd[p].r \in [pos : Nat, size : Int]
    BY <1>1 DEF Read1
  <1>3. QED
    BY <1>1, <1>2 DEF IsEmpty, Range0

\* Only the waiters change.
LEMMA DlsWaiters ==
  ASSUME NEW D, DlsOK(D), NEW w \in Seq(Thread)
  PROVE  /\ DlsOK([D EXCEPT !.waiters = w])
         /\ [D EXCEPT !.waiters = w].waiters = w /\ [D EXCEPT !.waiters = w].open = D.open
         /\ [D EXCEPT !.waiters = w].dl = D.dl
         /\ [D EXCEPT !.waiters = w].errors = D.errors /\ [D EXCEPT !.waiters = w].lastErr = D.lastErr
  <1>1. [D EXCEPT !.waiters = w] = [open |-> D.open, list |-> D.list, waiters |-> w, errors |-> D.errors,
                                    lastErr |-> D.lastErr, dl |-> D.dl]
    BY SMTT(30) DEF DlsOK
  <1> DEFINE E == [open |-> D.open, list |-> D.list, waiters |-> w, errors |-> D.errors,
                   lastErr |-> D.lastErr, dl |-> D.dl]
  <1>2. DlsOK(E) /\ E.waiters = w /\ E.open = D.open /\ E.dl = D.dl
        /\ E.errors = D.errors /\ E.lastErr = D.lastErr
    BY DEF DlsOK
  <1>3. QED
    BY <1>1, <1>2

LEMMA KickTyped ==
  ASSUME item \in Item1, Canonical(item.rs), NEW D, DlsOK(D), ReadsOK(reads, D.waiters), KickWaiters(D)
  PROVE  /\ DlsOK(dls') /\ ReadsOK(reads', dls'.waiters) /\ dls'.open = D.open
         /\ \A p \in Thread : reads[p].pc # "waiting" => reads'[p] = reads[p]
         /\ D.waiters = <<>> => dls' = D /\ reads' = reads
         /\ dls'.errors = D.errors /\ dls'.lastErr = D.lastErr
         /\ \A p \in Thread :
              \/ reads'[p] = reads[p]
              \/ Arrived(p) /\ reads'[p] = Told(p, "none")
              \/ GivesUp(D) /\ reads'[p] = Told(p, D.lastErr)
  <1> DEFINE w == Select(D.waiters, {p \in Thread : ~Arrived(p)})
             E0 == [D EXCEPT !.waiters = w]
             E == EnsureEach(E0, w)
             fail == E.waiters # <<>> /\ GivesUp(E)
  <1>1. /\ D.waiters \in Seq(Thread) /\ reads \in [Thread -> Read1]
        /\ SeqExt!ToSet(D.waiters) = {p \in Thread : reads[p].pc = "waiting"}
        /\ Distinct(D.waiters)
        /\ \A p \in Thread : reads[p].pc \in {"ensure", "waiting"} => ~IsEmpty(reads[p].r)
    BY DEF DlsOK, ReadsOK
  <1>2. /\ w \in Seq(Thread) /\ SeqExt!ToSet(w) = {p \in Thread : reads[p].pc = "waiting" /\ ~Arrived(p)}
        /\ Distinct(w)
    <2> DEFINE T == {p \in Thread : ~Arrived(p)}
    <2>1. SeqExt!ToSet(D.waiters) \cap T = {p \in Thread : reads[p].pc = "waiting" /\ ~Arrived(p)}
      BY <1>1
    <2> HIDE DEF T
    <2>2. /\ Select(D.waiters, T) \in Seq(Thread) /\ SeqExt!ToSet(Select(D.waiters, T)) = SeqExt!ToSet(D.waiters) \cap T
          /\ Distinct(Select(D.waiters, T))
      BY <1>1, SelectFacts
    <2>3. QED
      BY <2>1, <2>2 DEF T
  <1>3. D.waiters = <<>> => w = <<>>
    <2>1. ASSUME D.waiters = <<>> PROVE SeqExt!ToSet(w) = {}
      <3>1. SeqExt!ToSet(<<>>) = {}
        BY DEF SeqExt!ToSet
      <3> HIDE DEF w
      <3>2. QED
        BY <3>1, <2>1, <1>1, <1>2
    <2> HIDE DEF w
    <2>2. QED
      BY <2>1, <1>2, ToSetFacts
  <1>4. /\ dls' = IF fail THEN [E EXCEPT !.waiters = <<>>] ELSE E
        /\ reads' = [p \in Thread |->
                      IF p \notin SeqExt!ToSet(D.waiters) THEN reads[p]
                      ELSE IF Arrived(p) THEN Told(p, "none")
                      ELSE IF fail THEN Told(p, E.lastErr)
                      ELSE reads[p]]
    <2>1. Dispatch(D) = E0
      BY DEF Dispatch
    <2>2. E0.waiters = w
      BY <1>2, DlsWaiters
    <2>3. EnsureAll(Dispatch(D)) = E
      BY <2>1, <2>2 DEF EnsureAll
    <2> HIDE DEF E
    <2>4. Tell(D.waiters, E)
      BY <2>3 DEF KickWaiters
    <2>5. QED
      BY <2>4 DEF Tell
  <1> HIDE DEF w
  <1>5. DlsOK(E0) /\ E0.waiters = w /\ E0.open = D.open /\ E0.errors = D.errors /\ E0.lastErr = D.lastErr
    BY <1>2, DlsWaiters
  <1>6. w = <<>> /\ D.waiters = <<>> => E0 = D
    <2>1. D = [open |-> D.open, list |-> D.list, waiters |-> D.waiters, errors |-> D.errors,
               lastErr |-> D.lastErr, dl |-> D.dl]
      BY DEF DlsOK
    <2>2. QED
      BY <2>1
  <1> HIDE DEF E0
  <1>7. Kept(E0, E) /\ (w = <<>> => E = E0)
    <2>1. \A p \in SeqExt!ToSet(w) : reads[p].r \in Range0
      BY <1>2, WaitingRange
    <2>2. QED
      BY <2>1, <1>2, <1>5, EnsureEachTyped
  <1>8. DlsOK(E) /\ E.waiters = w /\ E.open = D.open /\ E.lastErr \in Err1 /\ E.errors = D.errors /\ E.lastErr = D.lastErr
    BY <1>5, <1>7 DEF Kept, DlsOK
  <1> HIDE DEF E
  <1>9. /\ DlsOK(dls') /\ dls'.open = D.open /\ dls'.waiters = IF fail THEN <<>> ELSE w
        /\ dls'.errors = D.errors /\ dls'.lastErr = D.lastErr
    <2>1. CASE fail
      <3>1. dls' = [E EXCEPT !.waiters = <<>>] /\ <<>> \in Seq(Thread)
        BY <2>1, <1>4
      <3>2. DlsOK([E EXCEPT !.waiters = <<>>]) /\ [E EXCEPT !.waiters = <<>>].waiters = <<>>
            /\ [E EXCEPT !.waiters = <<>>].open = E.open
            /\ [E EXCEPT !.waiters = <<>>].errors = E.errors /\ [E EXCEPT !.waiters = <<>>].lastErr = E.lastErr
        BY <3>1, <1>8, DlsWaiters
      <3>3. QED
        BY <3>1, <3>2, <1>8, <2>1
    <2>2. CASE ~fail
      BY <2>2, <1>4, <1>8
    <2>3. QED
      BY <2>1, <2>2
  <1>15. fail => GivesUp(D)
    BY <1>8 DEF GivesUp
  <1> HIDE DEF fail
  <1>10. ASSUME NEW p \in Thread
         PROVE  /\ reads'[p] \in Read1
                /\ reads[p].pc # "waiting" => reads'[p] = reads[p]
                /\ reads'[p].pc \in {"ensure", "waiting"} => reads'[p] = reads[p]
                /\ reads'[p].pc = "waiting" <=> reads[p].pc = "waiting" /\ ~Arrived(p) /\ ~fail
                /\ \/ reads'[p] = reads[p]
                   \/ Arrived(p) /\ reads'[p] = Told(p, "none")
                   \/ GivesUp(D) /\ reads'[p] = Told(p, D.lastErr)
    <2>1. reads[p] \in Read1
      BY <1>1
    <2>2. /\ Told(p, "none") \in Read1 /\ Told(p, "none").pc \in {"read", "failed"}
          /\ Told(p, E.lastErr) \in Read1 /\ Told(p, E.lastErr).pc \in {"read", "failed"}
      <3>1. "none" \in Err1
        BY DEF Err1
      <3>2. QED
        BY <3>1, <1>1, <1>8, ToldFacts
    <2>3. reads'[p] = IF reads[p].pc # "waiting" THEN reads[p]
                      ELSE IF Arrived(p) THEN Told(p, "none")
                      ELSE IF fail THEN Told(p, E.lastErr)
                      ELSE reads[p]
      BY <1>1, <1>4
    <2>4. CASE reads[p].pc # "waiting"
      BY <2>1, <2>3, <2>4
    <2>5. CASE reads[p].pc = "waiting" /\ Arrived(p)
      BY <2>2, <2>3, <2>5
    <2>6. CASE reads[p].pc = "waiting" /\ ~Arrived(p) /\ fail
      BY <2>2, <2>3, <2>6, <1>8, <1>15
    <2>7. CASE reads[p].pc = "waiting" /\ ~Arrived(p) /\ ~fail
      BY <2>1, <2>3, <2>7
    <2>8. QED
      BY <2>4, <2>5, <2>6, <2>7
  <1>11. reads' \in [Thread -> Read1]
    BY <1>4, <1>10
  <1>12. ReadsOK(reads', dls'.waiters)
    <2>1. \A p \in Thread : reads'[p].pc \in {"ensure", "waiting"} => ~IsEmpty(reads'[p].r)
      BY <1>1, <1>10
    <2>2. SeqExt!ToSet(dls'.waiters) = {p \in Thread : reads'[p].pc = "waiting"} /\ Distinct(dls'.waiters)
      <3>1. CASE fail
        <4>1. dls'.waiters = <<>>
          BY <3>1, <1>9
        <4>2. SeqExt!ToSet(<<>>) = {} /\ Distinct(<<>>)
          BY DEF SeqExt!ToSet, Distinct
        <4>3. QED
          BY <4>1, <4>2, <1>10, <3>1
      <3>2. CASE ~fail
        BY <3>2, <1>2, <1>9, <1>10
      <3>3. QED
        BY <3>1, <3>2
    <2>3. QED
      BY <1>11, <2>1, <2>2 DEF ReadsOK
  <1>13. ASSUME D.waiters = <<>> PROVE dls' = D /\ reads' = reads
    <2>1. E = D
      BY <1>13, <1>3, <1>6, <1>7
    <2>2. ~fail
      BY <2>1, <1>13 DEF fail
    <2>3. SeqExt!ToSet(D.waiters) = {}
      BY <1>13 DEF SeqExt!ToSet
    <2>4. \A p \in Thread : reads'[p] = reads[p]
      BY <1>1, <2>3, <1>10
    <2>5. QED
      BY <2>1, <2>2, <2>4, <1>1, <1>4
  <1>14. QED
    BY <1>9, <1>10, <1>12, <1>13

-----------------------------------------------------------------------------
(* The inductive invariant *)

\* The cache file, and the ranges that say what is in it.
ItemOK(it, there, unmarked) ==
  /\ it \in Item1 /\ there \subseteq Nat /\ unmarked \in Range0
  /\ Canonical(it.rs) /\ there \ Bytes(unmarked) \subseteq Positions(it.rs)

\* What the threads may be doing while the file is closed or reset.
Quiet(cl, rd, beingReset) ==
  /\ cl.pc = "open" => rd[Closer].pc = "idle"
  /\ cl.pc = "fetch" => \A p \in Reader : rd[p].pc = "idle"
  /\ cl.pc \in {"stop", "join"} /\ cl.reset =>
       /\ beingReset /\ rd[Closer].pc = "idle"
       /\ \A p \in Reader : rd[p].pc \in {"idle", "retry"}
  /\ (cl.pc \in {"stop", "join"} /\ ~cl.reset) \/ cl.pc = "closed" =>
       \A p \in Thread : rd[p].pc = "idle"

\* Every downloader that may still write is yet to be waited for.
Stopping(cl, list) ==
  /\ cl.pc \in {"stop", "join"} => SeqExt!ToSet(list) \subseteq SeqExt!ToSet(cl.todo)
  /\ cl.pc = "join" => cl.todo # <<>>
  /\ cl.pc = "closed" => list = <<>>

\* Waiters are given up on with an error.
Blamed(D) == D.errors > 0 => D.lastErr # "none"

DownInv ==
  /\ ItemOK(item, held, write) /\ DlsOK(dls) /\ ReadsOK(reads, dls.waiters) /\ close \in Close1
  /\ Quiet(close, reads, item.beingReset) /\ Stopping(close, dls.list)

-----------------------------------------------------------------------------
(* The steps keep the invariant *)

SetDl(E, D, k, d) == E = [D EXCEPT !.dl[k] = d]

\* A goroutine that may write changes, and may write still.
LEMMA DlChanges ==
  ASSUME NEW D, DlsOK(D), NEW k \in DOMAIN D.dl, D.dl[k].pc \notin {"closed", "last"},
         NEW d, GoodDl(d), d.pc \notin {"closed", "last"}, NEW E, SetDl(E, D, k, d)
  PROVE  DlsOK(E) /\ E.waiters = D.waiters /\ E.open = D.open /\ E.list = D.list
         /\ E.errors = D.errors /\ E.lastErr = D.lastErr
  <1> DEFINE dl == [D.dl EXCEPT ![k] = d]
  <1>1. DlOK(D.dl) /\ D.list \in Seq(Nat) /\ SeqExt!ToSet(D.list) = Writing(D.dl) /\ k \in Nat
    BY DEF DlsOK, DlOK
  <1>2. PutDl(dl, D.dl, k, d)
    BY DEF PutDl
  <1>3. E = [open |-> D.open, list |-> D.list, waiters |-> D.waiters, errors |-> D.errors,
             lastErr |-> D.lastErr, dl |-> dl]
    <2>1. D = [open |-> D.open, list |-> D.list, waiters |-> D.waiters, errors |-> D.errors,
               lastErr |-> D.lastErr, dl |-> D.dl]
      BY DEF DlsOK
    <2>2. QED
      BY <2>1 DEF SetDl
  <1> HIDE DEF dl
  <1>4. DlOK(dl)
    BY <1>1, <1>2, DlPut
  <1>5. \A x : x \in Writing(dl) <=> IF x = k THEN d.pc \notin {"closed", "last"} ELSE x \in Writing(D.dl)
    BY <1>1, <1>2, DlPut
  <1>6. k \in Writing(D.dl)
    BY DEF Writing
  <1>7. Writing(dl) = Writing(D.dl)
    BY <1>5, <1>6
  <1>8. SeqExt!ToSet(D.list) = Writing(dl)
    BY <1>1, <1>7
  <1>9. QED
    BY <1>1, <1>3, <1>4, <1>8, DlsPut

LEMMA QuietKept ==
  ASSUME Quiet(close, reads, item.beingReset), UNCHANGED <<reads, close>>,
         item'.beingReset = item.beingReset
  PROVE  Quiet(close', reads', item'.beingReset)
  BY DEF Quiet

\* The list gets no longer.
LEMMA StoppingKept ==
  ASSUME Stopping(close, dls.list), UNCHANGED close, dls.list \in Seq(Nat), dls'.list \in Seq(Nat),
         SeqExt!ToSet(dls'.list) \subseteq SeqExt!ToSet(dls.list)
  PROVE  Stopping(close', dls'.list)
  <1>1. dls.list = <<>> => dls'.list = <<>>
    <2>1. ASSUME dls.list = <<>> PROVE SeqExt!ToSet(dls'.list) = {}
      BY <2>1 DEF SeqExt!ToSet
    <2>2. QED
      BY <2>1, ToSetFacts
  <1>2. QED
    BY <1>1 DEF Stopping

LEMMA KickKeeps ==
  ASSUME DownInv, NEW D, DlsOK(D), D.waiters = dls.waiters,
         SeqExt!ToSet(D.list) \subseteq SeqExt!ToSet(dls.list),
         KickWaiters(D), UNCHANGED <<item, held, write, close>>
  PROVE  DownInv'
  <1>1. /\ ItemOK(item, held, write) /\ DlsOK(dls) /\ ReadsOK(reads, dls.waiters) /\ close \in Close1
        /\ Quiet(close, reads, item.beingReset) /\ Stopping(close, dls.list)
    BY DEF DownInv
  <1>2. item \in Item1 /\ Canonical(item.rs) /\ ReadsOK(reads, D.waiters)
    BY <1>1 DEF ItemOK
  <1>3. /\ DlsOK(dls') /\ ReadsOK(reads', dls'.waiters)
        /\ \A p \in Thread : reads[p].pc # "waiting" => reads'[p] = reads[p]
        /\ D.waiters = <<>> => dls' = D /\ reads' = reads
    BY <1>2, KickTyped
  <1>4. ItemOK(item', held', write') /\ close' \in Close1
    BY <1>1
  <1>5. Quiet(close', reads', item'.beingReset)
    <2>1. Closer \in Thread /\ \A p \in Reader : p \in Thread
      BY DEF Thread
    <2>2. \A p \in Thread : reads[p].pc \in {"idle", "retry"} => reads'[p] = reads[p]
      BY <1>3
    <2>3. close' = close /\ item' = item
      OBVIOUS
    <2>4. QED
      BY <1>1, <2>1, <2>2, <2>3 DEF Quiet
  <1>6. Stopping(close', dls'.list)
    <2>1. CASE close.pc \in {"stop", "join", "closed"}
      <3>1. \A p \in Thread : reads[p].pc # "waiting"
        BY <1>1, <2>1 DEF Quiet, Thread
      <3>2. SeqExt!ToSet(D.waiters) = {} /\ D.waiters \in Seq(Thread)
        BY <3>1, <1>2 DEF ReadsOK, DlsOK
      <3>3. dls' = D
        BY <3>2, <1>3, ToSetFacts
      <3>4. dls.list \in Seq(Nat) /\ dls'.list \in Seq(Nat)
        BY <1>1, <1>3 DEF DlsOK
      <3>5. QED
        BY <3>3, <3>4, <1>1, StoppingKept
    <2>2. CASE close.pc \notin {"stop", "join", "closed"}
      BY <2>2 DEF Stopping
    <2>3. QED
      BY <2>1, <2>2
  <1>7. QED
    BY <1>3, <1>4, <1>5, <1>6 DEF DownInv

\* A downloader changes and nothing else does, except the file.
LEMMA DownloaderKeeps ==
  ASSUME DownInv, NEW k \in DOMAIN dls.dl, dls.dl[k].pc \notin {"closed", "last"}, NEW d, GoodDl(d), d.pc \notin {"closed", "last"},
         SetDl(dls', dls, k, d), UNCHANGED <<reads, write, close>>,
         ItemOK(item', held', write'), item'.beingReset = item.beingReset
  PROVE  DownInv'
  <1>1. /\ DlsOK(dls) /\ ReadsOK(reads, dls.waiters) /\ close \in Close1
        /\ Quiet(close, reads, item.beingReset) /\ Stopping(close, dls.list)
    BY DEF DownInv
  <1>3. DlsOK(dls') /\ dls'.waiters = dls.waiters /\ dls'.list = dls.list
    BY <1>1, DlChanges
  <1>4. Quiet(close', reads', item'.beingReset)
    BY <1>1, QuietKept
  <1>5. Stopping(close', dls'.list)
    BY <1>1, <1>3
  <1>6. QED
    BY <1>1, <1>3, <1>4, <1>5 DEF DownInv

LEMMA DlFields ==
  ASSUME DownInv, NEW k \in DOMAIN dls.dl
  PROVE  GoodDl(dls.dl[k])
  BY DEF DownInv, DlsOK, DlOK, GoodDl

LEMMA WroteTyped ==
  ASSUME NEW e, GoodDl(e), NEW n \in Nat
  PROVE  GoodDl(Wrote(e, n)) /\ Wrote(e, n).pc = "kick"
  <1> DEFINE st == e.stop \/ e.offset >= e.max \/ Skipped(e, n) > MaxSkip
             d == [e EXCEPT !.pc = "kick", !.offset = @ + n, !.skipped = Skipped(e, n), !.stop = st]
  <1>1. e \in Dl1 /\ e.start <= e.offset /\ e.offset + n \in Nat /\ e.start \in Nat /\ e.offset \in Nat
    BY DEF GoodDl, Dl1
  <1>2. Skipped(e, n) \in Nat
    BY <1>1 DEF Skipped, Dl1
  <1>3. st \in BOOLEAN
    BY Zenon
  <1>4. Wrote(e, n) = d
    BY Zenon DEF Wrote
  <1> HIDE DEF st
  <1>5. d \in Dl1
    BY <1>1, <1>2, <1>3 DEF Dl1
  <1>6. d.pc = "kick" /\ d.offset = e.offset + n /\ d.start = e.start
    BY <1>1 DEF Dl1
  <1> HIDE DEF d
  <1>7. d.start <= d.offset
    BY <1>1, <1>6
  <1>8. QED
    BY <1>4, <1>5, <1>6, <1>7 DEF GoodDl

LEMMA WroteBeforeTyped ==
  ASSUME NEW e, GoodDl(e), NEW n \in Nat, NEW err \in {"none", "io", "nospace"}
  PROVE  GoodDl(WroteBefore(e, n, err)) /\ WroteBefore(e, n, err).pc \in {"kick", "end"}
  <1> DEFINE st == e.stop \/ e.offset >= e.max
             pc == IF n > 0 THEN "kick" ELSE "end"
             d == [e EXCEPT !.pc = pc, !.offset = @ + n, !.err = err, !.stop = st]
  <1>1. e \in Dl1 /\ e.start <= e.offset /\ e.offset + n \in Nat /\ e.start \in Nat /\ e.offset \in Nat
    BY DEF GoodDl, Dl1
  <1>2. pc \in {"kick", "end"} /\ err \in Err1
    BY DEF Err1
  <1>3. st \in BOOLEAN
    BY Zenon
  <1>4. WroteBefore(e, n, err) = d
    BY Zenon DEF WroteBefore
  <1> HIDE DEF st, pc
  <1>5. d \in Dl1
    BY <1>1, <1>2, <1>3 DEF Dl1
  <1>6. d.pc = pc /\ d.offset = e.offset + n /\ d.start = e.start
    BY <1>1 DEF Dl1
  <1> HIDE DEF d
  <1>7. d.start <= d.offset
    BY <1>1, <1>6
  <1>8. QED
    BY <1>2, <1>4, <1>5, <1>6, <1>7 DEF GoodDl

\* A write of a downloader, as far as it comes.
LEMMA PartsKeep ==
  ASSUME DownInv, NEW k \in DOMAIN dls.dl, NEW n \in Nat, WriteParts(dls.dl[k].offset, n), UNCHANGED write
  PROVE  ItemOK(item', held', write') /\ item'.beingReset = item.beingReset
  <1>1. ItemOK(item, held, write)
    BY DEF DownInv
  <1>2. dls.dl[k].offset \in Nat
    BY DlFields DEF GoodDl, Dl1
  <1>3. /\ item' \in Item1 /\ Canonical(item'.rs) /\ item'.beingReset = item.beingReset
        /\ held' \subseteq Nat /\ held' \ Bytes(write) \subseteq Positions(item'.rs)
    BY <1>1, <1>2, WritePartsExact DEF ItemOK, SameFile
  <1>4. QED
    BY <1>1, <1>3 DEF ItemOK

LEMMA WriteKeeps ==
  ASSUME DownInv, NEW k \in DOMAIN dls.dl, Write(k)
  PROVE  DownInv'
  <1>1. PICK n \in 1 .. Chunk :
          /\ dls.dl[k].pc = "run" /\ WriteParts(dls.dl[k].offset, n)
          /\ dls' = [dls EXCEPT !.dl[k] = Wrote(dls.dl[k], n)]
          /\ UNCHANGED <<reads, write, close>>
    BY DEF Write
  <1>2. n \in Nat
    BY DownloadersAssumption
  <1> DEFINE d == Wrote(dls.dl[k], n)
  <1>3. GoodDl(d) /\ d.pc \notin {"closed", "last"}
    BY <1>2, DlFields, WroteTyped
  <1>4. SetDl(dls', dls, k, d)
    BY <1>1 DEF SetDl
  <1>5. ItemOK(item', held', write') /\ item'.beingReset = item.beingReset
    BY <1>1, <1>2, PartsKeep
  <1> HIDE DEF d
  <1>6. QED
    BY <1>1, <1>3, <1>4, <1>5, DownloaderKeeps

LEMMA WriteFailsKeeps ==
  ASSUME DownInv, NEW k \in DOMAIN dls.dl, WriteFails(k)
  PROVE  DownInv'
  <1>1. PICK n \in 0 .. Chunk - 1, err \in {"none", "io", "nospace"} :
          /\ dls.dl[k].pc = "run" /\ WriteParts(dls.dl[k].offset, n)
          /\ dls' = [dls EXCEPT !.dl[k] = WroteBefore(dls.dl[k], n, err)]
          /\ UNCHANGED <<reads, write, close>>
    BY DEF WriteFails
  <1>2. n \in Nat
    BY DownloadersAssumption
  <1> DEFINE d == WroteBefore(dls.dl[k], n, err)
  <1>3. GoodDl(d) /\ d.pc \notin {"closed", "last"}
    BY <1>2, DlFields, WroteBeforeTyped
  <1>4. SetDl(dls', dls, k, d)
    BY <1>1 DEF SetDl
  <1>5. ItemOK(item', held', write') /\ item'.beingReset = item.beingReset
    BY <1>1, <1>2, PartsKeep
  <1> HIDE DEF d
  <1>6. QED
    BY <1>1, <1>3, <1>4, <1>5, DownloaderKeeps

LEMMA StreamEndsKeeps ==
  ASSUME DownInv, NEW k \in DOMAIN dls.dl, NEW err \in Err1, StreamEnds(k, err)
  PROVE  DownInv'
  <1> DEFINE e == dls.dl[k]
             d == [e EXCEPT !.pc = "end", !.err = err]
  <1>1. e.pc = "run" /\ UNCHANGED <<item, held, reads, write, close>>
    BY DEF StreamEnds
  <1>2. e \in Dl1 /\ e.start <= e.offset
    BY DlFields DEF GoodDl
  <1>3. SetDl(dls', dls, k, d)
    <2>1. dls' = [dls EXCEPT !.dl[k].pc = "end", !.dl[k].err = err]
      BY DEF StreamEnds
    <2>2. dls = [open |-> dls.open, list |-> dls.list, waiters |-> dls.waiters, errors |-> dls.errors,
                 lastErr |-> dls.lastErr, dl |-> dls.dl] /\ dls.dl \in [DOMAIN dls.dl -> Dl1]
      BY DEF DownInv, DlsOK, DlOK
    <2>3. QED
      BY <2>1, <2>2 DEF SetDl
  <1> HIDE DEF e
  <1>4. d \in Dl1 /\ d.pc = "end" /\ d.start = e.start /\ d.offset = e.offset
    BY <1>2 DEF Dl1
  <1> HIDE DEF d
  <1>5. GoodDl(d) /\ d.pc \notin {"closed", "last"}
    BY <1>2, <1>4 DEF GoodDl
  <1>6. ItemOK(item', held', write') /\ item'.beingReset = item.beingReset
    BY <1>1 DEF DownInv
  <1>7. dls.dl[k].pc \notin {"closed", "last"}
    BY <1>1 DEF e
  <1>8. QED
    BY <1>1, <1>3, <1>5, <1>6, <1>7, DownloaderKeeps

\* The downloaders whose waiters are kicked differ from dls in one goroutine.
Kicked(D) ==
  /\ DlsOK(D) /\ D.waiters = dls.waiters /\ D.list = dls.list
  /\ D.errors = dls.errors /\ D.lastErr = dls.lastErr

LEMMA KickFrom ==
  ASSUME DownInv, NEW k \in DOMAIN dls.dl, Kick(k)
  PROVE  \E D : Kicked(D) /\ KickWaiters(D)
  <1> DEFINE e == dls.dl[k]
             pc == IF e.err = "none" THEN "run" ELSE "end"
             d == [e EXCEPT !.pc = pc]
             D == [dls EXCEPT !.dl[k].pc = pc]
  <1>1. e.pc = "kick" /\ KickWaiters(D) /\ UNCHANGED <<item, held, write, close>>
    BY DEF Kick
  <1>2. e \in Dl1 /\ e.start <= e.offset
    BY DlFields DEF GoodDl
  <1>3. SetDl(D, dls, k, d)
    <2> HIDE DEF pc
    <2>1. QED
      BY DEF SetDl
  <1>4. pc \in {"run", "end"}
    OBVIOUS
  <1> HIDE DEF e, pc
  <1>5. d \in Dl1 /\ d.pc = pc /\ d.start = e.start /\ d.offset = e.offset
    BY <1>2, <1>4 DEF Dl1
  <1> HIDE DEF d, D
  <1>6. GoodDl(d) /\ d.pc \notin {"closed", "last"}
    BY <1>2, <1>4, <1>5 DEF GoodDl
  <1>7. DlsOK(dls) /\ dls.dl[k].pc \notin {"closed", "last"}
    BY <1>1 DEF e, DownInv
  <1>8. DlsOK(D) /\ D.waiters = dls.waiters /\ D.list = dls.list /\ D.errors = dls.errors /\ D.lastErr = dls.lastErr
    BY <1>3, <1>6, <1>7, DlChanges
  <1>9. QED
    BY <1>1, <1>8 DEF Kicked

LEMMA KickKeepsInv ==
  ASSUME DownInv, NEW k \in DOMAIN dls.dl, Kick(k)
  PROVE  DownInv'
  <1>1. PICK D : Kicked(D) /\ KickWaiters(D)
    BY KickFrom
  <1>2. UNCHANGED <<item, held, write, close>>
    BY DEF Kick
  <1>3. QED
    BY <1>1, <1>2, KickKeeps DEF Kicked

LEMMA BackgroundKickKeeps ==
  ASSUME DownInv, BackgroundKick
  PROVE  DownInv'
  BY KickKeeps DEF BackgroundKick, DownInv

LEMMA EndedTyped ==
  /\ Ended \in Dl1 /\ Ended.start = 0 /\ Ended.offset = 0 /\ Ended.pc = "last"
  BY DEF Ended, Dl1, Err1

\* The goroutine is no longer in the list of those that may write.
LEMMA CloseDownloaderKeeps ==
  ASSUME DownInv, NEW k \in DOMAIN dls.dl, CloseDownloader(k)
  PROVE  DownInv' /\ dls'.errors = dls.errors /\ dls'.lastErr = dls.lastErr
  <1> DEFINE e == dls.dl[k]
             d == Closed(e)
             list == Select(dls.list, DOMAIN dls.dl \ {k})
             dl == [dls.dl EXCEPT ![k] = d]
  <1>1. /\ DlsOK(dls) /\ ReadsOK(reads, dls.waiters) /\ close \in Close1 /\ ItemOK(item, held, write)
        /\ Quiet(close, reads, item.beingReset) /\ Stopping(close, dls.list)
    BY DEF DownInv
  <1>2. /\ dls = [open |-> dls.open, list |-> dls.list, waiters |-> dls.waiters, errors |-> dls.errors,
                  lastErr |-> dls.lastErr, dl |-> dls.dl]
        /\ dls.open \in BOOLEAN /\ dls.list \in Seq(Nat) /\ dls.waiters \in Seq(Thread)
        /\ dls.errors \in Nat /\ dls.lastErr \in Err1
        /\ DlOK(dls.dl) /\ SeqExt!ToSet(dls.list) = Writing(dls.dl) /\ k \in Nat
    BY <1>1 DEF DlsOK, DlOK
  <1>3. e.err \in Err1 /\ e.old \in BOOLEAN /\ e.offset - e.start \in Nat
    BY DlFields DEF GoodDl, Dl1
  <1>4. dls' = [dls EXCEPT !.list = list, !.dl[k] = d] /\ UNCHANGED <<item, held, reads, write, close>>
    BY DEF CloseDownloader
  <1>5. GoodDl(d) /\ d.pc = "closed"
    <2>1. d = [Ended EXCEPT !.pc = "closed", !.offset = e.offset - e.start, !.err = e.err, !.old = e.old]
      BY DEF Closed
    <2> HIDE DEF e
    <2>2. d \in Dl1 /\ d.pc = "closed" /\ d.start = 0 /\ d.offset = e.offset - e.start
      BY <2>1, <1>3, EndedTyped DEF Dl1
    <2> HIDE DEF d
    <2>3. QED
      BY <2>2, <1>3 DEF GoodDl
  <1>6. PutDl(dl, dls.dl, k, d)
    BY DEF PutDl
  <1>7. list \in Seq(Nat) /\ SeqExt!ToSet(list) = SeqExt!ToSet(dls.list) \cap (DOMAIN dls.dl \ {k})
    BY <1>2, SelectFacts
  <1> HIDE DEF d, list
  <1>8. dls' = [open |-> dls.open, list |-> list, waiters |-> dls.waiters, errors |-> dls.errors,
                lastErr |-> dls.lastErr, dl |-> dl]
    BY <1>2, <1>4
  <1> HIDE DEF dl
  <1>9. DlOK(dl) /\ \A x : x \in Writing(dl) <=> IF x = k THEN d.pc \notin {"closed", "last"} ELSE x \in Writing(dls.dl)
    BY <1>2, <1>5, <1>6, DlPut
  <1>10. SeqExt!ToSet(list) = Writing(dl)
    BY <1>2, <1>5, <1>7, <1>9 DEF Writing
  <1>11. /\ DlsOK(dls') /\ dls'.waiters = dls.waiters /\ dls'.list = list
         /\ dls'.errors = dls.errors /\ dls'.lastErr = dls.lastErr
    BY <1>2, <1>7, <1>8, <1>9, <1>10 DEF DlsOK
  <1>12. Stopping(close', dls'.list)
    BY <1>1, <1>2, <1>4, <1>7, <1>11, StoppingKept
  <1>13. Quiet(close', reads', item'.beingReset)
    BY <1>1, <1>4, QuietKept
  <1>14. QED
    BY <1>1, <1>4, <1>11, <1>12, <1>13 DEF DownInv

\* A record of the downloaders with one of them, or with its errors, changed.
LEMMA ChangedDl ==
  ASSUME NEW o, NEW l, NEW w, NEW n, NEW e, NEW f, NEW k, NEW d, NEW D,
         D = [open |-> o, list |-> l, waiters |-> w, errors |-> n, lastErr |-> e, dl |-> f]
  PROVE  [D EXCEPT !.dl[k] = d]
           = [open |-> o, list |-> l, waiters |-> w, errors |-> n, lastErr |-> e, dl |-> [f EXCEPT ![k] = d]]
  OBVIOUS

LEMMA ChangedErrors ==
  ASSUME NEW o, NEW l, NEW w, NEW n, NEW e, NEW f, NEW m, NEW x, NEW D, NEW E,
         D = [open |-> o, list |-> l, waiters |-> w, errors |-> n, lastErr |-> e, dl |-> f],
         E = [D EXCEPT !.errors = m, !.lastErr = x]
  PROVE  E = [open |-> o, list |-> l, waiters |-> w, errors |-> m, lastErr |-> x, dl |-> f]
  OBVIOUS

\* The errors are counted; the goroutine was not in the list any more.
LEMMA CountErrorsKeeps ==
  ASSUME DownInv, NEW k \in DOMAIN dls.dl, CountErrors(k)
  PROVE  DownInv' /\ (Blamed(dls) => Blamed(dls'))
  <1> DEFINE e == dls.dl[k]
             d == [Ended EXCEPT !.old = e.old]
             dl == [dls.dl EXCEPT ![k] = d]
             With(n, err) == [open |-> dls.open, list |-> dls.list, waiters |-> dls.waiters, errors |-> n,
                              lastErr |-> err, dl |-> dl]
             more == Smaller(dls.errors + 1, MaxErrorCount + 1)
             counted == [dls EXCEPT !.dl[k] = d]
  <1>1. /\ DlsOK(dls) /\ ReadsOK(reads, dls.waiters) /\ close \in Close1 /\ ItemOK(item, held, write)
        /\ Quiet(close, reads, item.beingReset) /\ Stopping(close, dls.list)
    BY DEF DownInv
  <1>2. /\ dls = [open |-> dls.open, list |-> dls.list, waiters |-> dls.waiters, errors |-> dls.errors,
                  lastErr |-> dls.lastErr, dl |-> dls.dl]
        /\ dls.open \in BOOLEAN /\ dls.list \in Seq(Nat) /\ dls.waiters \in Seq(Thread)
        /\ dls.errors \in Nat /\ dls.lastErr \in Err1
        /\ DlOK(dls.dl) /\ SeqExt!ToSet(dls.list) = Writing(dls.dl) /\ k \in Nat
    BY <1>1 DEF DlsOK, DlOK
  <1>3. e.err \in Err1 /\ e.old \in BOOLEAN
    BY DlFields DEF GoodDl, Dl1
  <1>4. e.pc = "closed" /\ UNCHANGED <<item, held, reads, write, close>>
    BY DEF CountErrors
  <1>5. GoodDl(d) /\ d.pc = "last"
    <2> HIDE DEF e
    <2>1. d \in Dl1 /\ d.pc = "last" /\ d.start = 0 /\ d.offset = 0
      BY <1>3, EndedTyped DEF Dl1
    <2> HIDE DEF d
    <2>2. QED
      BY <2>1 DEF GoodDl
  <1>6. PutDl(dl, dls.dl, k, d)
    BY DEF PutDl
  <1>7. more \in Nat
    <2>1. dls.errors \in Nat /\ MaxErrorCount \in Nat
      BY <1>2, DownloadersAssumption
    <2>2. QED
      BY <2>1 DEF Smaller
  <1>8. "none" \in Err1 /\ 0 \in Nat
    BY DEF Err1
  <1> HIDE DEF d
  <1>9. counted = With(dls.errors, dls.lastErr)
    <2> HIDE DEF e
    <2>1. QED
      BY <1>2, ChangedDl
  <1>10. dls' = IF e.old THEN counted
                ELSE IF e.err # "none" THEN [counted EXCEPT !.errors = more, !.lastErr = e.err]
                ELSE IF e.offset # 0 /\ dls.errors # 0 THEN [counted EXCEPT !.errors = 0, !.lastErr = "none"]
                ELSE counted
    <2>1. dls' = IF e.old THEN counted
                 ELSE IF e.err # "none"
                 THEN [counted EXCEPT !.errors = Smaller(@ + 1, MaxErrorCount + 1), !.lastErr = e.err]
                 ELSE IF e.offset # 0 /\ dls.errors # 0
                 THEN [counted EXCEPT !.errors = 0, !.lastErr = "none"]
                 ELSE counted
      BY DEF CountErrors, d
    <2>2. counted.errors = dls.errors
      <3> HIDE DEF dl, counted
      <3>1. QED
        BY <1>9
    <2> HIDE DEF counted, e
    <2>3. QED
      BY <2>1, <2>2
  <1>11. ASSUME NEW n, NEW err, NEW E, E = [counted EXCEPT !.errors = n, !.lastErr = err]
         PROVE  E = With(n, err)
    <2> HIDE DEF dl, counted
    <2>1. QED
      BY <1>9, <1>11, ChangedErrors
  <1> HIDE DEF counted, more, e, dl, With
  <1>12. \/ dls' = With(dls.errors, dls.lastErr)
         \/ dls' = With(more, e.err) /\ e.err # "none"
         \/ dls' = With(0, "none")
    BY <1>9, <1>10, <1>11
  <1>13. \E n \in Nat, err \in Err1 :
           /\ dls' = With(n, err)
           /\ \/ n = dls.errors /\ err = dls.lastErr
              \/ err # "none" \/ n = 0
    BY <1>2, <1>3, <1>7, <1>8, <1>12
  <1>14. DlOK(dl) /\ \A x : x \in Writing(dl) <=> IF x = k THEN d.pc \notin {"closed", "last"} ELSE x \in Writing(dls.dl)
    BY <1>2, <1>5, <1>6, DlPut
  <1>15. k \notin Writing(dls.dl)
    BY <1>4 DEF Writing, e
  <1>16. SeqExt!ToSet(dls.list) = Writing(dl)
    BY <1>2, <1>5, <1>14, <1>15
  <1>17. /\ DlsOK(dls') /\ dls'.waiters = dls.waiters /\ dls'.list = dls.list
         /\ (Blamed(dls) => Blamed(dls'))
    BY <1>2, <1>13, <1>14, <1>16 DEF DlsOK, Blamed, With
  <1>18. Stopping(close', dls'.list)
    BY <1>1, <1>4, <1>17
  <1>19. Quiet(close', reads', item'.beingReset)
    BY <1>1, <1>4, QuietKept
  <1>20. QED
    BY <1>1, <1>4, <1>17, <1>18, <1>19 DEF DownInv

\* The goroutine ends, which was not in the list any more.
LEMMA LastKickFrom ==
  ASSUME DownInv, NEW k \in DOMAIN dls.dl, LastKick(k)
  PROVE  \E D : Kicked(D) /\ ((dls' = D /\ UNCHANGED reads) \/ KickWaiters(D))
  <1> DEFINE dl == Without(dls.dl, k)
             D == [dls EXCEPT !.dl = dl]
  <1>1. /\ DlsOK(dls) /\ ReadsOK(reads, dls.waiters) /\ close \in Close1 /\ ItemOK(item, held, write)
        /\ Quiet(close, reads, item.beingReset) /\ Stopping(close, dls.list)
    BY DEF DownInv
  <1>2. /\ dls.dl[k].pc = "last" /\ UNCHANGED <<item, held, write, close>>
        /\ (dls' = D /\ UNCHANGED reads) \/ KickWaiters(D)
    BY DEF LastKick
  <1>3. DlOK(dls.dl) /\ dls.list \in Seq(Nat) /\ SeqExt!ToSet(dls.list) = Writing(dls.dl)
    BY <1>1 DEF DlsOK
  <1>4. DlOK(dl)
    <2>1. DOMAIN dl = DOMAIN dls.dl \ {k} /\ \A n \in DOMAIN dl : dl[n] = dls.dl[n]
      BY DEF Without
    <2>2. IsFiniteSet(DOMAIN dls.dl \ {k})
      BY <1>3, FS_RemoveElement DEF DlOK
    <2>3. \A n \in DOMAIN dl : dl[n] \in Dl1 /\ dl[n].start <= dl[n].offset
      BY <2>1, <1>3 DEF DlOK
    <2>4. dl \in [DOMAIN dl -> Dl1]
      <3>1. dl = [n \in DOMAIN dl |-> dl[n]]
        BY DEF Without
      <3> HIDE DEF dl
      <3>2. QED
        BY <3>1, <2>3
    <2> HIDE DEF dl
    <2>5. QED
      BY <2>1, <2>2, <2>3, <2>4, <1>3 DEF DlOK
  <1>5. Writing(dl) = Writing(dls.dl)
    BY <1>2 DEF Writing, Without
  <1>6. D = [open |-> dls.open, list |-> dls.list, waiters |-> dls.waiters, errors |-> dls.errors,
             lastErr |-> dls.lastErr, dl |-> dl]
    <2>1. dls = [open |-> dls.open, list |-> dls.list, waiters |-> dls.waiters, errors |-> dls.errors,
                 lastErr |-> dls.lastErr, dl |-> dls.dl]
      BY <1>1 DEF DlsOK
    <2> HIDE DEF dl
    <2>2. QED
      BY <2>1
  <1> HIDE DEF dl, D
  <1>7. SeqExt!ToSet(dls.list) = Writing(dl)
    BY <1>3, <1>5
  <1>8. DlsOK(D) /\ D.waiters = dls.waiters /\ D.list = dls.list /\ D.errors = dls.errors /\ D.lastErr = dls.lastErr
    BY <1>1, <1>3, <1>4, <1>6, <1>7, DlsPut
  <1>9. QED
    BY <1>2, <1>8 DEF Kicked

LEMMA LastKickKeeps ==
  ASSUME DownInv, NEW k \in DOMAIN dls.dl, LastKick(k)
  PROVE  DownInv'
  <1>1. /\ DlsOK(dls) /\ ReadsOK(reads, dls.waiters) /\ close \in Close1 /\ ItemOK(item, held, write)
        /\ Quiet(close, reads, item.beingReset) /\ Stopping(close, dls.list)
    BY DEF DownInv
  <1>2. UNCHANGED <<item, held, write, close>>
    BY DEF LastKick
  <1>3. PICK D : Kicked(D) /\ ((dls' = D /\ UNCHANGED reads) \/ KickWaiters(D))
    BY LastKickFrom
  <1>4. CASE dls' = D /\ UNCHANGED reads
    <2>1. Quiet(close', reads', item'.beingReset)
      BY <1>1, <1>2, <1>4, QuietKept
    <2>2. QED
      BY <1>1, <1>2, <1>3, <1>4, <2>1 DEF DownInv, Kicked
  <1>5. CASE KickWaiters(D)
    BY <1>2, <1>3, <1>5, KickKeeps DEF Kicked
  <1>6. QED
    BY <1>3, <1>4, <1>5

\* A thread that does not wait goes on, and does not wait.
LEMMA ReadGoesOn ==
  ASSUME NEW rd, NEW waiters, ReadsOK(rd, waiters), NEW p \in Thread, rd[p].pc # "waiting",
         NEW x \in Read1, x.pc # "waiting", x.pc = "ensure" => ~IsEmpty(x.r),
         NEW new, new = [rd EXCEPT ![p] = x]
  PROVE  ReadsOK(new, waiters)
  <1>1. rd \in [Thread -> Read1]
    BY DEF ReadsOK
  <1>2. new \in [Thread -> Read1] /\ \A q \in Thread : new[q] = IF q = p THEN x ELSE rd[q]
    BY <1>1
  <1>3. \A q \in Thread : new[q].pc \in {"ensure", "waiting"} => ~IsEmpty(new[q].r)
    BY <1>2 DEF ReadsOK
  <1>4. {q \in Thread : new[q].pc = "waiting"} = {q \in Thread : rd[q].pc = "waiting"}
    BY <1>2
  <1>5. QED
    BY <1>2, <1>3, <1>4 DEF ReadsOK

LEMMA CallKeeps ==
  ASSUME DownInv, NEW p \in Reader, NEW ask \in Range0, NEW tries \in Nat, Call(p, ask, tries),
         reads[p].pc \in {"idle", "retry"},
         close.pc = "open" \/ (reads[p].pc = "retry" /\ ~item.beingReset),
         UNCHANGED <<item, held, dls, write, close>>
  PROVE  DownInv'
  <1> DEFINE r == Needed(ask)
             pc == IF ~item.fd THEN "failed" ELSE IF IsEmpty(r) THEN "read" ELSE "ensure"
             present == Present(item.rs, r)
             err == IF item.fd THEN "none" ELSE "io"
             x == [pc |-> pc, ask |-> ask, r |-> r, present |-> present, tries |-> tries, err |-> err]
  <1>1. /\ ItemOK(item, held, write) /\ DlsOK(dls) /\ ReadsOK(reads, dls.waiters) /\ close \in Close1
        /\ Quiet(close, reads, item.beingReset) /\ Stopping(close, dls.list)
    BY DEF DownInv
  <1>2. reads' = [reads EXCEPT ![p] = x]
    BY DEF Call
  <1>3. r \in [pos : Nat, size : Int]
    <2>1. ask.pos \in Nat /\ ask.size \in Nat /\ item.size \in Nat /\ Size \in Nat
      BY <1>1, DownloadersAssumption DEF ItemOK, Item1, Range0
    <2>2. Smaller(Smaller(ask.size, item.size - ask.pos), Size - ask.pos) \in Int
      BY <2>1 DEF Smaller
    <2>3. QED
      BY <2>1, <2>2 DEF Needed, Span
  <1>4. present \in BOOLEAN
    BY Zenon DEF Present
  <1>5. pc \in {"failed", "read", "ensure"} /\ (pc = "ensure" => ~IsEmpty(r)) /\ err \in Err1
    BY DEF Err1
  <1> HIDE DEF r, pc, present, err
  <1>6. x \in Read1 /\ x.pc = pc /\ x.r = r
    BY <1>3, <1>4, <1>5 DEF Read1
  <1> HIDE DEF x
  <1>7. p \in Thread /\ Closer \in Thread /\ p # Closer
    BY DownloadersAssumption DEF Thread
  <1>8. ReadsOK(reads', dls'.waiters)
    <2>1. reads[p].pc # "waiting" /\ x.pc # "waiting" /\ (x.pc = "ensure" => ~IsEmpty(x.r))
      BY <1>5, <1>6
    <2>2. QED
      BY <2>1, <1>1, <1>2, <1>6, <1>7, ReadGoesOn
  <1>9. reads'[Closer] = reads[Closer]
    BY <1>1, <1>2, <1>7 DEF ReadsOK
  <1>10. close.pc \notin {"fetch", "stop", "join", "closed"}
    BY <1>1, <1>7 DEF Quiet
  <1>11. Quiet(close', reads', item'.beingReset)
    BY <1>1, <1>9, <1>10 DEF Quiet
  <1>12. QED
    BY <1>1, <1>8, <1>11 DEF DownInv

LEMMA ReadAtKeeps ==
  ASSUME DownInv, NEW p \in Reader, ReadAt(p)
  PROVE  DownInv'
  <1>1. PICK ask \in Asks[p] : Call(p, ask, 1)
    BY DEF ReadAt
  <1>2. ask \in Range0 /\ 1 \in Nat
    BY DownloadersAssumption DEF Range0
  <1>3. /\ reads[p].pc \in {"idle", "retry"} /\ close.pc = "open"
        /\ UNCHANGED <<item, held, dls, write, close>>
    BY DEF ReadAt
  <1>4. QED
    BY <1>1, <1>2, <1>3, CallKeeps

LEMMA RetryKeeps ==
  ASSUME DownInv, NEW p \in Reader, Retry(p)
  PROVE  DownInv'
  <1>1. /\ reads[p].pc = "retry" /\ ~item.beingReset /\ Call(p, reads[p].ask, reads[p].tries + 1)
        /\ UNCHANGED <<item, held, dls, write, close>>
    BY DEF Retry
  <1>2. reads[p] \in Read1
    BY DEF DownInv, ReadsOK, Thread
  <1>3. reads[p].ask \in Range0 /\ reads[p].tries + 1 \in Nat
    BY <1>2 DEF Read1
  <1>4. QED
    BY <1>1, <1>3, CallKeeps

LEMMA ReadEndKeeps ==
  ASSUME DownInv, NEW p \in Reader, ReadEnd(p)
  PROVE  DownInv'
  <1> DEFINE x == IF reads[p].err = "nospace" /\ reads[p].tries < Retries
                  THEN [reads[p] EXCEPT !.pc = "retry"] ELSE Idle
  <1>1. /\ ItemOK(item, held, write) /\ DlsOK(dls) /\ ReadsOK(reads, dls.waiters) /\ close \in Close1
        /\ Quiet(close, reads, item.beingReset) /\ Stopping(close, dls.list)
    BY DEF DownInv
  <1>2. /\ reads[p].pc \in {"read", "failed"} /\ reads' = [reads EXCEPT ![p] = x]
        /\ UNCHANGED <<item, held, dls, write, close>>
    BY DEF ReadEnd
  <1>3. p \in Thread /\ Closer \in Thread /\ p # Closer
    BY DownloadersAssumption DEF Thread
  <1>4. x \in Read1 /\ x.pc \in {"retry", "idle"}
    <2>1. reads[p] \in Read1
      BY <1>1, <1>3 DEF ReadsOK
    <2>2. [reads[p] EXCEPT !.pc = "retry"] \in Read1 /\ [reads[p] EXCEPT !.pc = "retry"].pc = "retry"
      BY <2>1 DEF Read1
    <2>3. QED
      BY <2>2, IdleFacts
  <1> HIDE DEF x
  <1>5. ReadsOK(reads', dls'.waiters)
    <2>1. reads[p].pc # "waiting" /\ x.pc # "waiting" /\ (x.pc = "ensure" => ~IsEmpty(x.r))
      BY <1>2, <1>4
    <2>2. QED
      BY <2>1, <1>1, <1>2, <1>3, <1>4, ReadGoesOn
  <1>6. reads'[Closer] = reads[Closer]
    BY <1>1, <1>2, <1>3 DEF ReadsOK
  <1>7. close.pc \notin {"fetch", "stop", "join", "closed"}
    BY <1>1, <1>2, <1>3 DEF Quiet
  <1>8. Quiet(close', reads', item'.beingReset)
    BY <1>1, <1>2, <1>6, <1>7 DEF Quiet
  <1>9. QED
    BY <1>1, <1>2, <1>5, <1>8 DEF DownInv

LEMMA EnsureKeeps ==
  ASSUME DownInv, NEW p \in Thread, Ensure(p)
  PROVE  DownInv'
  <1> DEFINE D == EnsureDownloader(dls, reads[p].r)
  <1>1. /\ ItemOK(item, held, write) /\ DlsOK(dls) /\ ReadsOK(reads, dls.waiters) /\ close \in Close1
        /\ Quiet(close, reads, item.beingReset) /\ Stopping(close, dls.list)
    BY DEF DownInv
  <1>2. /\ reads[p].pc = "ensure" /\ Ensured(p, D) /\ UNCHANGED <<item, held, write, close>>
    BY DEF Ensure
  <1>3. reads[p].r \in Range0
    BY <1>1, <1>2, WaitingRange
  <1>4. DlsOK(D) /\ D.waiters = dls.waiters
    BY <1>1, <1>3, EnsureDownloaderTyped DEF ItemOK, Kept
  <1> HIDE DEF D
  <1>5. /\ reads \in [Thread -> Read1]
        /\ \A q \in Thread : reads[q].pc \in {"ensure", "waiting"} => ~IsEmpty(reads[q].r)
        /\ SeqExt!ToSet(dls.waiters) = {q \in Thread : reads[q].pc = "waiting"}
        /\ Distinct(dls.waiters) /\ dls.waiters \in Seq(Thread)
    BY <1>1 DEF ReadsOK, DlsOK
  <1>6. ASSUME reads[p].present
        PROVE  DlsOK(dls') /\ ReadsOK(reads', dls'.waiters) /\ \A q \in Thread : q # p => reads'[q] = reads[q]
    <2> DEFINE x == Told(p, "none")
    <2>1. x \in Read1 /\ x.pc \in {"read", "failed"}
      <3>1. "none" \in Err1
        BY DEF Err1
      <3>2. QED
        BY <3>1, <1>5, ToldFacts
    <2>2. dls' = D /\ reads' = [reads EXCEPT ![p] = x]
      BY <1>2, <1>6 DEF Ensured
    <2> HIDE DEF x
    <2>3. reads[p].pc # "waiting" /\ x.pc # "waiting" /\ (x.pc = "ensure" => ~IsEmpty(x.r))
      BY <1>2, <2>1
    <2>4. ReadsOK(reads', dls.waiters)
      BY <2>1, <2>2, <2>3, <1>1, ReadGoesOn
    <2>5. DlsOK(dls') /\ ReadsOK(reads', dls'.waiters)
      BY <2>2, <2>4, <1>4
    <2>6. \A q \in Thread : q # p => reads'[q] = reads[q]
      BY <2>2, <1>5
    <2>7. QED
      BY <2>5, <2>6
  <1>7. ASSUME ~reads[p].present
        PROVE  DlsOK(dls') /\ ReadsOK(reads', dls'.waiters) /\ \A q \in Thread : q # p => reads'[q] = reads[q]
    <2> DEFINE x == [reads[p] EXCEPT !.pc = "waiting"]
               w == Append(dls.waiters, p)
    <2>1. dls' = [D EXCEPT !.waiters = w] /\ reads' = [reads EXCEPT ![p] = x]
      BY <1>2, <1>4, <1>7 DEF Ensured
    <2>2. x \in Read1 /\ x.pc = "waiting" /\ x.r = reads[p].r
      <3>1. reads[p] \in Read1
        BY <1>5
      <3>2. QED
        BY <3>1 DEF Read1
    <2>3. p \notin SeqExt!ToSet(dls.waiters)
      BY <1>2, <1>5
    <2>4. w \in Seq(Thread) /\ SeqExt!ToSet(w) = SeqExt!ToSet(dls.waiters) \cup {p} /\ Distinct(w)
      BY <2>3, <1>5, AppendFacts
    <2> HIDE DEF x, w
    <2>5. DlsOK(dls') /\ dls'.waiters = w
      <3>1. DlsOK([D EXCEPT !.waiters = w]) /\ [D EXCEPT !.waiters = w].waiters = w
        BY <2>4, <1>4, DlsWaiters
      <3>2. QED
        BY <3>1, <2>1
    <2>6. reads' \in [Thread -> Read1] /\ \A q \in Thread : reads'[q] = IF q = p THEN x ELSE reads[q]
      BY <2>1, <2>2, <1>5
    <2>7. \A q \in Thread : reads'[q].pc \in {"ensure", "waiting"} => ~IsEmpty(reads'[q].r)
      BY <2>2, <2>6, <1>2, <1>5
    <2>8. SeqExt!ToSet(dls'.waiters) = {q \in Thread : reads'[q].pc = "waiting"}
      BY <2>2, <2>4, <2>5, <2>6, <1>5
    <2>9. ReadsOK(reads', dls'.waiters)
      BY <2>4, <2>5, <2>6, <2>7, <2>8 DEF ReadsOK
    <2>10. QED
      BY <2>5, <2>6, <2>9
  <1>8. DlsOK(dls') /\ ReadsOK(reads', dls'.waiters) /\ \A q \in Thread : q # p => reads'[q] = reads[q]
    BY <1>6, <1>7
  <1>9. close.pc \notin {"stop", "join", "closed"}
    BY <1>1, <1>2 DEF Quiet, Thread
  <1>10. Closer \in Thread /\ \A q \in Reader : q \in Thread
    BY DEF Thread
  <1>11. Quiet(close', reads', item'.beingReset)
    BY <1>1, <1>2, <1>8, <1>9, <1>10 DEF Quiet
  <1>12. Stopping(close', dls'.list)
    BY <1>2, <1>9 DEF Stopping
  <1>13. QED
    BY <1>1, <1>2, <1>8, <1>11, <1>12 DEF DownInv

\* The file changes and nothing else does.
LEMMA FileKeeps ==
  ASSUME DownInv, ItemOK(item', held', write'), item'.beingReset = item.beingReset,
         UNCHANGED <<reads, dls, close>>
  PROVE  DownInv'
  <1>1. /\ DlsOK(dls) /\ ReadsOK(reads, dls.waiters) /\ close \in Close1
        /\ Quiet(close, reads, item.beingReset) /\ Stopping(close, dls.list)
    BY DEF DownInv
  <1>2. Quiet(close', reads', item'.beingReset)
    BY <1>1, QuietKept
  <1>3. QED
    BY <1>1, <1>2 DEF DownInv

LEMMA EmptyFacts ==
  Empty \in Range0 /\ Bytes(Empty) = {}
  BY DEF Empty, Span, Range0, Bytes, End

LEMMA WriteAtKeeps ==
  ASSUME DownInv, WriteAt
  PROVE  DownInv'
  <1>1. PICK r \in Puts : /\ write' = r /\ held' = held \cup Bytes(r)
                          /\ item' = [item EXCEPT !.length = Larger(@, End(r))]
    BY DEF WriteAt
  <1>2. write = Empty /\ UNCHANGED <<reads, dls, close>>
    BY DEF WriteAt, NoWrite
  <1>3. r \in [pos : Nat, size : Nat \ {0}]
    BY DownloadersAssumption
  <1>4. r \in Range0 /\ Bytes(r) \subseteq Nat /\ End(r) \in Nat
    BY <1>3 DEF Range0, Bytes, End
  <1>5. ItemOK(item, held, write)
    BY DEF DownInv
  <1>6. item \in Item1 /\ held \subseteq Nat /\ Canonical(item.rs) /\ held \subseteq Positions(item.rs)
    BY <1>2, <1>5, EmptyFacts DEF ItemOK
  <1>7. Larger(item.length, End(r)) \in Nat
    BY <1>4, <1>6 DEF Larger, Item1
  <1>8. item' \in Item1 /\ item'.rs = item.rs /\ item'.beingReset = item.beingReset
    BY <1>1, <1>6, <1>7 DEF Item1
  <1>9. ItemOK(item', held', write')
    BY <1>1, <1>4, <1>6, <1>8 DEF ItemOK
  <1>10. QED
    BY <1>2, <1>8, <1>9, FileKeeps

\* The range is marked.
LEMMA MarkedFacts ==
  ASSUME NEW it \in Item1, Canonical(it.rs), NEW r \in Range0
  PROVE  /\ Marked(it, r) \in Item1 /\ Canonical(Marked(it, r).rs) /\ SameFile(it, Marked(it, r))
         /\ Positions(Marked(it, r).rs) = Positions(it.rs) \cup Bytes(r)
  <1> DEFINE rs == Insert(it.rs, r)
             new == Marked(it, r)
  <1>1. r \in [pos : Nat, size : Int] /\ it.rs \in Seq(Range1) /\ it.length \in Nat
    BY DEF Range0, Item1
  <1>2. rs \in Seq(Range1) /\ Canonical(rs) /\ Positions(rs) = Positions(it.rs) \cup Bytes(r)
    BY <1>1, InsertExact
  <1>3. new = [it EXCEPT !.rs = rs]
    BY DEF Marked
  <1> HIDE DEF rs, new
  <1>4. /\ new \in Item1 /\ new.rs = rs /\ new.beingReset = it.beingReset /\ new.size = it.size
        /\ new.kept = it.kept /\ new.length = it.length
    BY <1>2, <1>3 DEF Item1
  <1>5. QED
    BY <1>1, <1>2, <1>4 DEF new, SameFile

\* The gap is marked, and the file is longer if need be.
LEMMA ExtendedFacts ==
  ASSUME item \in Item1, NEW it \in Item1, Canonical(it.rs), NEW r \in Range0
  PROVE  LET new == Extended(it, r)
         IN /\ new \in Item1 /\ Canonical(new.rs) /\ Bytes(Gap(r)) \subseteq Nat
            /\ new.beingReset = it.beingReset /\ new.kept = it.kept /\ new.length = it.length /\ it.size <= new.size
            /\ Positions(new.rs) = Positions(it.rs) \cup Bytes(Gap(r))
            /\ new.tail = Empty
  <1> DEFINE gap == Gap(r)
             both == Insert(it.rs, gap)
             rs == IF IsEmpty(gap) THEN it.rs ELSE both
             size == Larger(it.size, End(r))
             new == Extended(it, r)
  <1>1. /\ r.pos \in Nat /\ r.size \in Nat /\ item.size \in Nat /\ it.size \in Nat /\ it.rs \in Seq(Range1)
    BY DEF Range0, Item1
  <1>2. gap \in [pos : Nat, size : Int] /\ Bytes(gap) \subseteq Nat
    <2>1. gap.pos \in Nat /\ gap.size \in Int /\ gap \in [pos : Nat, size : Int]
      BY <1>1 DEF Gap, Span
    <2> HIDE DEF gap
    <2>2. QED
      BY <2>1 DEF Bytes, End
  <1>3. size \in Nat /\ it.size <= size
    BY <1>1 DEF Larger, End
  <1>4. new = [it EXCEPT !.dirty = TRUE, !.tail = Empty, !.size = size, !.rs = rs]
    BY DEF Extended
  <1> HIDE DEF gap, size
  <1>5. both \in Seq(Range1) /\ Canonical(both) /\ Positions(both) = Positions(it.rs) \cup Bytes(gap)
    BY <1>1, <1>2, InsertExact
  <1>6. IsEmpty(gap) => Bytes(gap) = {}
    BY <1>2 DEF IsEmpty, Bytes, End
  <1> HIDE DEF both
  <1>7. rs \in Seq(Range1) /\ Canonical(rs) /\ Positions(rs) = Positions(it.rs) \cup Bytes(gap)
    <2>1. CASE IsEmpty(gap)
      <3>1. rs = it.rs
        BY <2>1
      <3> HIDE DEF rs
      <3>2. QED
        BY <3>1, <2>1, <1>1, <1>6
    <2>2. CASE ~IsEmpty(gap)
      <3>1. rs = both
        BY <2>2
      <3> HIDE DEF rs
      <3>2. QED
        BY <3>1, <1>5
    <2>3. QED
      BY <2>1, <2>2
  <1> HIDE DEF rs, new
  <1>8. /\ new \in Item1 /\ new.rs = rs /\ new.beingReset = it.beingReset /\ new.kept = it.kept
        /\ new.length = it.length /\ new.size = size /\ new.tail = Empty
    BY <1>3, <1>4, <1>7, EmptyFacts DEF Item1
  <1>9. QED
    BY <1>2, <1>3, <1>7, <1>8 DEF gap, new

\* WriteMarks, as far as the properties go.
MarksForm(old, there) ==
  /\ item'.beingReset = item.beingReset /\ item'.kept = item.kept /\ item'.length = item.length /\ item.size <= item'.size
  /\ Positions(item'.rs) \subseteq old \cup there
  /\ old \subseteq Positions(item'.rs)
  /\ held' = held \cup there /\ there \subseteq Nat /\ there \subseteq Positions(item'.rs)

LEMMA WriteMarksForm ==
  ASSUME DownInv, WriteMarks
  PROVE  /\ item' \in Item1 /\ Canonical(item'.rs)
         /\ \E there : MarksForm(Positions(item.rs) \cup Bytes(write), there)
  <1>1. item \in Item1 /\ Canonical(item.rs) /\ write \in Range0
    BY DEF DownInv, ItemOK
  <1> DEFINE m == Marked(item, write)
  <1>2. /\ m \in Item1 /\ Canonical(m.rs) /\ SameFile(item, m)
        /\ Positions(m.rs) = Positions(item.rs) \cup Bytes(write)
    BY <1>1, MarkedFacts
  <1>3. m.length = item.length
    BY <1>1 DEF Marked, Item1
  <1>4. /\ item.dirty => item' = Extended(m, write) /\ held' = held \cup Bytes(Gap(write))
        /\ ~item.dirty => item' = [m EXCEPT !.tail = write] /\ held' = held
    BY DEF WriteMarks
  <1> HIDE DEF m
  <1>5. item.size \in Nat /\ m.size = item.size
    BY <1>1, <1>2 DEF Item1, SameFile
  <1>6. CASE item.dirty
    <2>1. /\ item' \in Item1 /\ Canonical(item'.rs) /\ Bytes(Gap(write)) \subseteq Nat
          /\ item'.beingReset = m.beingReset /\ item'.kept = m.kept /\ item'.length = m.length /\ m.size <= item'.size
          /\ Positions(item'.rs) = Positions(m.rs) \cup Bytes(Gap(write))
      BY <1>1, <1>2, <1>4, <1>6, ExtendedFacts
    <2>2. MarksForm(Positions(item.rs) \cup Bytes(write), Bytes(Gap(write)))
      BY <1>2, <1>3, <1>4, <1>5, <1>6, <2>1 DEF MarksForm, SameFile
    <2>3. QED
      BY <2>1, <2>2
  <1>7. CASE ~item.dirty
    <2>1. /\ item' \in Item1 /\ item'.rs = m.rs /\ item'.beingReset = m.beingReset /\ item'.kept = m.kept
          /\ item'.length = m.length /\ item'.size = m.size
      BY <1>1, <1>2, <1>4, <1>7 DEF Item1
    <2>2. MarksForm(Positions(item.rs) \cup Bytes(write), {})
      BY <1>2, <1>3, <1>4, <1>5, <1>7, <2>1 DEF MarksForm, SameFile
    <2>3. QED
      BY <1>2, <2>1, <2>2
  <1>8. QED
    BY <1>6, <1>7

LEMMA WriteExtendsForm ==
  ASSUME DownInv, WriteExtends
  PROVE  /\ item' \in Item1 /\ Canonical(item'.rs)
         /\ \E there : MarksForm(Positions(item.rs), there)
  <1>1. item \in Item1 /\ Canonical(item.rs) /\ item.tail \in Range0
    BY DEF DownInv, ItemOK, Item1
  <1>2. item' = Extended(item, item.tail) /\ held' = held \cup Bytes(Gap(item.tail))
    BY DEF WriteExtends
  <1>3. /\ item' \in Item1 /\ Canonical(item'.rs) /\ Bytes(Gap(item.tail)) \subseteq Nat
        /\ item'.beingReset = item.beingReset /\ item'.kept = item.kept /\ item'.length = item.length /\ item.size <= item'.size
        /\ Positions(item'.rs) = Positions(item.rs) \cup Bytes(Gap(item.tail))
    BY <1>1, <1>2, ExtendedFacts
  <1>4. MarksForm(Positions(item.rs), Bytes(Gap(item.tail)))
    BY <1>2, <1>3 DEF MarksForm
  <1>5. QED
    BY <1>3, <1>4

LEMMA WriteMarksKeeps ==
  ASSUME DownInv, WriteMarks
  PROVE  DownInv'
  <1>1. ItemOK(item, held, write) /\ write' = Empty /\ UNCHANGED <<reads, dls, close>>
    BY DEF DownInv, WriteMarks
  <1>2. PICK there : /\ item' \in Item1 /\ Canonical(item'.rs)
                     /\ MarksForm(Positions(item.rs) \cup Bytes(write), there)
    BY WriteMarksForm
  <1>3. held' \subseteq Nat /\ held' \ Bytes(write') \subseteq Positions(item'.rs)
    BY <1>1, <1>2 DEF ItemOK, MarksForm
  <1>4. ItemOK(item', held', write')
    BY <1>1, <1>2, <1>3, EmptyFacts DEF ItemOK
  <1>5. QED
    BY <1>1, <1>2, <1>4, FileKeeps DEF MarksForm

LEMMA WriteExtendsKeeps ==
  ASSUME DownInv, WriteExtends
  PROVE  DownInv'
  <1>1. ItemOK(item, held, write) /\ UNCHANGED <<reads, dls, write, close>>
    BY DEF DownInv, WriteExtends
  <1>2. PICK there : /\ item' \in Item1 /\ Canonical(item'.rs)
                     /\ MarksForm(Positions(item.rs), there)
    BY WriteExtendsForm
  <1>3. held' \subseteq Nat /\ held' \ Bytes(write') \subseteq Positions(item'.rs)
    BY <1>1, <1>2 DEF ItemOK, MarksForm
  <1>4. ItemOK(item', held', write')
    BY <1>1, <1>2, <1>3 DEF ItemOK
  <1>5. QED
    BY <1>1, <1>2, <1>4, FileKeeps DEF MarksForm

LEMMA TruncateKeeps ==
  ASSUME DownInv, Truncate
  PROVE  DownInv'
  <1>1. ItemOK(item, held, write)
    BY DEF DownInv
  <1>2. /\ item \in Item1 /\ held \subseteq Nat /\ write \in Range0 /\ item.rs \in Seq(Range1)
        /\ Canonical(item.rs) /\ held \ Bytes(write) \subseteq Positions(item.rs) /\ item.length \in Nat
    BY <1>1 DEF ItemOK, Item1
  <1>3. PICK size \in Cuts :
          /\ item' = [item EXCEPT !.size = size, !.length = size, !.kept = Smaller(item.kept, size),
                        !.dirty = item.dirty \/ size # item.length,
                        !.rs = IF size > item.length THEN Insert(item.rs, Span(item.length, size))
                               ELSE IF size < item.length THEN Intersection(item.rs, Span(0, size))
                               ELSE item.rs]
          /\ held' = IF size > item.length THEN held \cup item.length .. size - 1 ELSE held \cap 0 .. size - 1
    BY Zenon DEF Truncate
  <1>4. UNCHANGED <<reads, dls, write, close>> /\ size \in Nat
    BY DownloadersAssumption DEF Truncate
  <1> DEFINE old == item.length
             rs == IF size > item.length THEN Insert(item.rs, Span(item.length, size))
                   ELSE IF size < item.length THEN Intersection(item.rs, Span(0, size))
                   ELSE item.rs
             dirty == item.dirty \/ size # item.length
  <1>5. /\ rs \in Seq(Range1) /\ Canonical(rs)
        /\ held' \subseteq Nat /\ held' \ Bytes(write) \subseteq Positions(rs)
    <2>1. ASSUME size > item.length
          PROVE  /\ rs \in Seq(Range1) /\ Canonical(rs)
                 /\ held' \subseteq Nat /\ held' \ Bytes(write) \subseteq Positions(rs)
      <3> DEFINE s == Span(item.length, size)
                 new == Insert(item.rs, s)
      <3>1. s \in [pos : Nat, size : Int]
        BY <1>2, <1>4 DEF Span
      <3>2. Bytes(s) = item.length .. item.length + size - 1
        <4>1. item.length \in Nat
          BY <1>2
        <4>2. s.pos = item.length /\ s.size = size
          BY DEF Span
        <4> HIDE DEF s
        <4>3. QED
          BY <4>1, <4>2, <1>4 DEF Bytes, End
      <3> HIDE DEF s
      <3>3. new \in Seq(Range1) /\ Canonical(new) /\ Positions(new) = Positions(item.rs) \cup Bytes(s)
        BY <1>2, <3>1, InsertExact
      <3>4. rs = new
        BY <2>1 DEF s
      <3> HIDE DEF new, rs
      <3>5. item.length .. size - 1 \subseteq Bytes(s) /\ item.length .. size - 1 \subseteq Nat
        BY <1>2, <1>4, <3>2
      <3>6. held' = held \cup item.length .. size - 1
        BY <1>3, <2>1
      <3>7. QED
        BY <1>2, <3>3, <3>4, <3>5, <3>6
    <2>2. ASSUME size < item.length
          PROVE  /\ rs \in Seq(Range1) /\ Canonical(rs)
                 /\ held' \subseteq Nat /\ held' \ Bytes(write) \subseteq Positions(rs)
      <3> DEFINE s == Span(0, size)
                 new == Intersection(item.rs, s)
      <3>1. s \in [pos : Nat, size : Nat]
        BY <1>4 DEF Span
      <3>2. Bytes(s) = 0 .. size - 1
        BY <1>4 DEF Span, Bytes, End
      <3> HIDE DEF s
      <3>3. new \in Seq(Range1) /\ Canonical(new) /\ Positions(new) = Positions(item.rs) \cap Bytes(s)
        BY <1>2, <3>1, IntersectionExact
      <3>4. ~(size > item.length)
        BY <1>2, <1>4, <2>2
      <3>5. rs = new
        BY <2>2, <3>4 DEF s
      <3> HIDE DEF new, rs
      <3>6. held' = held \cap 0 .. size - 1
        BY <1>3, <3>4
      <3>7. QED
        BY <1>2, <3>2, <3>3, <3>5, <3>6
    <2>3. ASSUME size = item.length
          PROVE  /\ rs \in Seq(Range1) /\ Canonical(rs)
                 /\ held' \subseteq Nat /\ held' \ Bytes(write) \subseteq Positions(rs)
      <3>1. ~(size > item.length) /\ ~(size < item.length)
        BY <1>2, <1>4, <2>3
      <3>2. rs = item.rs
        BY <3>1
      <3> HIDE DEF rs
      <3>3. held' = held \cap 0 .. size - 1
        BY <1>3, <3>1
      <3>4. QED
        BY <1>2, <3>2, <3>3
    <2> HIDE DEF rs
    <2>4. QED
      BY <2>1, <2>2, <2>3, <1>2, <1>4
  <1>6. dirty \in BOOLEAN
    BY Zenon
  <1>7. item' = [item EXCEPT !.size = size, !.length = size, !.kept = Smaller(item.kept, size), !.dirty = dirty, !.rs = rs]
    BY <1>3, Zenon
  <1>11. Smaller(item.kept, size) \in Nat
    BY <1>2, <1>4 DEF Smaller, Item1
  <1> HIDE DEF rs, dirty
  <1>8. item' \in Item1 /\ item'.rs = rs /\ item'.beingReset = item.beingReset
    BY <1>2, <1>4, <1>5, <1>6, <1>7, <1>11 DEF Item1
  <1>9. ItemOK(item', held', write')
    BY <1>2, <1>4, <1>5, <1>8 DEF ItemOK
  <1>10. QED
    BY <1>4, <1>8, <1>9, FileKeeps

LEMMA ResetKeeps ==
  ASSUME DownInv, Reset
  PROVE  DownInv'
  <1>1. /\ ItemOK(item, held, write) /\ DlsOK(dls) /\ ReadsOK(reads, dls.waiters) /\ close \in Close1
        /\ Quiet(close, reads, item.beingReset) /\ Stopping(close, dls.list)
    BY DEF DownInv
  <1>2. /\ close.pc = "open" /\ Accesses = {} /\ item' = [item EXCEPT !.beingReset = TRUE]
        /\ close' = [pc |-> "stop", reset |-> TRUE, todo |-> dls.list]
        /\ UNCHANGED <<held, reads, dls, write>>
    BY DEF Reset, NotInUse
  <1>3. item \in Item1 /\ dls.list \in Seq(Nat)
    BY <1>1 DEF ItemOK, DlsOK
  <1>4. item' \in Item1 /\ item'.rs = item.rs /\ item'.beingReset = TRUE
    BY <1>2, <1>3 DEF Item1
  <1>5. ItemOK(item', held', write')
    BY <1>1, <1>2, <1>4 DEF ItemOK
  <1>6. close' \in Close1 /\ close'.pc = "stop" /\ close'.reset = TRUE /\ close'.todo = dls.list
    BY <1>2, <1>3 DEF Close1
  <1>7. \A p \in Thread : reads[p].pc \in {"idle", "retry"}
    BY <1>2 DEF Accesses
  <1>8. reads[Closer].pc = "idle" /\ \A p \in Reader : p \in Thread
    BY <1>1, <1>2 DEF Quiet, Thread
  <1>9. Quiet(close', reads', item'.beingReset)
    BY <1>2, <1>4, <1>6, <1>7, <1>8 DEF Quiet
  <1>10. Stopping(close', dls'.list)
    BY <1>2, <1>6 DEF Stopping
  <1>11. QED
    BY <1>1, <1>2, <1>5, <1>6, <1>9, <1>10 DEF DownInv

LEMMA CloseKeeps ==
  ASSUME DownInv, Close
  PROVE  DownInv'
  <1> DEFINE r == Span(0, Smaller(item.length, Size))
             present == Present(item.rs, r)
             x == [Idle EXCEPT !.pc = "ensure", !.ask = r, !.r = r, !.present = present]
  <1>1. /\ ItemOK(item, held, write) /\ DlsOK(dls) /\ ReadsOK(reads, dls.waiters) /\ close \in Close1
        /\ Quiet(close, reads, item.beingReset) /\ Stopping(close, dls.list)
    BY DEF DownInv
  <1>2. /\ close.pc = "open" /\ \A p \in Reader : reads[p].pc = "idle"
        /\ item' = [item EXCEPT !.size = item.length]
        /\ UNCHANGED <<held, dls, write>>
    BY DEF Close
  <1>3. \/ /\ ~IsEmpty(r) /\ reads' = [reads EXCEPT ![Closer] = x]
           /\ close' = [close EXCEPT !.pc = "fetch"]
        \/ /\ close' = [pc |-> "stop", reset |-> FALSE, todo |-> dls.list]
           /\ reads' = reads
    BY DEF Close
  <1>4. item \in Item1 /\ dls.list \in Seq(Nat) /\ item.length \in Nat /\ Size \in Nat
    BY <1>1, DownloadersAssumption DEF ItemOK, DlsOK, Item1
  <1>5. item' \in Item1 /\ item'.rs = item.rs /\ item'.beingReset = item.beingReset
    BY <1>2, <1>4 DEF Item1
  <1>6. ItemOK(item', held', write')
    BY <1>1, <1>2, <1>5 DEF ItemOK
  <1>7. reads[Closer].pc = "idle" /\ Closer \in Thread /\ Closer \notin Reader
    BY <1>1, <1>2, DownloadersAssumption DEF Quiet, Thread
  <1>8. ASSUME ~IsEmpty(r), reads' = [reads EXCEPT ![Closer] = x], close' = [close EXCEPT !.pc = "fetch"]
        PROVE  DownInv'
    <2>1. r \in Range0 /\ r \in [pos : Nat, size : Int]
      <3>1. Smaller(item.length, Size) \in Nat
        BY <1>4 DEF Smaller
      <3>2. QED
        BY <3>1 DEF Span, Range0
    <2>2. present \in BOOLEAN
      BY Zenon DEF Present
    <2> HIDE DEF r, present
    <2>3. x \in Read1 /\ x.pc = "ensure" /\ x.r = r
      BY <2>1, <2>2, IdleFacts DEF Read1
    <2> HIDE DEF x
    <2>4. reads[Closer].pc # "waiting" /\ x.pc # "waiting" /\ (x.pc = "ensure" => ~IsEmpty(x.r))
      BY <1>7, <1>8, <2>3
    <2>5. ReadsOK(reads', dls.waiters)
      BY <1>1, <1>7, <1>8, <2>3, <2>4, ReadGoesOn
    <2>6. close' \in Close1 /\ close'.pc = "fetch"
      BY <1>1, <1>8 DEF Close1
    <2>7. \A p \in Reader : reads'[p] = reads[p]
      BY <1>1, <1>7, <1>8 DEF ReadsOK, Thread
    <2>8. Quiet(close', reads', item'.beingReset)
      BY <2>6, <2>7, <1>2 DEF Quiet
    <2>9. Stopping(close', dls'.list)
      BY <2>6 DEF Stopping
    <2>10. QED
      BY <1>1, <1>2, <1>6, <2>5, <2>6, <2>8, <2>9 DEF DownInv
  <1>9. ASSUME close' = [pc |-> "stop", reset |-> FALSE, todo |-> dls.list], reads' = reads
        PROVE  DownInv'
    <2>1. close' \in Close1 /\ close'.pc = "stop" /\ close'.reset = FALSE /\ close'.todo = dls.list
      BY <1>4, <1>9 DEF Close1
    <2>2. \A p \in Thread : reads'[p].pc = "idle"
      BY <1>2, <1>7, <1>9 DEF Thread
    <2>3. Quiet(close', reads', item'.beingReset)
      BY <2>1, <2>2 DEF Quiet
    <2>4. Stopping(close', dls'.list)
      BY <2>1, <1>2 DEF Stopping
    <2>5. QED
      BY <1>1, <1>2, <1>6, <1>9, <2>1, <2>3, <2>4 DEF DownInv
  <1>10. QED
    BY <1>3, <1>8, <1>9

LEMMA CloseFetchedKeeps ==
  ASSUME DownInv, CloseFetched
  PROVE  DownInv'
  <1>1. /\ ItemOK(item, held, write) /\ DlsOK(dls) /\ ReadsOK(reads, dls.waiters) /\ close \in Close1
        /\ Quiet(close, reads, item.beingReset) /\ Stopping(close, dls.list)
    BY DEF DownInv
  <1>2. /\ close.pc = "fetch" /\ reads[Closer].pc \in {"read", "failed"}
        /\ reads' = [reads EXCEPT ![Closer] = Idle] /\ UNCHANGED <<item, held, dls, write>>
        /\ \/ close' = [pc |-> "stop", reset |-> FALSE, todo |-> dls.list]
           \/ close' = [close EXCEPT !.pc = "failed"]
    BY DEF CloseFetched
  <1>3. Closer \in Thread /\ Closer \notin Reader /\ dls.list \in Seq(Nat) /\ reads \in [Thread -> Read1]
    BY <1>1, DownloadersAssumption DEF Thread, DlsOK, ReadsOK
  <1>4. ReadsOK(reads', dls.waiters)
    <2>1. reads[Closer].pc # "waiting" /\ Idle \in Read1 /\ Idle.pc # "waiting" /\ (Idle.pc = "ensure" => ~IsEmpty(Idle.r))
      BY <1>2, IdleFacts
    <2>2. QED
      BY <2>1, <1>1, <1>2, <1>3, ReadGoesOn
  <1>5. \A p \in Thread : reads'[p].pc = "idle"
    BY <1>1, <1>2, <1>3, IdleFacts DEF Quiet, Thread
  <1>6. close' \in Close1 /\ ((close'.pc = "stop" /\ close'.reset = FALSE /\ close'.todo = dls.list) \/ close'.pc = "failed")
    <2>1. CASE close' = [pc |-> "stop", reset |-> FALSE, todo |-> dls.list]
      <3>1. close' \in Close1
        BY <2>1, <1>3 DEF Close1
      <3>2. close'.pc = "stop" /\ close'.reset = FALSE /\ close'.todo = dls.list
        BY <2>1
      <3>3. QED
        BY <3>1, <3>2
    <2>2. CASE close' = [close EXCEPT !.pc = "failed"]
      <3>1. close' \in Close1 /\ close'.pc = "failed"
        BY <2>2, <1>1 DEF Close1
      <3>2. QED
        BY <3>1
    <2>3. QED
      BY <1>2, <2>1, <2>2
  <1>7. Quiet(close', reads', item'.beingReset)
    BY <1>5, <1>6 DEF Quiet
  <1>8. Stopping(close', dls'.list)
    BY <1>2, <1>6 DEF Stopping
  <1>9. QED
    BY <1>1, <1>2, <1>4, <1>6, <1>7, <1>8 DEF DownInv

LEMMA StopNextKeeps ==
  ASSUME DownInv, StopNext
  PROVE  DownInv'
  <1> DEFINE k == Head(close.todo)
             e == dls.dl[k]
             d == [e EXCEPT !.stop = TRUE]
  <1>1. /\ ItemOK(item, held, write) /\ DlsOK(dls) /\ ReadsOK(reads, dls.waiters) /\ close \in Close1
        /\ Quiet(close, reads, item.beingReset) /\ Stopping(close, dls.list)
    BY DEF DownInv
  <1>2. /\ close.pc = "stop" /\ close.todo # <<>> /\ UNCHANGED <<item, held, reads, write>>
        /\ dls' = IF k \in DOMAIN dls.dl THEN [dls EXCEPT !.dl[k].stop = TRUE] ELSE dls
        /\ close' = [close EXCEPT !.pc = "join"]
    BY DEF StopNext
  <1> HIDE DEF k
  <1>3. DlsOK(dls') /\ dls'.waiters = dls.waiters /\ dls'.list = dls.list
    <2>1. ASSUME k \in DOMAIN dls.dl
          PROVE  DlsOK(dls') /\ dls'.waiters = dls.waiters /\ dls'.list = dls.list
      <3> DEFINE dl == [dls.dl EXCEPT ![k] = d]
      <3>1. dls' = [open |-> dls.open, list |-> dls.list, waiters |-> dls.waiters, errors |-> dls.errors,
                    lastErr |-> dls.lastErr, dl |-> dl]
        <4>1. dls = [open |-> dls.open, list |-> dls.list, waiters |-> dls.waiters, errors |-> dls.errors,
                     lastErr |-> dls.lastErr, dl |-> dls.dl]
          BY <1>1 DEF DlsOK
        <4>2. dls' = [dls EXCEPT !.dl[k].stop = TRUE]
          BY <1>2, <2>1
        <4>3. QED
          BY <4>1, <4>2
      <3>2. e \in Dl1 /\ e.start <= e.offset
        BY <2>1, DlFields DEF GoodDl
      <3>3. PutDl(dl, dls.dl, k, d)
        BY <2>1 DEF PutDl
      <3>4. d \in Dl1 /\ d.pc = e.pc /\ d.start = e.start /\ d.offset = e.offset
        <4> HIDE DEF e
        <4>1. QED
          BY <3>2 DEF Dl1
      <3>5. k \in Nat /\ DlOK(dls.dl) /\ dls.list \in Seq(Nat) /\ SeqExt!ToSet(dls.list) = Writing(dls.dl)
        BY <1>1, <2>1 DEF DlsOK, DlOK
      <3>6. GoodDl(d)
        <4> HIDE DEF d, e
        <4>1. QED
          BY <3>2, <3>4 DEF GoodDl
      <3> HIDE DEF d, dl
      <3>7. DlOK(dl) /\ \A x : x \in Writing(dl) <=> IF x = k THEN d.pc \notin {"closed", "last"} ELSE x \in Writing(dls.dl)
        BY <3>3, <3>5, <3>6, DlPut
      <3>8. SeqExt!ToSet(dls.list) = Writing(dl)
        BY <3>4, <3>5, <3>7, <2>1 DEF Writing
      <3>9. QED
        BY <1>1, <3>1, <3>5, <3>7, <3>8, DlsPut
    <2>2. QED
      BY <2>1, <1>1, <1>2
  <1>4. close' \in Close1 /\ close'.pc = "join" /\ close'.todo = close.todo /\ close'.reset = close.reset
    BY <1>1, <1>2 DEF Close1
  <1>5. Quiet(close', reads', item'.beingReset)
    BY <1>1, <1>2, <1>4 DEF Quiet
  <1>6. Stopping(close', dls'.list)
    BY <1>1, <1>2, <1>3, <1>4 DEF Stopping
  <1>7. QED
    BY <1>1, <1>2, <1>3, <1>4, <1>5, <1>6 DEF DownInv

\* The goroutine that was waited for is not in the list any more.
LEMMA JoinKeeps ==
  ASSUME DownInv, Join
  PROVE  DownInv'
  <1>1. /\ ItemOK(item, held, write) /\ DlsOK(dls) /\ ReadsOK(reads, dls.waiters) /\ close \in Close1
        /\ Quiet(close, reads, item.beingReset) /\ Stopping(close, dls.list)
    BY DEF DownInv
  <1>2. /\ close.pc = "join" /\ Head(close.todo) \notin DOMAIN dls.dl
        /\ close' = [close EXCEPT !.pc = "stop", !.todo = Tail(close.todo)]
        /\ UNCHANGED <<item, held, reads, dls, write>>
    BY DEF Join, Gone
  <1> DEFINE todo == close.todo
  <1>3. todo \in Seq(Nat) /\ todo # <<>> /\ SeqExt!ToSet(dls.list) \subseteq SeqExt!ToSet(todo)
    BY <1>1, <1>2 DEF Close1, Stopping
  <1>4. close' \in Close1 /\ close'.pc = "stop" /\ close'.todo = Tail(todo) /\ close'.reset = close.reset
    <2>1. Tail(todo) \in Seq(Nat)
      BY <1>3
    <2>2. QED
      BY <2>1, <1>1, <1>2 DEF Close1
  <1>5. SeqExt!ToSet(dls.list) \subseteq DOMAIN dls.dl
    BY <1>1 DEF DlsOK, Writing
  <1> HIDE DEF todo
  <1>6. \A x \in SeqExt!ToSet(todo) : x = Head(todo) \/ x \in SeqExt!ToSet(Tail(todo))
    <2>1. TAKE x \in SeqExt!ToSet(todo)
    <2>2. PICK i \in 1 .. Len(todo) : todo[i] = x
      BY <1>3, ToSetFacts
    <2>3. Tail(todo) \in Seq(Nat) /\ Len(Tail(todo)) = Len(todo) - 1 /\ Len(todo) \in Nat /\ Head(todo) = todo[1]
      BY <1>3
    <2>4. ASSUME i # 1 PROVE x \in SeqExt!ToSet(Tail(todo))
      <3>1. i - 1 \in 1 .. Len(Tail(todo)) /\ Tail(todo)[i - 1] = todo[i]
        BY <2>3, <2>4, <1>3
      <3>2. QED
        BY <3>1, <2>2, <2>3, ToSetFacts, ZenonT(30)
    <2>5. QED
      BY <2>2, <2>3, <2>4
  <1>7. SeqExt!ToSet(dls.list) \subseteq SeqExt!ToSet(Tail(todo))
    BY <1>2, <1>3, <1>5, <1>6 DEF todo
  <1>8. Quiet(close', reads', item'.beingReset)
    BY <1>1, <1>2, <1>4 DEF Quiet
  <1>9. Stopping(close', dls'.list)
    BY <1>2, <1>4, <1>7 DEF Stopping
  <1>10. QED
    BY <1>1, <1>2, <1>4, <1>8, <1>9 DEF DownInv

\* Whoever may write has been waited for, so what is left of the goroutines only
\* ends, and no thread waits.
LEMMA StoppedFacts ==
  ASSUME DownInv, Stopped, ReturnWaiters
  PROVE  /\ reads' = reads /\ dls.waiters = <<>>
         /\ DlOK(Left) /\ Writing(Left) = {}
         /\ SeqExt!ToSet(<<>>) = {}
  <1>1. /\ DlsOK(dls) /\ ReadsOK(reads, dls.waiters) /\ close \in Close1
        /\ Quiet(close, reads, item.beingReset) /\ Stopping(close, dls.list)
    BY DEF DownInv
  <1>2. close.pc = "stop" /\ close.todo = <<>>
    BY DEF Stopped
  <1>3. SeqExt!ToSet(<<>>) = {}
    BY DEF SeqExt!ToSet
  <1>4. SeqExt!ToSet(dls.list) = {}
    BY <1>1, <1>2, <1>3 DEF Stopping
  <1>5. DlOK(dls.dl) /\ Writing(dls.dl) = {} /\ dls.waiters \in Seq(Thread)
    BY <1>1, <1>4 DEF DlsOK
  <1>6. \A p \in Thread : reads[p].pc # "waiting"
    BY <1>1, <1>2 DEF Quiet, Thread
  <1>7. reads' = reads
    <2>1. reads \in [Thread -> Read1]
      BY <1>1 DEF ReadsOK
    <2>2. reads' = [p \in Thread |-> IF reads[p].pc = "waiting" THEN Told(p, "none") ELSE reads[p]]
      BY DEF ReturnWaiters
    <2>3. reads' = [p \in Thread |-> reads[p]]
      BY <2>2, <1>6
    <2>4. QED
      BY <2>1, <2>3
  <1>8. dls.waiters = <<>>
    <2>1. SeqExt!ToSet(dls.waiters) = {}
      BY <1>1, <1>6 DEF ReadsOK
    <2>2. QED
      BY <2>1, <1>5, ToSetFacts
  <1> DEFINE dl == dls.dl
             left == [k \in DOMAIN dl |-> [dl[k] EXCEPT !.old = TRUE]]
  <1>9. Left = left
    BY DEF Left
  <1>10. \A k \in DOMAIN dl : dl[k] \in Dl1 /\ dl[k].start <= dl[k].offset /\ dl[k].pc \in {"closed", "last"}
    BY <1>5 DEF DlOK, Writing
  <1> HIDE DEF dl
  <1>11. ASSUME NEW k \in DOMAIN dl
         PROVE  left[k] \in Dl1 /\ left[k].start <= left[k].offset /\ left[k].pc \in {"closed", "last"}
    <2> DEFINE e == dl[k]
    <2>1. e \in Dl1 /\ e.start <= e.offset /\ e.pc \in {"closed", "last"}
      BY <1>10
    <2>2. left[k] = [e EXCEPT !.old = TRUE]
      OBVIOUS
    <2> HIDE DEF e, left
    <2>3. [e EXCEPT !.old = TRUE] \in Dl1
      BY <2>1 DEF Dl1
    <2>4. left[k].start = e.start /\ left[k].offset = e.offset /\ left[k].pc = e.pc
      BY <2>1, <2>2 DEF Dl1
    <2>5. QED
      BY <2>1, <2>2, <2>3, <2>4
  <1>12. DOMAIN left = DOMAIN dl /\ left = [k \in DOMAIN left |-> left[k]]
    OBVIOUS
  <1>13. DOMAIN dl \subseteq Nat /\ IsFiniteSet(DOMAIN dl)
    BY <1>5 DEF DlOK, dl
  <1> HIDE DEF left
  <1>14. left \in [DOMAIN left -> Dl1]
    BY <1>11, <1>12
  <1>15. DlOK(left) /\ Writing(left) = {}
    BY <1>11, <1>12, <1>13, <1>14 DEF DlOK, Writing
  <1>16. QED
    BY <1>3, <1>7, <1>8, <1>9, <1>15

\* New and closed downloaders, with what is left of the goroutines.
LEMMA NewTyped ==
  ASSUME NEW dl, DlOK(dl), Writing(dl) = {}, NEW open \in BOOLEAN, NEW D,
         D = [open |-> open, list |-> <<>>, waiters |-> <<>>, errors |-> 0, lastErr |-> "none", dl |-> dl]
  PROVE  DlsOK(D) /\ D.waiters = <<>> /\ D.list = <<>>
  <1>1. SeqExt!ToSet(<<>>) = {} /\ "none" \in Err1
    BY DEF SeqExt!ToSet, Err1
  <1>2. D.list = <<>> /\ D.waiters = <<>> /\ D.open = open /\ D.errors = 0 /\ D.lastErr = "none" /\ D.dl = dl
    OBVIOUS
  <1>3. D = [open |-> D.open, list |-> D.list, waiters |-> D.waiters, errors |-> D.errors,
             lastErr |-> D.lastErr, dl |-> D.dl]
    OBVIOUS
  <1>4. D.open \in BOOLEAN /\ D.errors \in Nat /\ D.lastErr \in Err1
    BY <1>1, <1>2
  <1>5. D.list \in Seq(Nat) /\ D.waiters \in Seq(Thread)
    BY <1>2
  <1>6. DlOK(D.dl) /\ SeqExt!ToSet(D.list) = Writing(D.dl)
    BY <1>1, <1>2
  <1>7. QED
    BY <1>2, <1>3, <1>4, <1>5, <1>6 DEF DlsOK

\* The two forms dls takes when the downloaders are closed.
LEMMA ClosedForms ==
  ASSUME DlOK(Left), Writing(Left) = {}, dls' = New(TRUE, Left) \/ dls' = New(FALSE, Left)
  PROVE  DlsOK(dls') /\ dls'.waiters = <<>> /\ dls'.list = <<>>
  <1>1. PICK open \in BOOLEAN : dls' = New(open, Left)
    OBVIOUS
  <1>2. dls' = [open |-> open, list |-> <<>>, waiters |-> <<>>, errors |-> 0, lastErr |-> "none", dl |-> Left]
    BY <1>1 DEF New
  <1>3. QED
    BY <1>2, NewTyped

\* The downloaders are closed, and the Close or the Reset is over.
LEMMA StoppedKeeps ==
  ASSUME DownInv, Stopped, ReturnWaiters,
         dls' = New(TRUE, Left) \/ dls' = New(FALSE, Left),
         ItemOK(item', held', write'), close' \in Close1,
         \/ close'.pc = "closed" /\ ~close.reset
         \/ close'.pc = "open"
  PROVE  DownInv'
  <1>1. /\ DlsOK(dls) /\ ReadsOK(reads, dls.waiters) /\ close \in Close1
        /\ Quiet(close, reads, item.beingReset) /\ close.pc = "stop"
    BY DEF DownInv, Stopped
  <1>2. reads' = reads /\ dls.waiters = <<>> /\ DlOK(Left) /\ Writing(Left) = {}
    BY StoppedFacts
  <1>3. DlsOK(dls') /\ dls'.waiters = <<>> /\ dls'.list = <<>>
    BY <1>2, ClosedForms
  <1>4. ReadsOK(reads', dls'.waiters)
    BY <1>1, <1>2, <1>3
  <1>5. Quiet(close', reads', item'.beingReset)
    <2>1. close.reset \in BOOLEAN /\ Closer \in Thread
      BY <1>1 DEF Close1, Thread
    <2>2. reads[Closer].pc = "idle" /\ (~close.reset => \A p \in Thread : reads[p].pc = "idle")
      BY <2>1, <1>1 DEF Quiet
    <2>3. QED
      BY <2>2, <1>2 DEF Quiet
  <1>6. Stopping(close', dls'.list)
    BY <1>3 DEF Stopping
  <1>7. QED
    BY <1>3, <1>4, <1>5, <1>6 DEF DownInv

LEMMA CloseEndKeeps ==
  ASSUME DownInv, CloseEnd
  PROVE  DownInv'
  <1>1. /\ Stopped /\ ~close.reset /\ ReturnWaiters /\ dls' = New(FALSE, Left)
        /\ item' = [item EXCEPT !.fd = FALSE] /\ close' = [close EXCEPT !.pc = "closed"]
        /\ UNCHANGED <<held, write>>
    BY DEF CloseEnd
  <1>2. ItemOK(item, held, write) /\ close \in Close1 /\ item \in Item1
    BY DEF DownInv, ItemOK
  <1>3. item' \in Item1 /\ item'.rs = item.rs
    BY <1>1, <1>2 DEF Item1
  <1>4. ItemOK(item', held', write')
    BY <1>1, <1>2, <1>3 DEF ItemOK
  <1>5. close' \in Close1 /\ close'.pc = "closed"
    BY <1>1, <1>2 DEF Close1
  <1>6. QED
    BY <1>1, <1>4, <1>5, StoppedKeeps

\* The file that is made anew, or could not be made.
LEMMA NewFile ==
  ASSUME DownInv, NEW length \in Nat, NEW kept \in Nat, NEW retry \in BOOLEAN, NEW fd \in BOOLEAN,
         item' = [rs |-> <<>>, size |-> Size, length |-> length, tail |-> Empty, kept |-> kept,
                  beingReset |-> retry, dirty |-> FALSE, fd |-> fd],
         held' = {}, UNCHANGED write, close' = [pc |-> "open", reset |-> FALSE, todo |-> <<>>]
  PROVE  ItemOK(item', held', write') /\ close' \in Close1 /\ close'.pc = "open"
  <1>1. write \in Range0 /\ Size \in Nat
    BY DownloadersAssumption DEF DownInv, ItemOK
  <1>2. item' \in Item1 /\ item'.rs = <<>>
    <2>1. Empty \in Range0 /\ <<>> \in Seq(Range1)
      BY EmptyFacts
    <2>2. QED
      BY <1>1, <2>1 DEF Item1
  <1>3. Canonical(<<>>)
    BY DEF Canonical
  <1>4. close' \in Close1 /\ close'.pc = "open"
    BY DEF Close1
  <1>5. QED
    BY <1>1, <1>2, <1>3, <1>4 DEF ItemOK

LEMMA ResetEndKeeps ==
  ASSUME DownInv, ResetEnd
  PROVE  DownInv'
  <1>1. /\ Stopped /\ ReturnWaiters /\ dls' = New(TRUE, Left) /\ held' = {} /\ UNCHANGED write
        /\ item' = [rs |-> <<>>, size |-> Size, length |-> Size, tail |-> Empty, kept |-> Size,
                    beingReset |-> FALSE, dirty |-> FALSE, fd |-> TRUE]
        /\ close' = [pc |-> "open", reset |-> FALSE, todo |-> <<>>]
    BY DEF ResetEnd, NewItem
  <1>2. Size \in Nat /\ FALSE \in BOOLEAN /\ TRUE \in BOOLEAN
    BY DownloadersAssumption
  <1>3. ItemOK(item', held', write') /\ close' \in Close1 /\ close'.pc = "open"
    BY <1>1, <1>2, NewFile
  <1>4. QED
    BY <1>1, <1>3, StoppedKeeps

LEMMA ResetFailsKeeps ==
  ASSUME DownInv, ResetFails
  PROVE  DownInv'
  <1>1. /\ Stopped /\ ReturnWaiters /\ dls' = New(FALSE, Left) /\ held' = {} /\ UNCHANGED write
        /\ close' = [pc |-> "open", reset |-> FALSE, todo |-> <<>>]
    BY DEF ResetFails
  <1>2. PICK retry \in BOOLEAN :
          item' = [rs |-> <<>>, size |-> Size, length |-> 0, tail |-> Empty, kept |-> 0,
                   beingReset |-> retry, dirty |-> FALSE, fd |-> FALSE]
    BY DEF ResetFails, NewItem
  <1>3. 0 \in Nat /\ FALSE \in BOOLEAN
    OBVIOUS
  <1>4. ItemOK(item', held', write') /\ close' \in Close1 /\ close'.pc = "open"
    BY <1>1, <1>2, <1>3, NewFile
  <1>5. QED
    BY <1>1, <1>4, StoppedKeeps

-----------------------------------------------------------------------------
(* Types, ranges and closing *)

LEMMA DownInitially ==
  Init => DownInv
  <1> SUFFICES ASSUME Init PROVE DownInv
    OBVIOUS
  <1>1. ItemOK(item, held, write)
    <2>1. item \in Item1 /\ item.rs = <<>>
      BY DownloadersAssumption, EmptyFacts DEF Init, NewItem, Item1
    <2>2. Canonical(<<>>)
      BY DEF Canonical
    <2>3. held = {} /\ write = Empty
      BY DEF Init
    <2>4. QED
      BY <2>1, <2>2, <2>3, EmptyFacts DEF ItemOK
  <1>2. DlsOK(dls) /\ dls.waiters = <<>> /\ dls.list = <<>>
    <2> DEFINE dl == <<>>
    <2>1. dls = [open |-> TRUE, list |-> <<>>, waiters |-> <<>>, errors |-> 0, lastErr |-> "none", dl |-> dl]
      BY DEF Init, New
    <2>2. DOMAIN dl = {} /\ dl \in [DOMAIN dl -> Dl1]
      OBVIOUS
    <2>3. IsFiniteSet({})
      BY FS_EmptySet
    <2> HIDE DEF dl
    <2>4. DlOK(dl) /\ Writing(dl) = {} /\ TRUE \in BOOLEAN
      BY <2>2, <2>3 DEF DlOK, Writing
    <2>5. QED
      BY <2>1, <2>4, NewTyped
  <1>3. reads = [p \in Thread |-> Idle]
    BY DEF Init
  <1>4. reads \in [Thread -> Read1] /\ \A p \in Thread : reads[p].pc = "idle"
    BY <1>3, IdleFacts
  <1>5. ReadsOK(reads, dls.waiters)
    <2>1. SeqExt!ToSet(<<>>) = {} /\ Distinct(<<>>)
      BY DEF SeqExt!ToSet, Distinct
    <2>2. QED
      BY <1>2, <1>4, <2>1 DEF ReadsOK
  <1>6. close \in Close1 /\ close.pc = "open"
    BY DEF Init, Close1
  <1>7. Quiet(close, reads, item.beingReset) /\ Stopping(close, dls.list)
    BY <1>4, <1>6 DEF Quiet, Stopping, Thread
  <1>8. QED
    BY <1>1, <1>2, <1>5, <1>6, <1>7 DEF DownInv

LEMMA DownStep ==
  DownInv /\ [Next]_vars => DownInv'
  <1> SUFFICES ASSUME DownInv, [Next]_vars PROVE DownInv'
    OBVIOUS
  <1>1. CASE UNCHANGED vars
    BY <1>1 DEF vars, DownInv, ItemOK, ReadsOK, DlsOK, Quiet, Stopping
  <1>2. ASSUME NEW k \in DOMAIN dls.dl, Runs(k) \/ Breaks(k) PROVE DownInv'
    <2>1. CASE Write(k)
      BY <2>1, WriteKeeps
    <2>2. CASE Kick(k)
      BY <2>2, KickKeepsInv
    <2>3. CASE SourceEnds(k) \/ SourceFails(k) \/ SourceShort(k)
      <3>1. "none" \in Err1 /\ "io" \in Err1
        BY DEF Err1
      <3>2. StreamEnds(k, "none") \/ StreamEnds(k, "io")
        BY <2>3 DEF SourceEnds, SourceFails, SourceShort
      <3>3. QED
        BY <3>1, <3>2, StreamEndsKeeps
    <2>4. CASE CloseDownloader(k) \/ CountErrors(k)
      BY <2>4, CloseDownloaderKeeps, CountErrorsKeeps
    <2>5. CASE LastKick(k)
      BY <2>5, LastKickKeeps
    <2>6. CASE WriteFails(k)
      BY <2>6, WriteFailsKeeps
    <2>7. QED
      BY <1>2, <2>1, <2>2, <2>3, <2>4, <2>5, <2>6 DEF Runs, Breaks
  <1>3. ASSUME NEW p \in Reader, ReadAt(p) \/ Ensure(p) \/ ReadEnd(p) \/ Retry(p) PROVE DownInv'
    <2>1. p \in Thread
      BY DEF Thread
    <2>2. QED
      BY <1>3, <2>1, ReadAtKeeps, EnsureKeeps, ReadEndKeeps, RetryKeeps
  <1>4. CASE Ensure(Closer)
    <2>1. Closer \in Thread
      BY DEF Thread
    <2>2. QED
      BY <1>4, <2>1, EnsureKeeps
  <1>5. CASE BackgroundKick \/ WriteAt \/ WriteMarks \/ WriteExtends \/ Truncate \/ Reset \/ Close
    BY <1>5, BackgroundKickKeeps, WriteAtKeeps, WriteMarksKeeps, WriteExtendsKeeps, TruncateKeeps, ResetKeeps, CloseKeeps
  <1>6. CASE Closes \/ ResetFails
    BY <1>6, CloseFetchedKeeps, StopNextKeeps, JoinKeeps, CloseEndKeeps, ResetEndKeeps, ResetFailsKeeps DEF Closes
  <1>7. QED
    BY <1>1, <1>2, <1>3, <1>4, <1>5, <1>6 DEF Next

LEMMA DownAlways ==
  Spec => []DownInv
  BY DownInitially, DownStep, PTL DEF Spec

\* Type correctness of the downloaders, the reads and the ranges, for every
\* number of readers, goroutines, writes, truncates and resets: a thread waits
\* just when it is in the queue of the Downloaders, once, and never for nothing,
\* and the list holds just the downloaders that may still write
\* (downloaders.go, item.go).
THEOREM DownloadersTyped ==
  Spec => []TypeOK
  <1>1. DownInv => TypeOK
    BY TypeParts DEF DownInv, ItemOK
  <1>2. QED
    BY <1>1, DownAlways, PTL

\* info.Rs (item.go) stays sorted and coalesced, has every byte that was written,
\* extended or downloaded, except what a WriteAt is about to mark, and Present
\* and FindMissing answer what the positions in it say, whatever the interleaving
\* of downloaders, writes, truncates and resets.
THEOREM RangesStayExact ==
  Spec => []RangesExact
  <1>1. DownInv => RangesExact
    <2>1. SUFFICES ASSUME DownInv PROVE RangesExact
      OBVIOUS
    <2>2. /\ item \in Item1 /\ Canonical(item.rs) /\ held \ Bytes(write) \subseteq Positions(item.rs)
      BY <2>1 DEF DownInv, ItemOK
    <2>3. item.rs \in Seq(Range1) /\ Size \in Nat
      BY <2>2, DownloadersAssumption DEF Item1
    <2>4. QueriesExact(item.rs, Positions(item.rs), Size)
      BY <2>2, <2>3, QueriesAreExact
    <2>5. QED
      BY <2>2, <2>4 DEF RangesExact
  <1>2. QED
    BY <1>1, DownAlways, PTL

\* Downloaders.Close waits for every goroutine that may write (stopAndClose), and
\* nobody starts another one meanwhile: when Close of the item has returned, what
\* is left of the goroutines has only its last kickWaiters to do.
THEOREM ClosedStaysStill ==
  Spec => []ClosedIsStill
  <1>1. DownInv => ClosedIsStill
    <2>1. SUFFICES ASSUME DownInv, close.pc = "closed" PROVE \A k \in DOMAIN dls.dl : dls.dl[k].pc \in {"closed", "last"}
      BY DEF ClosedIsStill
    <2>2. dls.list = <<>> /\ SeqExt!ToSet(dls.list) = Writing(dls.dl)
      BY <2>1 DEF DownInv, Stopping, DlsOK
    <2>3. SeqExt!ToSet(<<>>) = {}
      BY DEF SeqExt!ToSet
    <2>4. Writing(dls.dl) = {}
      BY <2>2, <2>3
    <2>5. QED
      BY <2>4 DEF Writing
  <1>2. QED
    BY <1>1, DownAlways, PTL

-----------------------------------------------------------------------------
(* Reads and holes *)

\* The bytes of the remote object that no truncate has cut off are within the
\* file, and those of them that are marked, or about to be, are there.
Backed(it, there, unmarked) ==
  /\ it.kept <= Size /\ it.kept <= it.size /\ it.kept <= it.length
  /\ Positions(it.rs) \cap 0 .. it.kept - 1 \subseteq there
  /\ Bytes(unmarked) \cap 0 .. it.kept - 1 \subseteq there

\* What a read waits for is all that is due of what it asks for, and what it was
\* told to be there is there.
Answered(x, due, there) ==
  /\ x.pc \in {"ensure", "waiting"} => Bytes(x.ask) \cap due \subseteq Bytes(x.r)
  /\ x.pc = "ensure" /\ x.present => Bytes(x.r) \cap due \subseteq there
  /\ x.pc = "read" => Bytes(x.ask) \cap due \subseteq there

HoleInv ==
  /\ Backed(item, held, write)
  /\ \A p \in Thread : Answered(reads[p], 0 .. item.kept - 1, held)
  /\ close.pc # "open" => write = Empty
  /\ Blamed(dls)

\* Less is due, or more is there.
LEMMA AnsweredStill ==
  ASSUME NEW x, NEW due, NEW there, Answered(x, due, there),
         NEW less, less \subseteq due, NEW more, there \cap less \subseteq more
  PROVE  Answered(x, less, more)
  BY DEF Answered

LEMMA AllAnsweredStill ==
  ASSUME HoleInv, item \in Item1, item' \in Item1, item'.kept <= item.kept,
         held \cap 0 .. item'.kept - 1 \subseteq held', UNCHANGED reads
  PROVE  \A p \in Thread : Answered(reads'[p], 0 .. item'.kept - 1, held')
  <1> DEFINE due == 0 .. item.kept - 1
             less == 0 .. item'.kept - 1
  <1>1. less \subseteq due
    BY DEF Item1
  <1>2. \A p \in Thread : Answered(reads[p], due, held)
    BY DEF HoleInv
  <1> HIDE DEF due, less
  <1>3. \A p \in Thread : Answered(reads[p], less, held')
    BY <1>1, <1>2, AnsweredStill DEF less
  <1>4. QED
    BY <1>3 DEF less

\* Present and FindMissing, for one range.
LEMMA QueryBytes ==
  ASSUME NEW rs \in Seq(Range1), Canonical(rs), NEW r \in Range0
  PROVE  /\ Present(rs, r) => Bytes(r) \subseteq Positions(rs)
         /\ Bytes(r) \ Positions(rs) \subseteq Bytes(FindMissing(rs, r))
  <1>1. r.pos \in Nat /\ r.size \in Nat /\ r = Span(r.pos, r.size)
    BY DEF Range0, Span
  <1>2. CASE r.size = 0
    <2>1. Bytes(r) = {}
      BY <1>1, <1>2 DEF Bytes, End
    <2>2. QED
      BY <2>1
  <1>3. CASE r.size > 0
    <2> DEFINE max == r.pos + r.size
               last == r.pos + r.size - 1
    <2>1. max \in Nat /\ r.pos \in 0 .. max /\ last \in r.pos .. max /\ last - r.pos + 1 = r.size
      BY <1>1, <1>3
    <2>2. QueriesExact(rs, Positions(rs), max)
      BY <2>1, QueriesAreExact
    <2> HIDE DEF max, last
    <2>3. QueryExact(rs, Span(r.pos, last - r.pos + 1), Bytes(Span(r.pos, last - r.pos + 1)) \ Positions(rs),
                     FindMissing(rs, Span(r.pos, last - r.pos + 1)))
      BY <2>1, <2>2 DEF QueriesExact
    <2>4. QueryExact(rs, r, Bytes(r) \ Positions(rs), FindMissing(rs, r))
      BY <2>1, <2>3, <1>1
    <2>5. QED
      BY <2>4 DEF QueryExact
  <1>4. QED
    BY <1>1, <1>2, <1>3

\* Clip leaves what is before the offset.
LEMMA ClipBytes ==
  ASSUME NEW r, r.pos \in Int, r.size \in Int, NEW offset \in Nat, NEW y \in Bytes(r), y < offset
  PROVE  y \in Bytes(Clip(r, offset)) /\ ~IsEmpty(Clip(r, offset))
  <1>1. y \in Int /\ r.pos <= y /\ y < r.pos + r.size
    BY DEF Bytes, End
  <1>2. CASE End(r) <= offset
    BY <1>1, <1>2 DEF Clip, IsEmpty, End
  <1>3. CASE ~(End(r) <= offset)
    <2>1. ~(offset < r.pos)
      BY <1>1
    <2> DEFINE c == Span(r.pos, offset - r.pos)
    <2>2. Clip(r, offset) = c
      BY <1>3, <2>1 DEF Clip
    <2>3. c.pos = r.pos /\ c.size = offset - r.pos
      BY DEF Span
    <2> HIDE DEF c
    <2>4. QED
      BY <2>2, <2>3, <1>1 DEF Bytes, End, IsEmpty
  <1>4. QED
    BY <1>2, <1>3

\* A waiter is told when what is due of its range is there: because all of the
\* range is, or because what is missing of it is beyond the end of the file.
LEMMA ArrivedBytes ==
  ASSUME item \in Item1, Canonical(item.rs), Backed(item, held, write),
         NEW p \in Thread, reads[p].r \in Range0, Arrived(p)
  PROVE  Bytes(reads[p].r) \cap 0 .. item.kept - 1 \subseteq held
  <1> DEFINE r == reads[p].r
             due == 0 .. item.kept - 1
  <1>1. /\ item.rs \in Seq(Range1) /\ item.size \in Nat /\ item.kept \in Nat /\ Size \in Nat
        /\ item.kept <= Size /\ item.kept <= item.size
        /\ Positions(item.rs) \cap due \subseteq held
    BY DownloadersAssumption DEF Item1, Backed
  <1>2. r \in Range0 /\ r.pos \in Int /\ r.size \in Int
    BY DEF Range0
  <1> HIDE DEF r
  <1>3. SUFFICES ASSUME NEW y \in Bytes(r), y \in due PROVE y \in Positions(item.rs)
    BY <1>1 DEF r
  <1>4. y < Size /\ y < item.size
    BY <1>1, <1>3
  <1>5. CASE Present(item.rs, Clip(r, Size))
    <2>1. Clip(r, Size) \in Range0
      BY <1>1, <1>2 DEF Clip, Span, End, Range0
    <2>2. Bytes(Clip(r, Size)) \subseteq Positions(item.rs)
      BY <2>1, <1>1, <1>5, QueryBytes
    <2>3. QED
      BY <2>2, <1>1, <1>2, <1>3, <1>4, ClipBytes
  <1>6. CASE IsEmpty(Missing(r))
    <2> DEFINE m == FindMissing(item.rs, r)
    <2>1. m.pos \in Int /\ m.size \in Int
      BY <1>2, MissingTyped DEF Range0
    <2>2. Bytes(r) \ Positions(item.rs) \subseteq Bytes(m)
      BY <1>1, <1>2, QueryBytes
    <2> HIDE DEF m
    <2>3. y \in Bytes(m) => ~IsEmpty(Clip(m, item.size))
      BY <2>1, <1>1, <1>4, ClipBytes
    <2>4. y \notin Bytes(m)
      BY <2>3, <1>6 DEF Missing, m
    <2>5. QED
      BY <2>2, <2>4, <1>3
  <1>7. QED
    BY <1>5, <1>6 DEF Arrived, r

\* What a thread is told.
LEMMA ToldFields ==
  ASSUME reads \in [Thread -> Read1], NEW p \in Thread, NEW err \in Err1
  PROVE  /\ Told(p, err).ask = reads[p].ask
         /\ Told(p, err).pc = IF err = "none" THEN "read" ELSE "failed"
  <1> DEFINE pc == IF err = "none" THEN "read" ELSE "failed"
             ask == reads[p].ask
             tries == reads[p].tries
  <1>1. Told(p, err) = [Idle EXCEPT !.pc = pc, !.err = err, !.ask = ask, !.tries = tries]
    BY DEF Told
  <1> HIDE DEF pc, ask, tries
  <1>2. Idle \in Read1
    BY IdleFacts
  <1>3. Told(p, err).ask = ask /\ Told(p, err).pc = pc
    BY <1>1, <1>2 DEF Read1
  <1>4. QED
    BY <1>3 DEF pc, ask

\* kickWaiters tells nobody of bytes that are not there.
LEMMA KickAnswers ==
  ASSUME DownInv, HoleInv, NEW D, DlsOK(D), ReadsOK(reads, D.waiters), Blamed(D),
         KickWaiters(D), UNCHANGED <<item, held, write, close>>
  PROVE  HoleInv'
  <1> DEFINE due == 0 .. item.kept - 1
  <1>1. /\ item \in Item1 /\ Canonical(item.rs) /\ Backed(item, held, write) /\ (close.pc # "open" => write = Empty)
        /\ \A p \in Thread : Answered(reads[p], due, held)
    BY DEF DownInv, ItemOK, HoleInv
  <1>2. /\ dls'.errors = D.errors /\ dls'.lastErr = D.lastErr
        /\ \A p \in Thread : reads[p].pc # "waiting" => reads'[p] = reads[p]
        /\ \A p \in Thread : \/ reads'[p] = reads[p]
                             \/ Arrived(p) /\ reads'[p] = Told(p, "none")
                             \/ GivesUp(D) /\ reads'[p] = Told(p, D.lastErr)
    BY <1>1, KickTyped
  <1>3. reads \in [Thread -> Read1] /\ D.errors \in Nat /\ D.lastErr \in Err1 /\ "none" \in Err1 /\ "nospace" \in Err1
    BY DEF ReadsOK, DlsOK, Err1
  <1>4. GivesUp(D) => D.lastErr # "none"
    BY <1>3, DownloadersAssumption DEF GivesUp, Blamed
  <1>5. ASSUME NEW p \in Thread PROVE Answered(reads'[p], due, held)
    <2>1. CASE reads'[p] = reads[p]
      BY <1>1, <2>1
    <2>2. CASE reads[p].pc = "waiting" /\ Arrived(p) /\ reads'[p] = Told(p, "none")
      <3>1. reads[p].r \in Range0
        BY <2>2, WaitingRange
      <3>2. Bytes(reads[p].r) \cap due \subseteq held
        BY <3>1, <2>2, <1>1, ArrivedBytes
      <3>3. Bytes(reads[p].ask) \cap due \subseteq Bytes(reads[p].r)
        BY <2>2, <1>1 DEF Answered
      <3>4. reads'[p].ask = reads[p].ask /\ reads'[p].pc = "read"
        BY <2>2, <1>3, ToldFields
      <3> HIDE DEF due
      <3>5. QED
        BY <3>2, <3>3, <3>4 DEF Answered
    <2>3. CASE GivesUp(D) /\ reads'[p] = Told(p, D.lastErr)
      <3>1. reads'[p].pc = "failed"
        BY <2>3, <1>3, <1>4, ToldFields
      <3>2. QED
        BY <3>1 DEF Answered
    <2>4. QED
      BY <2>1, <2>2, <2>3, <1>2
  <1>6. Blamed(dls')
    BY <1>2 DEF Blamed
  <1>7. QED
    BY <1>1, <1>5, <1>6 DEF HoleInv

\* A step of a downloader that changes nothing else.
LEMMA OnlyDl ==
  ASSUME HoleInv, dls'.errors = dls.errors, dls'.lastErr = dls.lastErr, UNCHANGED <<item, held, reads, write, close>>
  PROVE  HoleInv'
  BY DEF HoleInv, Blamed, Backed, Answered

\* A change of one goroutine leaves the errors alone.
LEMMA SameErrors ==
  ASSUME NEW D, DlsOK(D), NEW k, NEW d, NEW E, SetDl(E, D, k, d)
  PROVE  E.errors = D.errors /\ E.lastErr = D.lastErr /\ E.waiters = D.waiters
  <1>1. D = [open |-> D.open, list |-> D.list, waiters |-> D.waiters, errors |-> D.errors,
             lastErr |-> D.lastErr, dl |-> D.dl]
    BY DEF DlsOK
  <1>2. QED
    BY <1>1 DEF SetDl

\* What a downloader writes it marks.
LEMMA PartsAnswer ==
  ASSUME DownInv, HoleInv, NEW k \in DOMAIN dls.dl, NEW n \in Nat, NEW d,
         WriteParts(dls.dl[k].offset, n), SetDl(dls', dls, k, d), UNCHANGED <<reads, write, close>>
  PROVE  HoleInv'
  <1>1. /\ item \in Item1 /\ Canonical(item.rs) /\ held \subseteq Nat /\ DlsOK(dls)
        /\ held \ Bytes(write) \subseteq Positions(item.rs) /\ Backed(item, held, write) /\ Blamed(dls)
        /\ close.pc # "open" => write = Empty
    BY DEF DownInv, ItemOK, HoleInv
  <1>2. dls.dl[k].offset \in Nat
    BY DlFields DEF GoodDl, Dl1
  <1>3. /\ item' \in Item1 /\ SameFile(item, item')
        /\ held \subseteq held' /\ \A y \in Positions(item'.rs) : y \in Positions(item.rs) \/ y \in held'
    BY <1>1, <1>2, WritePartsExact
  <1>4. item.length \in Nat /\ item'.length \in Nat /\ item.kept \in Nat
    BY <1>1, <1>3 DEF Item1
  <1>5. /\ item.kept <= Size /\ item.kept <= item.size /\ item.kept <= item.length
        /\ Positions(item.rs) \cap 0 .. item.kept - 1 \subseteq held
        /\ Bytes(write) \cap 0 .. item.kept - 1 \subseteq held
    BY <1>1 DEF Backed
  <1>6. item'.size = item.size /\ item'.kept = item.kept /\ item.length <= item'.length
    BY <1>3 DEF SameFile
  <1>7. item'.kept <= Size /\ item'.kept <= item'.size /\ item'.kept <= item'.length
    BY <1>4, <1>5, <1>6
  <1>8. Backed(item', held', write')
    BY <1>3, <1>5, <1>6, <1>7 DEF Backed
  <1>9. \A p \in Thread : Answered(reads'[p], 0 .. item'.kept - 1, held')
    BY <1>1, <1>3, <1>4, <1>6, AllAnsweredStill
  <1>10. Blamed(dls')
    BY <1>1, SameErrors DEF Blamed
  <1>11. QED
    BY <1>1, <1>8, <1>9, <1>10 DEF HoleInv

LEMMA WriteAnswers ==
  ASSUME DownInv, HoleInv, NEW k \in DOMAIN dls.dl, Write(k) \/ WriteFails(k)
  PROVE  HoleInv'
  <1>1. PICK n \in Nat : /\ WriteParts(dls.dl[k].offset, n) /\ \E d : SetDl(dls', dls, k, d)
                         /\ UNCHANGED <<reads, write, close>>
    <2>1. CASE Write(k)
      <3>1. PICK n \in 1 .. Chunk : /\ WriteParts(dls.dl[k].offset, n)
                                    /\ dls' = [dls EXCEPT !.dl[k] = Wrote(dls.dl[k], n)]
                                    /\ UNCHANGED <<reads, write, close>>
        BY <2>1 DEF Write
      <3>2. n \in Nat /\ SetDl(dls', dls, k, Wrote(dls.dl[k], n))
        BY <3>1, DownloadersAssumption DEF SetDl
      <3>3. QED
        BY <3>1, <3>2
    <2>2. CASE WriteFails(k)
      <3>1. PICK n \in 0 .. Chunk - 1, err \in {"none", "io", "nospace"} :
              /\ WriteParts(dls.dl[k].offset, n)
              /\ dls' = [dls EXCEPT !.dl[k] = WroteBefore(dls.dl[k], n, err)]
              /\ UNCHANGED <<reads, write, close>>
        BY <2>2 DEF WriteFails
      <3>2. n \in Nat /\ SetDl(dls', dls, k, WroteBefore(dls.dl[k], n, err))
        BY <3>1, DownloadersAssumption DEF SetDl
      <3>3. QED
        BY <3>1, <3>2
    <2>3. QED
      BY <2>1, <2>2
  <1>2. QED
    BY <1>1, PartsAnswer

LEMMA StreamEndsAnswers ==
  ASSUME DownInv, HoleInv, NEW k \in DOMAIN dls.dl, NEW err, StreamEnds(k, err)
  PROVE  HoleInv'
  <1>1. /\ dls' = [dls EXCEPT !.dl[k].pc = "end", !.dl[k].err = err]
        /\ UNCHANGED <<item, held, reads, write, close>>
    BY DEF StreamEnds
  <1>2. dls = [open |-> dls.open, list |-> dls.list, waiters |-> dls.waiters, errors |-> dls.errors,
               lastErr |-> dls.lastErr, dl |-> dls.dl]
    BY DEF DownInv, DlsOK
  <1>3. dls'.errors = dls.errors /\ dls'.lastErr = dls.lastErr
    BY <1>1, <1>2
  <1>4. QED
    BY <1>1, <1>3, OnlyDl

LEMMA KicksAnswer ==
  ASSUME DownInv, HoleInv, NEW k \in DOMAIN dls.dl, Kick(k) \/ LastKick(k)
  PROVE  HoleInv'
  <1>1. PICK D : Kicked(D) /\ ((dls' = D /\ UNCHANGED reads) \/ KickWaiters(D))
    BY KickFrom, LastKickFrom
  <1>2. UNCHANGED <<item, held, write, close>> /\ ReadsOK(reads, D.waiters) /\ DlsOK(D) /\ Blamed(D)
    BY <1>1 DEF Kick, LastKick, DownInv, Kicked, HoleInv, Blamed
  <1>3. CASE dls' = D /\ UNCHANGED reads
    BY <1>1, <1>2, <1>3, OnlyDl DEF Kicked
  <1>4. CASE KickWaiters(D)
    BY <1>2, <1>4, KickAnswers
  <1>5. QED
    BY <1>1, <1>3, <1>4

LEMMA BackgroundKickAnswers ==
  ASSUME DownInv, HoleInv, BackgroundKick
  PROVE  HoleInv'
  <1>1. KickWaiters(dls) /\ UNCHANGED <<item, held, write, close>>
    BY DEF BackgroundKick
  <1>2. QED
    BY <1>1, KickAnswers DEF DownInv, HoleInv

\* An error is counted and kept, and a success forgets both.
LEMMA CountErrorsAnswers ==
  ASSUME DownInv, HoleInv, NEW k \in DOMAIN dls.dl, CloseDownloader(k) \/ CountErrors(k)
  PROVE  HoleInv'
  <1>1. UNCHANGED <<item, held, reads, write, close>>
    BY DEF CloseDownloader, CountErrors
  <1>2. Blamed(dls')
    BY CloseDownloaderKeeps, CountErrorsKeeps DEF HoleInv, Blamed
  <1>3. QED
    BY <1>1, <1>2 DEF HoleInv, Backed, Answered

\* A step of one thread.
LEMMA OneAnswered ==
  ASSUME DownInv, HoleInv, NEW p \in Thread, NEW x, reads' = [reads EXCEPT ![p] = x],
         Answered(x, 0 .. item.kept - 1, held), Blamed(dls'), UNCHANGED <<item, held, write, close>>
  PROVE  HoleInv'
  <1>1. /\ Backed(item, held, write) /\ (close.pc # "open" => write = Empty)
        /\ \A q \in Thread : Answered(reads[q], 0 .. item.kept - 1, held)
    BY DEF HoleInv
  <1>2. \A q \in Thread : reads'[q] = IF q = p THEN x ELSE reads[q]
    BY DEF DownInv, ReadsOK
  <1>3. \A q \in Thread : Answered(reads'[q], 0 .. item.kept - 1, held)
    BY <1>1, <1>2
  <1>4. QED
    BY <1>1, <1>3 DEF HoleInv

\* The read asks for no less than what is due of it, and what is present of that
\* is there.
LEMMA CallAnswers ==
  ASSUME DownInv, HoleInv, NEW p \in Reader, NEW ask \in Range0, NEW tries \in Nat, Call(p, ask, tries),
         UNCHANGED <<item, held, dls, write, close>>
  PROVE  HoleInv'
  <1> DEFINE r == Needed(ask)
             due == 0 .. item.kept - 1
             pc == IF ~item.fd THEN "failed" ELSE IF IsEmpty(r) THEN "read" ELSE "ensure"
             present == Present(item.rs, r)
             err == IF item.fd THEN "none" ELSE "io"
             x == [pc |-> pc, ask |-> ask, r |-> r, present |-> present, tries |-> tries, err |-> err]
  <1>1. /\ item \in Item1 /\ Canonical(item.rs) /\ Backed(item, held, write) /\ Blamed(dls)
    BY DEF DownInv, ItemOK, HoleInv
  <1>2. /\ ask.pos \in Nat /\ ask.size \in Nat /\ item.size \in Nat /\ Size \in Nat /\ item.kept \in Nat
        /\ item.kept <= item.size /\ item.kept <= Size /\ item.rs \in Seq(Range1)
        /\ Positions(item.rs) \cap due \subseteq held
    BY <1>1, DownloadersAssumption DEF Item1, Range0, Backed
  <1>3. /\ r.pos = ask.pos /\ r = [pos |-> r.pos, size |-> r.size]
        /\ r.size = Smaller(Smaller(ask.size, item.size - ask.pos), Size - ask.pos)
    BY DEF Needed, Span
  <1>4. reads' = [reads EXCEPT ![p] = x] /\ p \in Thread
    BY DEF Call, Thread
  <1> HIDE DEF r
  <1>5. Bytes(ask) \cap due \subseteq Bytes(r)
    BY <1>2, <1>3 DEF Smaller, Bytes, End
  <1>6. r.size \in Int
    BY <1>2, <1>3 DEF Smaller
  <1>7. IsEmpty(r) => Bytes(r) = {}
    BY <1>2, <1>3, <1>6 DEF IsEmpty, Bytes, End
  <1>8. ASSUME ~IsEmpty(r), present PROVE Bytes(r) \cap due \subseteq held
    <2>1. r \in Range0
      BY <1>2, <1>3, <1>6, <1>8 DEF Range0, IsEmpty
    <2>2. Bytes(r) \subseteq Positions(item.rs)
      BY <2>1, <1>1, <1>2, <1>8, QueryBytes
    <2>3. QED
      BY <2>2, <1>2
  <1>9. /\ pc = "read" => IsEmpty(r)
        /\ pc = "ensure" => ~IsEmpty(r)
        /\ pc # "waiting"
    OBVIOUS
  <1> HIDE DEF pc, present, err, due
  <1>10. x.pc = pc /\ x.ask = ask /\ x.r = r /\ x.present = present
    OBVIOUS
  <1> HIDE DEF x
  <1>11. Answered(x, due, held)
    BY <1>5, <1>7, <1>8, <1>9, <1>10 DEF Answered
  <1>12. QED
    BY <1>1, <1>4, <1>11, OneAnswered DEF due

LEMMA ReadsAnswer ==
  ASSUME DownInv, HoleInv, NEW p \in Reader, ReadAt(p) \/ Retry(p) \/ ReadEnd(p)
  PROVE  HoleInv'
  <1>1. CASE ReadAt(p)
    <2>1. PICK ask \in Asks[p] : Call(p, ask, 1)
      BY <1>1 DEF ReadAt
    <2>2. ask \in Range0 /\ UNCHANGED <<item, held, dls, write, close>>
      BY <1>1, DownloadersAssumption DEF Range0, ReadAt
    <2>3. QED
      BY <2>1, <2>2, CallAnswers
  <1>2. CASE Retry(p)
    <2>1. reads[p] \in Read1
      BY DEF DownInv, ReadsOK, Thread
    <2>2. reads[p].ask \in Range0 /\ reads[p].tries + 1 \in Nat
      BY <2>1 DEF Read1
    <2>3. Call(p, reads[p].ask, reads[p].tries + 1) /\ UNCHANGED <<item, held, dls, write, close>>
      BY <1>2 DEF Retry
    <2>4. QED
      BY <2>2, <2>3, CallAnswers
  <1>3. CASE ReadEnd(p)
    <2> DEFINE x == IF reads[p].err = "nospace" /\ reads[p].tries < Retries
                    THEN [reads[p] EXCEPT !.pc = "retry"] ELSE Idle
    <2>1. reads' = [reads EXCEPT ![p] = x] /\ UNCHANGED <<item, held, dls, write, close>> /\ p \in Thread
      BY <1>3 DEF ReadEnd, Thread
    <2>2. reads[p] \in Read1
      BY <2>1 DEF DownInv, ReadsOK
    <2>3. x.pc \in {"retry", "idle"}
      BY <2>2, IdleFacts DEF Read1
    <2> HIDE DEF x
    <2>4. Answered(x, 0 .. item.kept - 1, held)
      BY <2>3 DEF Answered
    <2>5. QED
      BY <2>1, <2>4, OneAnswered DEF HoleInv
  <1>4. QED
    BY <1>1, <1>2, <1>3

LEMMA EnsureAnswers ==
  ASSUME DownInv, HoleInv, NEW p \in Thread, Ensure(p)
  PROVE  HoleInv'
  <1> DEFINE D == EnsureDownloader(dls, reads[p].r)
             due == 0 .. item.kept - 1
  <1>1. /\ ItemOK(item, held, write) /\ DlsOK(dls) /\ ReadsOK(reads, dls.waiters)
        /\ Blamed(dls) /\ Answered(reads[p], due, held)
    BY DEF DownInv, HoleInv
  <1>2. /\ reads[p].pc = "ensure" /\ Ensured(p, D) /\ UNCHANGED <<item, held, write, close>>
    BY DEF Ensure
  <1>3. reads[p].r \in Range0 /\ reads[p] \in Read1 /\ reads \in [Thread -> Read1]
    BY <1>1, <1>2, WaitingRange DEF ReadsOK
  <1>4. DlsOK(D) /\ D.errors = dls.errors /\ D.lastErr = dls.lastErr
    BY <1>1, <1>3, EnsureDownloaderTyped DEF ItemOK, Kept
  <1> HIDE DEF D, due
  <1>5. CASE reads[p].present
    <2>1. dls' = D /\ reads' = [reads EXCEPT ![p] = Told(p, "none")]
      BY <1>2, <1>5 DEF Ensured
    <2>2. Told(p, "none").ask = reads[p].ask /\ Told(p, "none").pc = "read"
      <3>1. "none" \in Err1
        BY DEF Err1
      <3>2. QED
        BY <3>1, <1>3, ToldFields
    <2>3. Answered(Told(p, "none"), due, held)
      BY <2>2, <1>1, <1>2, <1>5 DEF Answered
    <2>4. Blamed(dls')
      BY <2>1, <1>1, <1>4 DEF Blamed
    <2>5. QED
      BY <2>1, <2>3, <2>4, <1>2, OneAnswered DEF due
  <1>6. CASE ~reads[p].present
    <2> DEFINE x == [reads[p] EXCEPT !.pc = "waiting"]
               w == Append(D.waiters, p)
    <2>1. dls' = [D EXCEPT !.waiters = w] /\ reads' = [reads EXCEPT ![p] = x]
      BY <1>2, <1>6 DEF Ensured
    <2>2. x.pc = "waiting" /\ x.r = reads[p].r /\ x.ask = reads[p].ask
      BY <1>3 DEF Read1
    <2> HIDE DEF x
    <2>3. Answered(x, due, held)
      BY <2>2, <1>1, <1>2 DEF Answered
    <2>4. Blamed(dls')
      <3>1. w \in Seq(Thread)
        BY <1>4 DEF DlsOK
      <3> HIDE DEF w
      <3>2. dls'.errors = D.errors /\ dls'.lastErr = D.lastErr
        BY <3>1, <2>1, <1>4, DlsWaiters
      <3>3. QED
        BY <3>2, <1>1, <1>4 DEF Blamed
    <2>5. QED
      BY <2>1, <2>3, <2>4, <1>2, OneAnswered DEF due
  <1>7. QED
    BY <1>5, <1>6

\* The file changes and nothing else does.
LEMMA FileAnswers ==
  ASSUME DownInv, DownInv', HoleInv, Backed(item', held', write'), item'.kept <= item.kept,
         held \cap 0 .. item'.kept - 1 \subseteq held', close.pc # "open" => write' = Empty,
         UNCHANGED <<reads, dls, close>>
  PROVE  HoleInv'
  <1>1. item \in Item1 /\ item' \in Item1
    BY DEF DownInv, ItemOK
  <1>2. \A p \in Thread : Answered(reads'[p], 0 .. item'.kept - 1, held')
    BY <1>1, AllAnsweredStill
  <1>3. QED
    BY <1>2 DEF HoleInv, Blamed

LEMMA WriteAtAnswers ==
  ASSUME DownInv, DownInv', HoleInv, WriteAt
  PROVE  HoleInv'
  <1>1. PICK r \in Puts : /\ write' = r /\ held' = held \cup Bytes(r)
                          /\ item' = [item EXCEPT !.length = Larger(item.length, End(r))]
    BY DEF WriteAt
  <1>2. close.pc = "open" /\ UNCHANGED <<reads, dls, close>> /\ Backed(item, held, write) /\ item \in Item1
    BY DEF WriteAt, DownInv, ItemOK, HoleInv
  <1>3. r \in [pos : Nat, size : Nat \ {0}]
    BY DownloadersAssumption
  <1>4. item.length \in Nat /\ End(r) \in Nat /\ item.kept \in Nat
    BY <1>2, <1>3 DEF Item1, End
  <1>5. item.length <= Larger(item.length, End(r)) /\ Larger(item.length, End(r)) \in Nat
    BY <1>4 DEF Larger
  <1>6. /\ item'.rs = item.rs /\ item'.kept = item.kept /\ item'.size = item.size
        /\ item'.length = Larger(item.length, End(r))
    BY <1>1, <1>2 DEF Item1
  <1>7. item'.kept <= item'.length
    BY <1>2, <1>4, <1>5, <1>6 DEF Backed
  <1>8. Backed(item', held', write')
    BY <1>1, <1>2, <1>6, <1>7 DEF Backed
  <1>9. item'.kept <= item.kept
    BY <1>4, <1>6
  <1>10. QED
    BY <1>1, <1>2, <1>8, <1>9, FileAnswers

\* What is marked of what is due is there.
LEMMA MarksAnswer ==
  ASSUME DownInv, DownInv', HoleInv, NEW old, NEW there, MarksForm(old, there),
         old \cap 0 .. item.kept - 1 \subseteq held, write' \in {write, Empty},
         UNCHANGED <<reads, dls, close>>
  PROVE  HoleInv'
  <1> DEFINE due == 0 .. item.kept - 1
  <1>1. Backed(item, held, write) /\ (close.pc # "open" => write = Empty)
    BY DEF HoleInv
  <1>2. item \in Item1 /\ item' \in Item1
    BY DEF DownInv, ItemOK
  <1>3. /\ item.size \in Nat /\ item'.size \in Nat /\ item.kept \in Nat /\ Size \in Nat /\ item.length \in Nat
    BY <1>2, DownloadersAssumption DEF Item1
  <1>4. /\ item.kept <= Size /\ item.kept <= item.size /\ item.kept <= item.length
        /\ Bytes(write) \cap due \subseteq held
    BY <1>1 DEF Backed
  <1>5. /\ item'.kept = item.kept /\ item'.length = item.length /\ item.size <= item'.size
        /\ held' = held \cup there /\ Positions(item'.rs) \subseteq old \cup there
    BY DEF MarksForm
  <1>6. item'.kept <= Size /\ item'.kept <= item'.size /\ item'.kept <= item'.length /\ item'.kept <= item.kept
    BY <1>3, <1>4, <1>5
  <1> HIDE DEF due
  <1>7. Positions(item'.rs) \cap due \subseteq held' /\ Bytes(write') \cap due \subseteq held'
    BY <1>4, <1>5, EmptyFacts DEF due
  <1>8. Backed(item', held', write')
    BY <1>5, <1>6, <1>7 DEF Backed, due
  <1>9. held \cap 0 .. item'.kept - 1 \subseteq held' /\ (close.pc # "open" => write' = Empty)
    BY <1>1, <1>5
  <1>10. QED
    BY <1>6, <1>8, <1>9, FileAnswers

LEMMA WriteMarksAnswers ==
  ASSUME DownInv, DownInv', HoleInv, WriteMarks
  PROVE  HoleInv'
  <1>1. PICK there : MarksForm(Positions(item.rs) \cup Bytes(write), there)
    BY WriteMarksForm
  <1>2. (Positions(item.rs) \cup Bytes(write)) \cap 0 .. item.kept - 1 \subseteq held
    BY DEF HoleInv, Backed
  <1>3. write' = Empty /\ UNCHANGED <<reads, dls, close>>
    BY DEF WriteMarks
  <1>4. QED
    BY <1>1, <1>2, <1>3, MarksAnswer

LEMMA WriteExtendsAnswers ==
  ASSUME DownInv, DownInv', HoleInv, WriteExtends
  PROVE  HoleInv'
  <1>1. PICK there : MarksForm(Positions(item.rs), there)
    BY WriteExtendsForm
  <1>2. Positions(item.rs) \cap 0 .. item.kept - 1 \subseteq held
    BY DEF HoleInv, Backed
  <1>3. write' = write /\ UNCHANGED <<reads, dls, close>>
    BY DEF WriteExtends
  <1>4. QED
    BY <1>1, <1>2, <1>3, MarksAnswer

\* What Truncate marks lies beyond the old end, and less is due.
LEMMA TruncateAnswers ==
  ASSUME DownInv, DownInv', HoleInv, Truncate
  PROVE  HoleInv'
  <1>1. ItemOK(item, held, write) /\ Backed(item, held, write)
    BY DEF DownInv, HoleInv
  <1>2. /\ item \in Item1 /\ held \subseteq Nat /\ item.rs \in Seq(Range1) /\ Canonical(item.rs)
        /\ item.length \in Nat /\ item.kept \in Nat /\ Size \in Nat
    BY <1>1, DownloadersAssumption DEF ItemOK, Item1
  <1>3. PICK size \in Cuts :
          /\ item' = [item EXCEPT !.size = size, !.length = size, !.kept = Smaller(item.kept, size),
                        !.dirty = item.dirty \/ size # item.length,
                        !.rs = IF size > item.length THEN Insert(item.rs, Span(item.length, size))
                               ELSE IF size < item.length THEN Intersection(item.rs, Span(0, size))
                               ELSE item.rs]
          /\ held' = IF size > item.length THEN held \cup item.length .. size - 1 ELSE held \cap 0 .. size - 1
    BY Zenon DEF Truncate
  <1>4. close.pc = "open" /\ UNCHANGED <<reads, dls, write, close>> /\ size \in Nat
    BY DownloadersAssumption DEF Truncate
  <1> DEFINE rs == IF size > item.length THEN Insert(item.rs, Span(item.length, size))
                   ELSE IF size < item.length THEN Intersection(item.rs, Span(0, size))
                   ELSE item.rs
             dirty == item.dirty \/ size # item.length
             kept == Smaller(item.kept, size)
  <1>5. item' = [item EXCEPT !.size = size, !.length = size, !.kept = kept, !.dirty = dirty, !.rs = rs]
    BY <1>3, Zenon
  <1>6. \A y \in Positions(rs) : y < item.length => y \in Positions(item.rs)
    <2>1. ASSUME size > item.length PROVE Positions(rs) = Positions(item.rs) \cup Bytes(Span(item.length, size))
      <3> DEFINE s == Span(item.length, size)
      <3>1. s \in [pos : Nat, size : Int]
        BY <1>2, <1>4 DEF Span
      <3> HIDE DEF s
      <3>2. Positions(Insert(item.rs, s)) = Positions(item.rs) \cup Bytes(s)
        BY <3>1, <1>2, InsertExact
      <3>3. rs = Insert(item.rs, s)
        BY <2>1 DEF s
      <3> HIDE DEF rs
      <3>4. QED
        BY <3>2, <3>3 DEF s
    <2>2. ASSUME ~(size > item.length) PROVE Positions(rs) \subseteq Positions(item.rs)
      <3> DEFINE s == Span(0, size)
      <3>1. s \in [pos : Nat, size : Nat]
        BY <1>4 DEF Span
      <3> HIDE DEF s
      <3>2. Positions(Intersection(item.rs, s)) \subseteq Positions(item.rs)
        BY <3>1, <1>2, IntersectionExact
      <3>3. rs = Intersection(item.rs, s) \/ rs = item.rs
        BY <2>2 DEF s
      <3> HIDE DEF rs
      <3>4. QED
        BY <3>2, <3>3
    <2>3. \A y \in Bytes(Span(item.length, size)) : ~(y < item.length)
      <3> DEFINE s == Span(item.length, size)
      <3>1. s.pos = item.length /\ s.size = size
        BY DEF Span
      <3> HIDE DEF s
      <3>2. \A y \in Bytes(s) : ~(y < item.length)
        BY <3>1, <1>2, <1>4 DEF Bytes, End
      <3>3. QED
        BY <3>2 DEF s
    <2> HIDE DEF rs
    <2>4. QED
      BY <2>1, <2>2, <2>3
  <1>7. kept \in Nat /\ kept <= item.kept /\ kept <= size
    BY <1>2, <1>4 DEF Smaller
  <1> HIDE DEF rs, dirty, kept
  <1>8. item'.rs = rs /\ item'.kept = kept /\ item'.size = size /\ item'.length = size
    BY <1>2, <1>5 DEF Item1
  <1>9. /\ item.kept <= Size /\ item.kept <= item.length
        /\ Positions(item.rs) \cap 0 .. item.kept - 1 \subseteq held
        /\ Bytes(write) \cap 0 .. item.kept - 1 \subseteq held
    BY <1>1 DEF Backed
  <1>10. \A y \in 0 .. kept - 1 : y < size /\ y < item.length /\ y \in 0 .. item.kept - 1 /\ y \in 0 .. size - 1
    BY <1>2, <1>4, <1>7, <1>9
  <1>11. \A y \in held : y \in 0 .. kept - 1 => y \in held'
    BY <1>3, <1>10
  <1>12. \A y \in Positions(rs) : y \in 0 .. kept - 1 => y \in held'
    BY <1>6, <1>9, <1>10, <1>11
  <1>13. \A y \in Bytes(write) : y \in 0 .. kept - 1 => y \in held'
    BY <1>9, <1>10, <1>11
  <1>14. item'.kept <= Size /\ item'.kept <= item'.size /\ item'.kept <= item'.length /\ item'.kept <= item.kept
    BY <1>2, <1>4, <1>7, <1>8, <1>9
  <1>15. Backed(item', held', write')
    BY <1>4, <1>8, <1>12, <1>13, <1>14 DEF Backed
  <1>16. held \cap 0 .. item'.kept - 1 \subseteq held'
    BY <1>8, <1>11
  <1>17. QED
    BY <1>4, <1>14, <1>15, <1>16, FileAnswers

LEMMA ResetAnswers ==
  ASSUME DownInv, DownInv', HoleInv, Reset
  PROVE  HoleInv'
  <1>1. /\ write = Empty /\ item' = [item EXCEPT !.beingReset = TRUE]
        /\ UNCHANGED <<held, reads, dls, write>>
    BY DEF Reset, NotInUse, NoWrite
  <1>2. item \in Item1 /\ Backed(item, held, write) /\ Blamed(dls)
    BY DEF DownInv, ItemOK, HoleInv
  <1>3. /\ item'.rs = item.rs /\ item'.kept = item.kept /\ item'.size = item.size /\ item'.length = item.length
    BY <1>1, <1>2 DEF Item1
  <1>4. Backed(item', held', write')
    BY <1>1, <1>2, <1>3 DEF Backed
  <1>5. \A p \in Thread : Answered(reads'[p], 0 .. item'.kept - 1, held')
    BY <1>1, <1>3 DEF HoleInv
  <1>6. QED
    BY <1>1, <1>2, <1>4, <1>5 DEF HoleInv

LEMMA CloseAnswers ==
  ASSUME DownInv, HoleInv, Close
  PROVE  HoleInv'
  <1> DEFINE r == Span(0, Smaller(item.length, Size))
             present == Present(item.rs, r)
             x == [Idle EXCEPT !.pc = "ensure", !.ask = r, !.r = r, !.present = present]
             due == 0 .. item.kept - 1
  <1>1. /\ ItemOK(item, held, write) /\ Backed(item, held, write) /\ Blamed(dls)
        /\ reads \in [Thread -> Read1] /\ \A p \in Thread : Answered(reads[p], due, held)
    BY DEF DownInv, HoleInv, ReadsOK
  <1>2. /\ write = Empty /\ item' = [item EXCEPT !.size = item.length] /\ UNCHANGED <<held, dls, write>>
        /\ reads' = [reads EXCEPT ![Closer] = x] \/ reads' = reads
    BY DEF Close, NoWrite
  <1>3. /\ item \in Item1 /\ item.rs \in Seq(Range1) /\ Canonical(item.rs)
        /\ item.length \in Nat /\ Size \in Nat /\ Closer \in Thread
    BY <1>1, DownloadersAssumption DEF ItemOK, Item1, Thread
  <1>4. item'.rs = item.rs /\ item'.kept = item.kept /\ item'.size = item.length /\ item'.length = item.length
    BY <1>2, <1>3 DEF Item1
  <1>5. Backed(item', held', write')
    BY <1>1, <1>2, <1>4 DEF Backed
  <1>6. Answered(x, due, held)
    <2>1. r \in Range0
      BY <1>3 DEF Span, Range0, Smaller
    <2>2. present => Bytes(r) \subseteq Positions(item.rs)
      BY <2>1, <1>3, QueryBytes
    <2> HIDE DEF r, present
    <2>3. x.pc = "ensure" /\ x.r = r /\ x.ask = r /\ x.present = present
      BY IdleFacts DEF Read1
    <2> HIDE DEF x
    <2>4. Positions(item.rs) \cap due \subseteq held
      BY <1>1 DEF Backed
    <2> HIDE DEF due
    <2>5. QED
      BY <2>2, <2>3, <2>4 DEF Answered
  <1> HIDE DEF x
  <1>7. \A p \in Thread : reads'[p] = reads[p] \/ reads'[p] = x
    BY <1>1, <1>2
  <1>8. \A p \in Thread : Answered(reads'[p], 0 .. item'.kept - 1, held')
    BY <1>1, <1>2, <1>4, <1>6, <1>7
  <1>9. QED
    BY <1>1, <1>2, <1>5, <1>8 DEF HoleInv

\* The steps of Close that leave the file alone.
LEMMA ClosingAnswers ==
  ASSUME DownInv, HoleInv, CloseFetched \/ StopNext \/ Join
  PROVE  HoleInv'
  <1> DEFINE due == 0 .. item.kept - 1
  <1>1. /\ Backed(item, held, write) /\ Blamed(dls) /\ (close.pc # "open" => write = Empty) /\ DlsOK(dls)
        /\ reads \in [Thread -> Read1] /\ \A p \in Thread : Answered(reads[p], due, held)
    BY DEF DownInv, HoleInv, ReadsOK
  <1>2. close.pc # "open" /\ UNCHANGED <<item, held, write>>
    BY DEF CloseFetched, StopNext, Join
  <1>3. \A p \in Thread : reads'[p] = reads[p] \/ reads'[p] = Idle
    BY <1>1 DEF CloseFetched, StopNext, Join
  <1>4. Answered(Idle, due, held)
    BY IdleFacts DEF Answered
  <1>5. Blamed(dls')
    <2> DEFINE k == Head(close.todo)
    <2>1. dls' = dls \/ dls' = [dls EXCEPT !.dl[k].stop = TRUE]
      BY DEF CloseFetched, StopNext, Join
    <2>2. dls = [open |-> dls.open, list |-> dls.list, waiters |-> dls.waiters, errors |-> dls.errors,
                 lastErr |-> dls.lastErr, dl |-> dls.dl]
      BY <1>1 DEF DlsOK
    <2>3. dls'.errors = dls.errors /\ dls'.lastErr = dls.lastErr
      BY <2>1, <2>2
    <2>4. QED
      BY <2>3, <1>1 DEF Blamed
  <1> HIDE DEF due
  <1>6. \A p \in Thread : Answered(reads'[p], due, held)
    BY <1>1, <1>3, <1>4
  <1>7. QED
    BY <1>1, <1>2, <1>5, <1>6 DEF HoleInv, due

\* When the downloaders are closed nobody reads: the file can be replaced.
LEMMA ClosedAnswers ==
  ASSUME DownInv, HoleInv, CloseEnd \/ ResetEnd \/ ResetFails
  PROVE  HoleInv'
  <1>1. /\ ItemOK(item, held, write) /\ Backed(item, held, write) /\ (close.pc # "open" => write = Empty)
        /\ close \in Close1 /\ Quiet(close, reads, item.beingReset)
    BY DEF DownInv, HoleInv
  <1>2. Stopped /\ ReturnWaiters /\ UNCHANGED write /\ close.pc = "stop"
    BY DEF CloseEnd, ResetEnd, ResetFails, Stopped
  <1>3. reads' = reads
    BY <1>2, StoppedFacts
  <1>4. \A p \in Thread : reads[p].pc \in {"idle", "retry"}
    BY <1>1, <1>2 DEF Quiet, Thread, Close1
  <1>5. \A p \in Thread : Answered(reads'[p], 0 .. item'.kept - 1, held')
    BY <1>3, <1>4 DEF Answered
  <1>6. dls'.errors = 0
    <2>1. PICK open : dls' = New(open, Left)
      BY DEF CloseEnd, ResetEnd, ResetFails
    <2>2. QED
      BY <2>1 DEF New
  <1>7. write' = Empty
    BY <1>1, <1>2
  <1>8. Backed(item', held', write')
    <2>1. CASE CloseEnd
      <3>1. item' = [item EXCEPT !.fd = FALSE] /\ UNCHANGED held /\ item \in Item1
        BY <2>1, <1>1 DEF CloseEnd, ItemOK
      <3>2. /\ item'.rs = item.rs /\ item'.kept = item.kept /\ item'.size = item.size
            /\ item'.length = item.length
        BY <3>1 DEF Item1
      <3>3. QED
        BY <3>1, <3>2, <1>1, <1>2 DEF Backed
    <2>2. CASE ResetEnd \/ ResetFails
      <3>1. /\ item'.rs = <<>> /\ item'.size = Size
            /\ \/ item'.kept = Size /\ item'.length = Size
               \/ item'.kept = 0 /\ item'.length = 0
        <4>1. CASE ResetEnd
          BY <4>1 DEF ResetEnd, NewItem
        <4>2. CASE ResetFails
          <5>1. PICK retry \in BOOLEAN :
                  item' = [NewItem EXCEPT !.length = 0, !.kept = 0, !.beingReset = retry, !.fd = FALSE]
            BY <4>2 DEF ResetFails
          <5>2. QED
            BY <5>1 DEF NewItem
        <4>3. QED
          BY <2>2, <4>1, <4>2
      <3>2. Positions(<<>>) = {} /\ Bytes(Empty) = {}
        BY EmptyFacts DEF Positions
      <3>3. Size \in Nat
        BY DownloadersAssumption
      <3>4. QED
        BY <3>1, <3>2, <3>3, <1>7 DEF Backed
    <2>3. QED
      BY <2>1, <2>2
  <1>9. QED
    BY <1>5, <1>6, <1>7, <1>8 DEF HoleInv, Blamed

LEMMA HoleInitially ==
  Init => HoleInv
  <1> SUFFICES ASSUME Init PROVE HoleInv
    OBVIOUS
  <1>1. /\ item.rs = <<>> /\ item.size = Size /\ item.kept = Size /\ item.length = Size
        /\ held = {} /\ write = Empty /\ reads = [p \in Thread |-> Idle] /\ close.pc = "open"
    BY DEF Init, NewItem
  <1>2. Positions(<<>>) = {} /\ Bytes(Empty) = {}
    BY EmptyFacts DEF Positions
  <1>3. Size \in Nat
    BY DownloadersAssumption
  <1>4. Backed(item, held, write)
    BY <1>1, <1>2, <1>3 DEF Backed
  <1>5. \A p \in Thread : Answered(reads[p], 0 .. item.kept - 1, held)
    BY <1>1, IdleFacts DEF Answered
  <1>6. dls.errors = 0
    BY DEF Init, New
  <1>7. QED
    BY <1>1, <1>4, <1>5, <1>6 DEF HoleInv, Blamed

LEMMA HoleStep ==
  DownInv /\ DownInv' /\ HoleInv /\ [Next]_vars => HoleInv'
  <1> SUFFICES ASSUME DownInv, DownInv', HoleInv, [Next]_vars PROVE HoleInv'
    OBVIOUS
  <1>1. CASE UNCHANGED vars
    <2>1. dls' = dls /\ UNCHANGED <<item, held, reads, write, close>>
      BY <1>1 DEF vars
    <2>2. QED
      BY <2>1, OnlyDl
  <1>2. ASSUME NEW k \in DOMAIN dls.dl, Runs(k) \/ Breaks(k) PROVE HoleInv'
    <2>1. CASE SourceEnds(k) \/ SourceFails(k) \/ SourceShort(k)
      <3>1. StreamEnds(k, "none") \/ StreamEnds(k, "io")
        BY <2>1 DEF SourceEnds, SourceFails, SourceShort
      <3>2. QED
        BY <3>1, StreamEndsAnswers
    <2>2. CASE Write(k) \/ WriteFails(k)
      BY <2>2, WriteAnswers
    <2>3. CASE Kick(k) \/ LastKick(k)
      BY <2>3, KicksAnswer
    <2>4. CASE CloseDownloader(k) \/ CountErrors(k)
      BY <2>4, CountErrorsAnswers
    <2>5. QED
      BY <1>2, <2>1, <2>2, <2>3, <2>4 DEF Runs, Breaks
  <1>3. ASSUME NEW p \in Reader, ReadAt(p) \/ Ensure(p) \/ ReadEnd(p) \/ Retry(p) PROVE HoleInv'
    <2>1. p \in Thread
      BY DEF Thread
    <2>2. QED
      BY <1>3, <2>1, ReadsAnswer, EnsureAnswers
  <1>4. CASE Ensure(Closer)
    <2>1. Closer \in Thread
      BY DEF Thread
    <2>2. QED
      BY <1>4, <2>1, EnsureAnswers
  <1>5. CASE BackgroundKick \/ WriteAt \/ WriteMarks \/ WriteExtends \/ Truncate \/ Reset \/ Close
    BY <1>5, BackgroundKickAnswers, WriteAtAnswers, WriteMarksAnswers, WriteExtendsAnswers, TruncateAnswers, ResetAnswers, CloseAnswers
  <1>6. CASE Closes \/ ResetFails
    BY <1>6, ClosingAnswers, ClosedAnswers DEF Closes
  <1>7. QED
    BY <1>1, <1>2, <1>3, <1>4, <1>5, <1>6 DEF Next

\* A read that was told that its bytes are in the cache file finds all of them
\* that the remote object still has to give, for every interleaving of reads,
\* downloads that fail, writes, truncates, the cleaner's Reset and Close: the
\* answer of _ensure (item.go) stays true until the cache file is read, and
\* neither a file that shrank and grew, nor a failed download, nor the end of the
\* downloaders makes a waiter believe otherwise.
THEOREM ReadsFindTheirBytes ==
  Spec => []ReadsNoHole
  <1>1. HoleInv => ReadsNoHole
    BY DEF HoleInv, Backed, Answered, ReadsNoHole
  <1>2. Spec => []HoleInv
    BY DownAlways, HoleInitially, HoleStep, PTL DEF Spec
  <1>3. QED
    BY <1>1, <1>2, PTL

=============================================================================
