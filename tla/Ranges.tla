------------------------------- MODULE Ranges -------------------------------
(***************************************************************************)
(* The byte ranges of a file that are present in the cache                 *)
(* (lib/ranges/ranges.go): a sequence of ranges, sorted and coalesced.     *)
(***************************************************************************)
EXTENDS Integers, Sequences, FiniteSets

SeqExt == INSTANCE SequencesExt

Span(pos, size) == [pos |-> pos, size |-> size]
End(r) == r.pos + r.size
IsEmpty(r) == r.size <= 0

\* What of r lies before offset.
Clip(r, offset) ==
  IF End(r) <= offset THEN r
  ELSE IF offset < r.pos THEN Span(0, 0)
  ELSE Span(r.pos, offset - r.pos)

Larger(a, b) == IF a > b THEN a ELSE b
Smaller(a, b) == IF a < b THEN a ELSE b

Intersect(r, b) ==
  IF \/ r.pos >= b.pos /\ r.pos < End(b)
     \/ b.pos >= r.pos /\ b.pos < End(r)
  THEN Span(Larger(r.pos, b.pos), Smaller(End(r), End(b)) - Larger(r.pos, b.pos))
  ELSE Span(0, 0)

\* Mutant: ranges that only touch are kept apart.
TouchesStrictly(new, dst) == End(new) > dst.pos

\* merge succeeds when new, which starts first, reaches dst.
Touches(new, dst) == End(new) >= dst.pos

Merged(new, dst) == Span(new.pos, Larger(End(new), End(dst)) - new.pos)

\* r, the next range, is merged with the last of s if that reaches it.
Absorb(s, r) ==
  IF Touches(SeqExt!Last(s), r)
  THEN Append(SeqExt!Front(s), Merged(SeqExt!Last(s), r))
  ELSE Append(s, r)

AbsorbAll(s, t) == SeqExt!FoldLeft(Absorb, s, t)

\* coalesce: element i was inserted or has grown; merge it with the one before
\* and with those after it that it reaches.
Coalesce(rs, i) ==
  LET back == i > 1 /\ Touches(rs[i - 1], rs[i])
      kept == SubSeq(rs, 1, IF back THEN i - 2 ELSE i - 1)
      this == IF back THEN Merged(rs[i - 1], rs[i]) ELSE rs[i]
  IN AbsorbAll(Append(kept, this), SubSeq(rs, i + 1, Len(rs)))

\* search: the first range that starts at r.pos or later.
Search(rs, r) == 1 + Cardinality({i \in DOMAIN rs : rs[i].pos < r.pos})

Insert(rs, r) ==
  LET i == Search(rs, r)
  IN IF IsEmpty(r) THEN rs
     ELSE IF i <= Len(rs) /\ Touches(r, rs[i])
     THEN Coalesce([rs EXCEPT ![i] = Merged(r, rs[i])], i)
     ELSE Coalesce(SubSeq(rs, 1, i - 1) \o <<r>> \o SubSeq(rs, i, Len(rs)), i)

\* What r has in common with the i-th range, if there is one.
Common(rs, i, r) == IF i \in DOMAIN rs THEN Intersect(rs[i], r) ELSE Span(0, 0)

Found(r, part, present) ==
  [curr |-> part, next |-> Span(End(part), r.size - part.size), present |-> present]

Absent(r) == [curr |-> r, next |-> Span(0, 0), present |-> FALSE]

\* Find, given what r has in common with the ranges before and after its start.
FirstPart(r, before, after) ==
  IF IsEmpty(r) THEN Absent(r)
  ELSE IF ~IsEmpty(before) THEN Found(r, before, TRUE)
  ELSE IF IsEmpty(after) THEN Absent(r)
  ELSE IF r.pos < after.pos THEN Found(r, Span(r.pos, after.pos - r.pos), FALSE)
  ELSE Found(r, after, TRUE)

\* Find: the first part of r, wholly present or wholly absent, and what is left.
Find(rs, r) ==
  LET i == Search(rs, r) IN FirstPart(r, Common(rs, i - 1, r), Common(rs, i, r))

\* One more part of what is left of the range.
NextPart(rs, acc) ==
  LET f == Find(rs, acc.rest)
  IN IF IsEmpty(acc.rest) THEN acc
     ELSE [rest |-> f.next, parts |-> Append(acc.parts, [r |-> f.curr, present |-> f.present])]

NextParts(rs, acc, steps) == SeqExt!FoldLeft(LAMBDA a, n : NextPart(rs, a), acc, steps)

\* FindAll: the parts of r in order.  There are at most twice as many, plus
\* one, as there are ranges.
FindAll(rs, r) ==
  NextParts(rs, [rest |-> r, parts |-> <<>>], [n \in 1 .. 2 * Len(rs) + 1 |-> n]).parts

AllThere(f) == f.present /\ IsEmpty(f.next)

Present(rs, r) == IsEmpty(r) \/ AllThere(Find(rs, r))

InsertPresent(rs, part) == IF part.present THEN Insert(rs, part.r) ELSE rs

InsertAllPresent(rs, parts) == SeqExt!FoldLeft(InsertPresent, rs, parts)

Intersection(rs, r) == InsertAllPresent(<<>>, FindAll(rs, r))

\* FindMissing: r without the part at its start that is present, so all of r if
\* nothing of it is (its comment says that the answer is empty then).
Remainder(r, f) ==
  IF IsEmpty(r) \/ ~f.present THEN r
  ELSE Span(End(f.curr), r.size - (End(f.curr) - r.pos))

FindMissing(rs, r) == Remainder(r, Find(rs, r))

-----------------------------------------------------------------------------
(* The reference: a range is a set of positions. *)

Bytes(r) == r.pos .. End(r) - 1
Positions(rs) == UNION {Bytes(rs[i]) : i \in DOMAIN rs}

\* Sorted, without empty ranges, and no two ranges overlap or touch.
Canonical(rs) ==
  /\ \A i \in DOMAIN rs : rs[i].size > 0
  /\ \A i \in 1 .. Len(rs) - 1 : End(rs[i]) < rs[i + 1].pos

\* The queries agree with the set of positions that are there, for ranges within
\* 0..max.
QueryExact(rs, r, miss, m) ==
  /\ Present(rs, r) <=> miss = {}
  /\ End(m) = End(r)
  /\ miss \subseteq Bytes(m)
  /\ miss # {} => m.pos \in miss

QueriesExact(rs, there, max) ==
  \A pos \in 0 .. max : \A last \in pos .. max :
    LET r == Span(pos, last - pos + 1)
    IN QueryExact(rs, r, Bytes(r) \ there, FindMissing(rs, r))
=============================================================================
